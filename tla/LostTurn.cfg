SPECIFICATION FairSpec
CONSTANTS
    Guids = {g1, g2, g3}
    NoGuid = NoGuid
    MAX_CONNECTIONS = 3
    Classes = {"Rogue"}
    Healers <- MCHealers
    NoClass = "none"
    AttribHealth <- MCHealth
    AttribDamage <- MCDamage
    AttribDefense <- MCDefense
    DefendBonus = 1
    DieFaces = {1, 2, 3}
    LossStates = {"NS_GameStarted"}
    PromptMain = TRUE
CHECK_DEADLOCK FALSE
PROPERTY LostTurnIsTransferred
