SPECIFICATION SystemSpec
CONSTANTS
    Guids = {g1, g2}
    Fragile = {g1}
    NoGuid = NoGuid
    MAX_CONNECTIONS = 2
    Classes = {"Cleric"}
    Healers <- MCHealers
    NoClass = "none"
    AttribHealth <- MCHealth
    AttribDamage <- MCDamage
    AttribDefense <- MCDefense
    DefendBonus = 1
    DieFaces = {2}
    LossStates = {"NS_GameStarted"}
    PromptMain = FALSE
CHECK_DEADLOCK FALSE
INVARIANT SystemTypeOK
INVARIANT ClientFailsOnlyInLobby
INVARIANT StuckOnlyAtTheEnd
PROPERTY ServerAssumptionsHold
PROPERTY TurnsAreAnswered
PROPERTY EndReachesClients
