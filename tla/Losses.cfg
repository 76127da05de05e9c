SPECIFICATION Spec
CONSTANTS
    Guids = {g1, g2, g3}
    NoGuid = NoGuid
    MAX_CONNECTIONS = 3
    Classes = {"Cleric"}
    Healers <- MCHealers
    NoClass = "none"
    AttribHealth <- MCHealth
    AttribDamage <- MCDamage
    AttribDefense <- MCDefense
    DefendBonus = 1
    DieFaces = {1, 2}
    LossStates = {"NS_WaitingPlayers", "NS_GameStarted", "NS_GameOver"}
    PromptMain = FALSE
SYMMETRY Symmetry
CHECK_DEADLOCK FALSE
INVARIANT SlotsMatchPlayers
INVARIANT GameHasOpponents
INVARIANT OneWinner
INVARIANT GameSurvivesLosses
PROPERTY NobodyComesBack
PROPERTY ImplementsTurnGame
