SPECIFICATION Spec
CONSTANTS
    Guids = {g1, g2, g3, g4}
    NoGuid = NoGuid
    MAX_CONNECTIONS = 3
    Classes = {"Warrior", "Rogue", "Cleric"}
    Healers <- MCHealers
    NoClass = "none"
    AttribHealth <- MCHealth
    AttribDamage <- MCDamage
    AttribDefense <- MCDefense
    DefendBonus = 1
    DieFaces = {1, 2, 3}
    LossStates = {}
    PromptMain = FALSE
SYMMETRY Symmetry
CHECK_DEADLOCK FALSE
INVARIANT TypeOK
INVARIANT HealthMatchesStatus
INVARIANT OneTurnAtATime
INVARIANT OnlyThePlayerOnTurnActs
INVARIANT NothingFails
PROPERTY TurnIsDroppedAtClearOnly
