SPECIFICATION Spec
CONSTANTS
    Guids = {g1, g2}
    NoGuid = NoGuid
    MAX_CONNECTIONS = 2
    Classes <- EPlayerClass
    Healers <- HealerClasses
    NoClass = "none"
    AttribHealth <- HealthPoints
    AttribDamage <- DamagePoints
    AttribDefense <- DefensePoints
    DefendBonus = 5
    DieFaces <- Rolld20
    LossStates = {}
    PromptMain = TRUE
SYMMETRY Symmetry
CHECK_DEADLOCK FALSE
INVARIANT NobodyIsInvulnerable
PROPERTY LivesThroughFirstBlow
