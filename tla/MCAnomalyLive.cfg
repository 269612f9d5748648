SPECIFICATION HistoryFairSpec
CONSTANTS
    Rates <- MCRates
    Severities <- MCSeverities
    MinPps = 1
    MinPeak = 3
    Persistence = 2
    CoolDown = 7
    Deescalation = 2
    FreezeEnabled = TRUE
    PoisonProtection = TRUE
    PoisonThreshold = 2
    PoisonRecovery = 2
    ControlOps = {"freeze", "reset"}
    ForceLevels = {}
INVARIANT PoisonedStaysFrozen
PROPERTIES PhasesSpec DropIsNoticed AttackEnds LearningResumes ClearReachesShared
