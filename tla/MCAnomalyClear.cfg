SPECIFICATION FairSpec
CONSTANTS
    Rates <- MCTwoRates
    Severities <- MCSeverities
    MinPps = 1
    MinPeak = 3
    Persistence = 1
    CoolDown = 2
    Deescalation = 2
    FreezeEnabled = TRUE
    PoisonProtection = FALSE
    PoisonThreshold = 1
    PoisonRecovery = 0
    ControlOps = {"clear"}
    ForceLevels = {}
PROPERTY ClearReachesShared
