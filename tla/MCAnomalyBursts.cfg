SPECIFICATION HistorySpec
CONSTANTS
    Rates <- MCRates
    Severities <- MCSeverities
    MinPps = 1
    MinPeak = 3
    Persistence = 2
    CoolDown = 7
    Deescalation = 2
    FreezeEnabled = TRUE
    PoisonProtection = FALSE
    PoisonThreshold = 1
    PoisonRecovery = 0
    ControlOps = {}
    ForceLevels = {}
PROPERTY AlarmNeedsRun
