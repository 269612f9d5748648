SPECIFICATION Spec
CONSTANTS
    Rates <- MCTwoRates
    Severities <- MCCritical
    MinPps = 1
    MinPeak = 3
    Persistence = 1
    CoolDown = 7
    Deescalation = 2
    FreezeEnabled = TRUE
    PoisonProtection = TRUE
    PoisonThreshold = 1
    PoisonRecovery = 1
    ControlOps = {"clear", "force", "freeze", "unfreeze", "reset"}
    ForceLevels = {4}
INVARIANTS TypeOK CoolDownReachesLow
PROPERTY GradualDescent
