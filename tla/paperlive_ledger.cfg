\* Crashes and retries at every step, late ticks, every switch level.
SPECIFICATION Spec
CONSTANTS
    NULL = NULL
    Unit = 4
    n_soft = 1
    DecayNum = 1
    DecayDen = 2
    MaxTs = 2
    MaxAttempts = 4
    MaxCrashes = 2
    MaxOps = 1
    Lateness <- Late
    TTL = 1
    ForecastTTL = 1
    Budgets <- LongOnly
    Markets <- CalmOnly
    LotsAt <- MCLotsAt
    Levels <- AllLevels
    Schedule = "retry"
CHECK_DEADLOCK FALSE
INVARIANTS
    ReceiptsVerify
    LedgerHangsTogether
