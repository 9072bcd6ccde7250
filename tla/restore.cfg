\* Each decision_ts ticked once by one process under every switch level; the
\* ledger restored to any snapshot between ticks, failures included.
SPECIFICATION RestoreSpec
CONSTANTS
    NULL = NULL
    Unit = 4
    n_soft = 1
    DecayNum = 1
    DecayDen = 2
    MaxTs = 3
    MaxAttempts = 3
    MaxCrashes = 0
    MaxOps = 1
    Lateness <- Late
    TTL = 1
    ForecastTTL = 1
    Budgets <- BothSides
    Markets <- CalmOnly
    LotsAt <- MCLotsAt
    Levels <- IsolatedOrHalted
    Schedule = "strict"
    MaxRestores = 2
CHECK_DEADLOCK FALSE
INVARIANTS
    LadderFollowsLedger
    RestoreReproduces
