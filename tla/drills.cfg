\* The roll calendar over six weeks, then each S4 drill and each validation
\* function on all its small inputs.
SPECIFICATION EvalSpec
CONSTANTS
    NoLimit = NoLimit
    Holidays <- MCHolidays
    Contracts <- MCContracts
    NoNew = 3
    MustFlat = 1
    FirstDay = 0
    LastDay = 42
    Books <- MCBooks
    Orders <- MCOrders
    QueueStarts <- MCQueueStarts
    QueueEvents <- MCQueueEvents
    MaxEvents = 3
    HiddenCases <- MCHiddenCases
    Trades <- MCTrades
    Nothing = Nothing
    LevelUnits = 10
    QLevels <- MCLevels
    MinSamples = 3
    Tolerance = 1
    Sizes <- MCSizes
    SplitParams <- MCSplitParams
    Series <- MCSeries
    Warmup = 2
    WalkHorizon = 1
    Outcomes <- MCOutcomes
    Vectors <- MCVectors
    Nominals <- MCNominals
    SkillCases <- MCSkillCases
    SignCases <- MCSignCases
    RhoFloor <- MCFloor
    GradeCases <- MCGradeCases
    AuditCases <- MCAuditCases
    PerDay = 2
    MonthDays = 10
    WarmupDays = 14
    LagRows = 2
    MinPeriods = 1
    MinTrainEvents = 3
    LongHorizon = 2
CHECK_DEADLOCK FALSE
INVARIANTS
    RollLeavesTime
    DrillsAccountForAll
    EvaluationLooksBack
    JudgementsAreFair
