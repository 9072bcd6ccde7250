\* One feed read by one desk in two regimes; releases, checks, reviews and crashes in any
\* order.
SPECIFICATION Spec
CONSTANTS
    f1 = f1  d1 = d1  r1 = r1  r2 = r2
    Feeds <- FeedOne
    Desks <- OneDesk
    Regimes <- TwoRegimes
    FeedOrder <- OneFeed
    Consumers <- OneConsumer
    Firings <- OddFirings
    Tolerance = 0
    MissWindow = 3
    Lookback = 4
    Threshold = 1
    Recovery = 0
    Delta = 0
    Lambda = 0
    MaxTime = 2
    MaxPending = 2
    MaxRequests = 3
    MaxCrashes = 1
CHECK_DEADLOCK FALSE
INVARIANTS
    ReportedOnce
    ReviewTakesEffect
PROPERTIES
    RecoveryIsSelective
    QueueDrains
