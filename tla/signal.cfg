SPECIFICATION Spec
CONSTANTS
    NULL = NULL
    d1 = d1
    d2 = d2
    Desks <- TwoDesks
    Forecasts <- SmallForecasts
    FullScore = 2
    Gain <- Half
    SigmaFloor <- Half
    ZWidth <- Three
    LotRisks <- Fulls
    Roundings <- AllRoundings
    MaxAbsLots = 2
CHECK_DEADLOCK FALSE
INVARIANTS
    PoolingIsModest
    OrderFollowsDesks
