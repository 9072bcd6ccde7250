\* Two desks in one regime: forecasts that go stale, promotions and
\* retirements, crashes between any two inserts.
SPECIFICATION ServiceSpec
CONSTANTS
    NULL = NULL
    d1 = d1
    d2 = d2
    Desks <- TwoDesks
    Regimes <- OneRegime
    Points <- LongAndShort
    PrintValues = {2}
    WeightValues <- RetireOrDouble
    K = 1
    Limit = 3
    MaxForecasts = 3
    MaxDecisions = 2
    MaxPromotions = 1
    MaxCrashes = 1
CHECK_DEADLOCK FALSE
INVARIANTS
    DecisionsReplay
    AttributionAddsUp
    GateIsSound
