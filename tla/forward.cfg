SPECIFICATION FairSpec
CONSTANTS
    PerDay = 4
    Horizon = 1
    Gap = 2
    Events <- MCEvents
    DecisionAt <- MCDecisionAt
    PastTimes <- MCPastTimes
    Price <- MCPrice
    PastDays <- MCPastDays
    LateDays <- MCLateDays
    Instants <- MCInstants
    MaxLag = 1
    MaxAge = 1
    MinTrain = 2
    MaxFiles = 2
    MaxMishaps = 2
INVARIANTS
    
    LedgerStaysUsable
    OutcomesStand
    ThinningIsThrifty
PROPERTIES
    SealedOnlyGrows
    ForecastsSettle
