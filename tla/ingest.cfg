SPECIFICATION Spec
CONSTANTS
    Plans <- MCPlans
    Specs <- MCSpecs
    MaxRetries = 1
    MaxTime = 4
    MaxPublish = 2
    MaxFaults = 2
    MaxCrash = 1
    Reverts = FALSE
CHECK_DEADLOCK FALSE
INVARIANTS
    StoreFollowsPublisher
    ViewReplays
PROPERTIES
    RunsComplete
