\* Every file of up to three rows, two starts, two operator commands.
SPECIFICATION Spec
CONSTANTS
    NULL = NULL
    Unit = 1
    n_soft = 2
    DecayNum = 1
    DecayDen = 4
    Feeds <- MCFeeds
    Symbols <- TwoSymbols
    FrontSymbol = "CL1"
    NextSymbol = "CL2"
    SeqTexts <- SequenceTexts
    Start = 0
    End = 3
    Interval = 2
    BudgetOf <- Follow
    MaxAttempts = 2
    MaxOps = 2
CHECK_DEADLOCK FALSE
INVARIANTS
    SamplesInOrder
    GreenIsEarned
    OneAttemptPerRoot
