\* Two releases, fetched no earlier than they are usable, revised with and
\* without a stamp of the caller's, calls dying anywhere.
SPECIFICATION Spec
CONSTANTS
    A = A  B = B
    Payloads <- TwoPayloads
    Observations <- TwoPeriods
    Releases = {0, 1}
    Stamps = {2}
    LatencyGuard = 0
    FetchDelay = 0
    TicksPerSecond = 1
    MayCrash = TRUE
    MaxTime = 5
SYMMETRY PayloadSymmetry
CHECK_DEADLOCK FALSE
INVARIANTS
    SlotsUnique
    RowsReadable
    SupersededNotServed
PROPERTIES
    RevisionsKeepPast
