SPECIFICATION Spec
CONSTANTS
    None = None
    Duration = 4
    Cadence = 1
    SampleInterval = 2
    CheckpointInterval = 1
    SimDays = 2
    NDesks = 2
    Usages <- OneLeak
    FirstRss = 4
    FirstFds = 1
    RssAbs = 1
    DbGrowth = 2
    MaxStops = 2
CHECK_DEADLOCK FALSE
INVARIANTS
    CheckpointTracksRows
    LeakNoticed
PROPERTIES
    RunEnds
