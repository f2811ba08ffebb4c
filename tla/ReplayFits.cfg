SPECIFICATION RestartSpec
CONSTANTS
    Key = {k1, k2}
    Tombstone = Tombstone
    Absent = Absent
    DataSize = 8
    TombstoneSize = 4
    Shutdown = Shutdown
    Partial = Partial
    Writers = {w1}
    Readers = {}
    Ops = {"set", "delete"}
    MaxOps = 6
    MaxNodes = 3
    MaxSize = 8
    CompactionRate = 9
    FlushQueue = 4
    CompactionQueue = 1
    NeedsFlush = {TRUE, FALSE}
    Faults = {}
    MayCancel = {}
    MayDrop = {}
    MaxCrashes = 2
    StartIn = {"thread"}
INVARIANT ReplayFits
