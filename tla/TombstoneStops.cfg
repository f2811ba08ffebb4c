SPECIFICATION Spec
CONSTANTS
    Key = {k1, k2}
    Tombstone = Tombstone
    Absent = Absent
    DataSize = 8
    TombstoneSize = 4
    Shutdown = Shutdown
    Partial = Partial
    Writers = {c}
    Readers = {c}
    Ops = {"set", "delete"}
    MaxOps = 3
    MaxNodes = 1
    MaxSize = 100
    CompactionRate = 9
    FlushQueue = 1
    CompactionQueue = 1
    NeedsFlush = {FALSE}
    Faults = {}
    MayCancel = {}
    MayDrop = {}
INVARIANT TombstoneStopsSearch
