SPECIFICATION Spec
CONSTANTS
    Key = {k1}
    Tombstone = Tombstone
    Absent = Absent
    DataSize = 8
    TombstoneSize = 4
    Shutdown = Shutdown
    Partial = Partial
    Writers = {w1, w2}
    Readers = {}
    Ops = {"set"}
    MaxOps = 4
    MaxNodes = 1
    MaxSize = 100
    CompactionRate = 2
    FlushQueue = 1
    CompactionQueue = 1
    NeedsFlush = {FALSE}
    Faults = {"rotate", "create", "write", "unlink", "load", "compact", "cleanup"}
    MayCancel = {"rotate", "push", "signal", "retry"}
    MayDrop = {"thread", "task"}
SYMMETRY Symmetry
INVARIANTS
    TypeOK
    NoFlushDuringCompaction
    CacheSortedByName
    
    PipelineInv
    FlushNeverEmpty
    PopMatchesFlush
PROPERTIES
    LeavesQueueWhenServed
