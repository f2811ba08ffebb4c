SPECIFICATION Spec
CONSTANTS
    Key = {k1, k2}
    Tombstone = Tombstone
    Absent = Absent
    DataSize = 8
    TombstoneSize = 4
    Shutdown = Shutdown
    Partial = Partial
    Writers = {w1}
    Readers = {r1}
    Ops = {"set"}
    MaxOps = 5
    MaxNodes = 1
    MaxSize = 100
    CompactionRate = 9
    FlushQueue = 2
    CompactionQueue = 1
    NeedsFlush = {FALSE}
    Faults = {}
    MayCancel = {}
    MayDrop = {}
SYMMETRY Symmetry
INVARIANTS
    
    
    ContentsAreStore
PROPERTIES
    ImplementsKVStore
