SPECIFICATION Spec
CONSTANTS
    Key <- Keys9
    Tombstone = Tombstone
    Absent = Absent
    MaxNodes = 9
    MaxSize = 64
    DataSize = 8
    TombstoneSize = 4
    Entries <- Entries9
INVARIANTS
    WellLinked
    RedBlack
    FlushedInOrder
PROPERTIES
    ImplementsMemtable
