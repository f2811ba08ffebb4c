SPECIFICATION Spec
CONSTANTS
    Key <- Keys3
    Tombstone = Tombstone
    Absent = Absent
    MaxNodes = 1
    MaxSize = 1
    DataSize = 1
    TombstoneSize = 1
    MaxTables = 4
    MaxRecords = 6
INVARIANTS
    OutputSorted
    OneNodePerTable
    
PROPERTIES
    Terminates
