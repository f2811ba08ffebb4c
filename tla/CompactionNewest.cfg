SPECIFICATION Spec
CONSTANTS
    Key <- Keys2
    Tombstone = Tombstone
    Absent = Absent
    MaxNodes = 1
    MaxSize = 1
    DataSize = 1
    TombstoneSize = 1
    MaxTables = 2
    MaxRecords = 4
INVARIANT NewestWins
