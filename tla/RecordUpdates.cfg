SPECIFICATION Spec
CONSTANTS
    Base = 4
    KeyLens = {0, 1, 3, 4}
    ValueLens = {0, 1, 3, 4, 8, 12, 16, 17}
    MaxWrites = 4
    None = None
CHECK_DEADLOCK FALSE
INVARIANTS
    BlobIsLastWrite
    KeyViewIsKey
    
