SPECIFICATION Spec
CONSTANTS
    Base = 4
    None = None
    Keys <- Keys8
    MaxRecords = 3
    ValueLens = {0, 3, 6, 16}
    Hashes <- Hashes3
    Radix = 3
    WordEndFlag = 1024
    HashModulus = 16
    WordBits = 4
    BitsPerKey = 2
    BloomHint = 1
    WriteCapacity = 12
    ReadBuffer = 8
INVARIANTS
    OffsetsMatchBytes
    LookupExact
    ScanExact
