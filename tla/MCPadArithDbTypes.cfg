CONSTANTS
    MaxLen = 20
    MaxBlock = 17
    MaxSize = 34
    MaxPack = 17
    MaxSlice = 5
    MaxFrame = 6
    MaxRaw = 7
    MaxLine = 6
    ReaderSize = 4
    ReadChunk = 2
    KeyOrder <- MCKeyOrder
    Fuel = 12
    MaxIP = 5
    MaxRanges = 3
    MaxProxyLen = 3
    MaxKeyCalls = 3
    LocalOffset = 28800
SPECIFICATION Spec
INVARIANT ScanNoPanic
INVARIANT JSONKeepsInstant
INVARIANT DBBoolRoundTrip
