SPECIFICATION Spec
CONSTANTS
    BlockSize = 2
    WireChunk = 2
    MaxLiteral = 2
    MaxRun = 3
    Bytes <- FileBytes
    MaxLen = 5
    Strays <- StrayBytes
INVARIANTS
    RoundTrip
    DecodesPrefix
    EndIsExplicit
