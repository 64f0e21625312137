SPECIFICATION FairSpec
CONSTANTS
    Values <- StreamAndBlock
    Default = "S"
    MaxCommands = 5
INVARIANTS
    TrueMeansDone
    KnownSlips
    Negotiated
PROPERTIES
    CallsReturn
