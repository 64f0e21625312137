SPECIFICATION Spec
CONSTANTS
    Values <- StreamAndBlock
    Default = "S"
    MaxCommands = 5
INVARIANT
    InStep
