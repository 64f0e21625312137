SPECIFICATION Spec
CONSTANTS
    p1 = p1
    p2 = p2
    a = a
    b = b
    f = f
    g = g
    d1 = d1
    d2 = d2
    Procs <- TwoProcs
    DirNames <- TwoDirNames
    Names <- TwoNames
    Dirs <- TwoDirs
    Chunks = 1
    Kinds <- EveryKind
    MaxOps = 3
    Folder = Folder
    None = None
SYMMETRY Symmetry
INVARIANTS
    WholeFiles
    PartsRemoved
PROPERTIES
    StouIsNew
    ImplementsFileStore
