\* Two instances of the program against the same stores.
CONSTANTS
    TileWidth = 2
    MaxLevel = 1
    Instances = {i1, i2}
    Cert = {a}
    None = None
    LateOps = {"replace", "checkpoint"}
    MaxTime = 3
    MaxSize = 2
    PoolSize = 1
    MaxInflight = 1
    MaxStaged = 2
CONSTRAINT StagedBound
SYMMETRY Symmetry
SPECIFICATION Spec
INVARIANTS
    Inv
PROPERTIES
    ImplementsSharedLog
