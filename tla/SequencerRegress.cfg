\* One instance, whose upload of a checkpoint may land late.
CONSTANTS
    TileWidth = 2
    MaxLevel = 1
    Instances = {i1}
    Cert = {a}
    None = None
    LateOps = {"checkpoint"}
    MaxTime = 3
    MaxSize = 1
    PoolSize = 1
    MaxInflight = 1
    MaxStaged = 2
CONSTRAINT StagedBound
SPECIFICATION Spec
INVARIANTS
    SCTsPublished
