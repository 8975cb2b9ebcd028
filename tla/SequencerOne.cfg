\* One instance that crashes, restarts and has requests fail; a Replace, a
\* staging upload and a tile upload may land late.
CONSTANTS
    TileWidth = 2
    MaxLevel = 1
    Instances = {i1}
    Cert = {a, b}
    None = None
    LateOps = {"replace", "staging", "tile"}
    MaxTime = 3
    MaxSize = 3
    PoolSize = 2
    MaxInflight = 1
    MaxStaged = 2
CONSTRAINT StagedBound
SYMMETRY Symmetry
SPECIFICATION Spec
INVARIANTS
    TypeOK
    PublishedReadable
    PublishedConsistent
    Recoverable
    SCTsHonoured
    CheckpointsWellTimed
    SCTsPublished
PROPERTIES
    LockAppendOnly
    TilesImmutable
    ImplementsSoleLog
