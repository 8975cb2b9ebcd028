\* The first start of a log, interrupted.
CONSTANTS
    TileWidth = 2
    MaxLevel = 1
    Instances = {i1}
    Cert = {a}
    None = None
    LateOps = {}
    MaxTime = 2
    MaxSize = 1
    PoolSize = 1
    MaxInflight = 0
    StableTime = 1
CHECK_DEADLOCK FALSE
SPECIFICATION LiveSpec
PROPERTIES
    LogCreated
