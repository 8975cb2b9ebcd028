\* One instance whose faults stop: what is committed gets published.
CONSTANTS
    TileWidth = 2
    MaxLevel = 1
    Instances = {i1}
    Cert = {a}
    None = None
    LateOps = {"replace", "tile"}
    MaxTime = 4
    MaxSize = 2
    PoolSize = 1
    MaxInflight = 1
    StableTime = 3
\* Clocks end at MaxTime.
CHECK_DEADLOCK FALSE
SPECIFICATION LiveSpec
PROPERTIES
    CommittedIsPublished
