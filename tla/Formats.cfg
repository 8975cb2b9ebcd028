\* Bytes of two bits; up to two leaves, two checkpoints, every key, digest
\* and nonce of two small curves.
CONSTANTS
    Base = 4
    FingerprintSize = 2
    Entries <- SomeEntries
    Unknown = {1, 3}
    MaxLeaves = 2
    Name = "log"
    Key = "key"
    WitnessKey = "witness"
    Trees <- TwoTrees
    MaxNow = 2
SPECIFICATION FormatsSpec
CHECK_DEADLOCK FALSE
INVARIANTS
    LeavesReadBack
    HashedDistinctly
    CheckpointsOpen
    OnlySignedOpens
    TextCovered
    SignaturesVerify
    NonceUnbiased
