\* One upload, whose hedge fails.
CHECK_DEADLOCK FALSE
SPECIFICATION Spec
INVARIANTS
    ErrorOnlyIfFailed
