\* One upload, from its call until everything has come to rest.
CHECK_DEADLOCK FALSE
SPECIFICATION Spec
INVARIANTS
    OkIsPersisted
PROPERTIES
    NoneSentLater
    UploadEnds
