\* Three instances of two logs in two processes; three calls in all, each
\* with two attempts.
CONSTANTS
    c1 = c1
    c2 = c2
    c3 = c3
    Clients = {c1, c2, c3}
    LogOf <- MCLogOf
    ProcOf <- MCProcOf
    Kinds = {"sqlite", "dynamodb", "etag"}
    MaxBody = 3
    MaxAttempts = 2
SPECIFICATION Spec
CHECK_DEADLOCK FALSE
INVARIANTS
    TypeOK
    HandleUsable
PROPERTIES
    ImplementsRegister
