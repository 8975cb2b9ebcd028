\* Three submissions of four chains, three of them of one precertificate;
\* pools of at most two.
CONSTANTS
    Requests = {r1, r2, r3}
    Chains <- AllChains
    PoolSize = 2
SYMMETRY Symmetry
SPECIFICATION Spec
INVARIANTS
    TypeOK
    AnswersRight
    IssuersStored
    ResultNeverMissing
    CacheRight
PROPERTIES
    DuplicatesExcused
