\* Liveness: no symmetry, two requests; pools have no limit.
CONSTANTS
    Requests = {r1, r2}
    Chains <- LiveChains
    PoolSize = 0
SPECIFICATION ProcSpec
PROPERTIES
    EveryoneAnswered
    StoppedExits
