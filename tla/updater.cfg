\* Two processes that die at any step; a fetch is faster than update_interval.
CONSTANTS
    p1 = p1  p2 = p2
    Proc = {p1, p2}
    Deployment <- OneOrTwoParameters
    MaxVersion = 1
    SlowFetch = FALSE
SPECIFICATION FairPUSpec
INVARIANTS
    PUTypeOK
    OneUpdater
PROPERTIES
    NoStaleRefresh
    KeysArrive
