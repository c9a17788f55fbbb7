\* The diagnostics beside a pool of two keys with one name.
CONSTANTS
    k1 = k1  k2 = k2
    n1 = n1
    Key = {k1, k2}
    Nil = Nil
    Allocated = Allocated
    Name = {n1}
    NoName = NoName
    Shared = FALSE
    LockTtl = {"timed"}
    BindTtl = {"timed"}
    ItemTtl = {"never"}
    MaxBatch = 1
    ScanLimit = 2
    MaxMoves = 3
    OtherLocks = {}
SPECIFICATION CollectorSpec
SYMMETRY KeySymmetry
INVARIANTS
    CollectorTypeOK
PROPERTIES
    NoFalseAlarms
    HealthyIsHonest
