\* Two careful clients, an administrator and health checks, exclusive mode.
CONSTANTS
    k1 = k1  k2 = k2
    c1 = c1  c2 = c2
    n1 = n1
    Key = {k1, k2}
    Nil = Nil
    Allocated = Allocated
    Name = {n1}
    NoName = NoName
    Shared = FALSE
    LockTtl = {"timed"}
    BindTtl = {"timed"}
    ItemTtl = {"never"}
    MaxBatch = 1
    Client = {c1, c2}
    Nobody = Nobody
    AutoClose = TRUE
    LateCalls = {}
    Readds = FALSE
SPECIFICATION ClientsSpec
SYMMETRY KeyAndClientSymmetry
INVARIANTS
    ClientsTypeOK
    Exclusive
    LeasesAreLocked
PROPERTIES
    AutoCloseSparesHolders
