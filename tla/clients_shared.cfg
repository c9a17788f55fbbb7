\* The same in shared mode.
CONSTANTS
    k1 = k1  k2 = k2
    c1 = c1  c2 = c2
    Key = {k1, k2}
    Nil = Nil
    Allocated = Allocated
    Name = {}
    NoName = NoName
    Shared = TRUE
    LockTtl = {"timed"}
    BindTtl = {"timed"}
    ItemTtl = {"never"}
    MaxBatch = 1
    Client = {c1, c2}
    Nobody = Nobody
    AutoClose = FALSE
    LateCalls = {}
    Readds = FALSE
SPECIFICATION ClientsSpec
SYMMETRY KeyAndClientSymmetry
PROPERTIES
    SharedGrantStaysFree
