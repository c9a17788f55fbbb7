\* Exclusive mode without names: three keys, so that a list has a middle.
CONSTANTS
    k1 = k1  k2 = k2  k3 = k3
    Key = {k1, k2, k3}
    Nil = Nil
    Allocated = Allocated
    Name = {}
    NoName = NoName
    Shared = FALSE
    LockTtl = {"timed", "permanent"}
    BindTtl = {"timed"}
    ItemTtl = {"live", "never"}
    MaxBatch = 2
SPECIFICATION Spec
SYMMETRY KeySymmetry
INVARIANTS
    TypeOK
    ListWellFormed
    DiagnosticsFindNothing
    FreeKeysUnlocked
    LuaAssertsHold
PROPERTIES
    RefinesFifo
    MallocExhausts
    OnlyAddersEnlargePool
    LocksEndOnlyAsDocumented
