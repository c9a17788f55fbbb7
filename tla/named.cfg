\* Exclusive mode with soft bindings for callers that pass a positive timeout;
\* Redis finishes its scripts, locks run out and gc is called.
CONSTANTS
    k1 = k1  k2 = k2
    n1 = n1
    Key = {k1, k2}
    Nil = Nil
    Allocated = Allocated
    Name = {n1}
    NoName = NoName
    Shared = FALSE
    LockTtl = {"timed"}
    BindTtl = {"timed", "permanent"}
    ItemTtl = {"live", "never"}
    MaxBatch = 2
SPECIFICATION FairSBSpec
PROPERTIES
    NoScriptAbandonsKey
    GrantsOnlyUnlocked
    ScriptsEnd
    CrashedHolderReclaimed
