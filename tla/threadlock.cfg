\* Every call; update and unlock by the owner only.
CONSTANTS
    Owner = {1, 2, 3}
    Nil = Nil
    Timeouts <- WithNoLimit
    Comparisons = {"==", ">"}
    Calls = {"lock", "rlock", "set", "del", "update", "unlock", "look"}
    Careful = TRUE
SPECIFICATION THSpec
INVARIANTS
    THTypeOK
PROPERTIES
    RefinesLock
