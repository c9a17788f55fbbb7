\* Every call, with RedisLock's rlock.
CONSTANTS
    Owner = {1, 2, 3}
    Nil = Nil
    Timeouts = {1, 2}
    Calls = {"lock", "update", "unlock", "set", "del", "rlock"}
    Comparisons = {"=="}
    Renews = FALSE
    Late = {}
    Hopeful = FALSE
SPECIFICATION LCSpec
INVARIANTS
    PromisesKept
