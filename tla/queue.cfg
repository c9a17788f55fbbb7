\* Every policy, every way task_fn may end, progress reports, and trouble.
CONSTANTS
    t1 = t1  t2 = t2
    l1 = l1  l2 = l2
    Task = {t1, t2}
    Listener = {l1, l2}
    Nil = Nil
    Policies = {"Local", "Remote", "LocalFirst", "RemoteFirst", "Auto"}
    Once = {TRUE, FALSE}
    Outcomes = {"value", "nothing", "error", "unpicklable"}
    Reports = TRUE
    Trouble = {TRUE}
SPECIFICATION TQSpec
SYMMETRY QuerySymmetry
INVARIANTS
    TQTypeOK
    AnswersAreGenuine
    RunsAtMostOnce
