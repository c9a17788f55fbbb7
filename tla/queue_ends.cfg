\* Every query ends: with deadlines whatever dies, without trouble always.
CONSTANTS
    t1 = t1  t2 = t2
    l1 = l1
    Task = {t1, t2}
    Listener = {l1}
    Nil = Nil
    Policies = {"Remote", "LocalFirst", "RemoteFirst", "Auto"}
    Once = {TRUE}
    Outcomes = {"value", "error"}
    Reports = FALSE
    Trouble = {TRUE, FALSE}
SPECIFICATION FairTQSpec
INVARIANTS
    FallbacksFollowFailures
PROPERTIES
    QueriesEnd
    PendingStateSurvives
