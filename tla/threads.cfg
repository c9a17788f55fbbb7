\* Three threads take over two idents and may crash between any two commands.
CONSTANTS
    t1 = t1  t2 = t2  t3 = t3
    i1 = i1  i2 = i2
    Thread = {t1, t2, t3}
    Id = {i1, i2}
    Late = {}
    Collide = FALSE
SPECIFICATION FairTHSpec
PROPERTIES
    RunningCountsAsLocked
    CleanEndsLeaveNothing
    CrashesAreNoticed
