CONSTANTS
    t1 = t1
    t2 = t2
    s1 = s1
    None = None
    Threads = {t1, t2}
    Sessions = {s1}
    Shell = {s1}
    Ops <- OpsDrop
    HasFallback = FALSE
    MaxTurns = 1
    MaxCrashes = 0
SPECIFICATION Spec
INVARIANT DropIsFinal
