CONSTANTS
    t1 = t1
    t2 = t2
    t3 = t3
    k1 = k1
    k2 = k2
    None = None
    Absent = Absent
    Tombstone = Tombstone
    Threads = {t1, t2}
    Keys = {k1, k2}
    Values = {v1}
    Subgraphs = {s1}
    Nodes = {n1}
    MaxVersion = 1
    Ops <- OpsPromote
    Clash <- MCClash
SPECIFICATION Spec
INVARIANT ViewsCurrent
PROPERTY PromotionPreservesView
CHECK_DEADLOCK FALSE
