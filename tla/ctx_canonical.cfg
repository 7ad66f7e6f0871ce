CONSTANTS
    t1 = t1
    t2 = t2
    t3 = t3
    k1 = k1
    k2 = k2
    None = None
    Absent = Absent
    Tombstone = Tombstone
    Threads = {t1, t2, t3}
    Keys = {k1}
    Values = {v1}
    Subgraphs = {s1}
    Nodes = {}
    MaxVersion = 0
    Ops <- OpsCanonical
    Clash <- NoClash
SPECIFICATION Spec
INVARIANT TypeOK
INVARIANT OverlayLockstep
INVARIANT NoCircularWait
PROPERTY OverlayIsolation
SYMMETRY ThreadSymmetry
