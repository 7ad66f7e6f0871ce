SPECIFICATION SnapshotsSpec
CONSTANTS
    t1 = t1
    t2 = t2
    t3 = t3
    SnapNone = SnapNone
    SnapThreads = {t1, t2, t3}
    SnapOps <- OpsOneSwapper
    SnapMaxBuilds = 3
    MaxRetired = 1
    Host = {h1, h2}
    Collector = {g1, g2}
    MaxLockFiles = 3
    ZeroAge = FALSE
    p1 = p1
    p2 = p2
    p3 = p3
    p4 = p4
    None = None
    Topo <- MCTopo
    Parent <- MCParent
    Required = {p3, p4}
    TaskPlugin = {p3}
    Caller = {c1, c2}
    Invoked = {p3}
    Reloader = {r1}
    MaxBuilds = 1
    MaxReloads = 1
SYMMETRY CallerSymmetry
INVARIANTS SnapshotsSound 
PROPERTIES PromotedIsExpected 
