SPECIFICATION EngineSpec
CONSTANTS
    Executions <- Fork
    Transitions <- MCTransitions
    Places <- MCPlaces
    Keys <- MCKeys
    s1 = s1
    s2 = s2
    s3 = s3
    root1 = root1
    child1 = child1
    k1 = k1
    k2 = k2
    SvcNone = SvcNone
    SvcThreads = {s1, s2, s3}
    Plugins = {root1, child1}
    SvcKeys = {k1, k2}
    Owns <- OwnsPair
    SvcOps <- OpsAll
    MaxInstances = 3
INVARIANT NoLostWork
