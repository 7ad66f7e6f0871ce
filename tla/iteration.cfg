SPECIFICATION IterationSpec
CONSTANTS
    Files = {lib, toml}
    Manifests = {toml}
    Versions = {0, 1, 2}
    Broken = {2}
    Original <- Unedited
    Requests <- ByAnyone
    Canaries = {"pass", "fail", "partial"}
    Commands = {"reload", "stage", "promote", "rollback", "approve"}
    Faults = {"build", "restore", "persist", "verify", "hash", "panic", "batch", "drift"}
    MaxEdits = 3
    MaxIterations = 2
    MaxCommands = 1
    MaxCrashes = 2
    MaxFaults = 1
    MaxBlocked = 1
    None = None
    Root = {r1}
    Source = {0}
    Worker = {w1, w2}
    MaxIteration = 2
    MaxObserve = 1
    MaxUpdate = 1
    HistoryCap = 1
    BlockedCap = 1
    MemoryLimit = 1
    Path = {"manifest", "core", "deep", "childManifest", "childCore", "outside"}
    Writable = {"manifest", "core", "deep", "childManifest", "childCore"}
    Focus = {"manifest", "core"}
    Sources = {"core", "deep", "childCore"}
    ParentManifest = "manifest"
    ChildFiles <- MCChildFiles
    Batches <- MCBatches
    ToolCommands <- MCCommands
    MaxTools = 6
    MaxToolFaults = 1
SYMMETRY WorkerSymmetry
INVARIANTS IterationRecoverable IterationClean StatusTruthful 
PROPERTY PromotedVerified
