SPECIFICATION ServeSpec
CONSTANTS
    MaxTurns = 2
    HistoryLimit = 6
    CompactAt = 4
    KeepRecent = 2
    TokenLimit = 6
    StuckLimit = 2
    Plans <- MCPlans
    Injected = {m1}
    Blank = {}
    MaxResponds = 2
    Keys = {1, 2}
    FileOf <- MCFileOf
    Capacity = 2
    MaxSessions = 1
    Senders = {u, v}
    MaxMessages = 3
    MaxCrashes = 1
    NoSession = 0
    fileOld = fileOld
    fileNew = fileNew
    fileBad = fileBad
    Paths = {fileOld, fileNew, fileBad}
    Outside = {fileBad}
    Sensitive = {}
    Tracked <- MCTracked
    DataPaths = {}
    MaxWrites = 3
    MaxEditTurns = 2
    Speakers = {"s1", "s2", "s3"}
    Keyless = {"s3"}
    Personas = {"p1"}
    Profiles = {"fast"}
    UnknownProfile = "unknown"
    MaxReloads = 2
    Messages <- MCMessages
    Users = {"u", "v"}
    Chats = {"p", "g"}
    CodeOf <- MCCodeOf
    Updates <- MCUpdates
    QueueCap = 1
    RecentCap = 1
    MaxStarts = 2
    MaxFrames = 3
    MaxAdmin = 2
CHECK_DEADLOCK FALSE
INVARIANTS  TurnBooked  
  
