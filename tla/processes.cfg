SPECIFICATION ProcessesSpec
CONSTANTS
    PipeCap = 1
    MinQuality = 80
    Call = {c1, c2}
    MaxFrame = 2
    Thread = {t1, t2}
    PipeRoom = 1
    MaxInput = 2
    MaxOutput = 2
    MaxWait = 2
    Words = {"a", "b"}
    Bodies <- MCBodies
    MaxAttempts = 2
    Room = 1
    MaxChunk = 2
INVARIANTS VerdictEarned TokensAreOwn HandledIsVerified SettledOnce StreamSound
 
CHECK_DEADLOCK FALSE
