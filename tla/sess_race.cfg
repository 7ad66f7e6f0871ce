CONSTANTS
    t1 = t1
    t2 = t2
    s1 = s1
    None = None
    Threads = {t1, t2}
    Sessions = {s1}
    Shell = {s1}
    Ops <- OpsRace
    HasFallback = TRUE
    MaxTurns = 2
    MaxCrashes = 1
SPECIFICATION Spec
INVARIANT SessionsSound
PROPERTY CallsReturn
