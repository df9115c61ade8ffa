SPECIFICATION Spec
CONSTANTS
    Threads = {t1, t2}
    Emails = {e1, e2}
    LinkTtl = 2
    SessionTtl = 1
    MaxPending = 2
    MaxSessions = 1
    Straddling = FALSE
    MaxLinks = 3
    MaxDraws = 3
    MaxTime = 2
    MaxFailures = 1
SYMMETRY Alike
INVARIANTS TypeOK OneSessionPerLink SupersededStaysDead NothingBurned SessionsNearCeiling
PROPERTIES NoEviction
CHECK_DEADLOCK FALSE
