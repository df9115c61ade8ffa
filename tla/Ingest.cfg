SPECIFICATION Spec
CONSTANTS
    t1 = t1
    t2 = t2
    e1 = e1
    e2 = e2
    e3 = e3
    Threads = {t1, t2}
    Events = {e1, e2, e3}
    Attempts = 3
    MaxPending = 1
    MaxPosts = 3
    MaxRestarts = 1
SYMMETRY Interchangeable
INVARIANTS TypeOK OneRowPerEvent NothingUncounted QueueNearCeiling ToldOnce
CHECK_DEADLOCK FALSE
