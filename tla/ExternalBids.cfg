SPECIFICATION Spec
CONSTANTS
    Replicas = {r1, r2}
    tight = tight
    loose = loose
    undated = undated
    Submissions <- MCSubmissions
    Issued <- MCIssued
    Deadline <- MCDeadline
    NoDeadline = NoDeadline
    Window = 1
    NonceCeiling = 2
    QueueCeiling = 2
    Batch = 2
    MaxTime = 3
    MaxFailures = 1
SYMMETRY Alike
INVARIANTS TypeOK QueueNearCeiling NothingDropped
PROPERTIES NoReplay
CHECK_DEADLOCK FALSE
