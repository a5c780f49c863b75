\* One save of two batches: every fault but the loss of a lock.
CONSTANTS
    j1 = j1
    j2 = j2
    w1 = w1
    w2 = w2
    p1 = p1
    None = None
    OldSurvey = OldSurvey
    Jobs = {j1}
    Workers = {w1, w2}
    Pollers = {p1}
    Faults = {"error", "unacked", "kill", "crash"}
    MaxFaults = 2
    MaxEdits = 1
    Parts = 2
SPECIFICATION FairSpec
INVARIANTS
    ActiveIsComplete
    SucceededIsPublished
PROPERTIES
    SavedIsReported
    EverySaveEnds
CHECK_DEADLOCK FALSE
