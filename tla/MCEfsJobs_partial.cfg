\* A living instance loses its lock while it loads a workbook of two batches.
CONSTANTS
    j1 = j1
    j2 = j2
    w1 = w1
    w2 = w2
    p1 = p1
    None = None
    OldSurvey = OldSurvey
    Jobs = {j1}
    Workers = {w1, w2}
    Pollers = {}
    Faults = {"lock"}
    MaxFaults = 1
    MaxEdits = 0
    Parts = 2
SPECIFICATION Spec
INVARIANTS
    ActiveIsComplete
CHECK_DEADLOCK FALSE
