\* Two instances, locks may be lost: attempts of one save may overlap.
CONSTANTS
    j1 = j1
    j2 = j2
    w1 = w1
    w2 = w2
    p1 = p1
    None = None
    OldSurvey = OldSurvey
    Jobs = {j1, j2}
    Workers = {w1, w2}
    Pollers = {}
    Faults = {"crash", "lock"}
    MaxFaults = 2
    MaxEdits = 0
    Parts = 1
SPECIFICATION Spec
INVARIANTS
    TypeOK
    OneActiveSurvey
PROPERTIES
    ImplementsPublication
CHECK_DEADLOCK FALSE
