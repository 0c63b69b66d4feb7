SPECIFICATION Spec
CONSTANTS
    p1 = p1
    p2 = p2
    Absent = Absent
    Procs = {p1}
    Components = {1, 2, 3}
    Levels = {10, 20}
    Commands <- Setters
    Faults = {}
    Churn = {}
    BlankAccepted = {TRUE, FALSE}
    MaxEntries = 6
INVARIANT SetsOnlyItsOwn
CHECK_DEADLOCK FALSE
