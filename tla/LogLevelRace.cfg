SPECIFICATION Spec
CONSTANTS
    p1 = p1
    p2 = p2
    Absent = Absent
    Procs = {p1, p2}
    Components = {1, 2}
    Levels = {10, 20}
    Commands <- Racers
    Faults = {"refused", "lost"}
    Churn = {"delete"}
    BlankAccepted = {TRUE, FALSE}
    MaxEntries = 4
INVARIANT TypeOK
INVARIANT OneLevel
INVARIANT AllOrNothing
CHECK_DEADLOCK FALSE
