SPECIFICATION MCSpec
CONSTANTS
    p1 = p1
    p2 = p2
    c1 = c1
    c2 = c2
    a = a
    b = b
    c = c
    z = z
    f = f
    Absent = Absent
    Procs = {p1, p2}
    Clusters = {c1, c2}
    Names = {a, b, c, z}
    ClusterOf <- Home
    Graphs <- SomeGraph
    Fields = {f}
    Faults = {"refused", "lost"}
    Churn = {"reconcile", "delete", "create", "edit"}
INVARIANT TypeOK
INVARIANT CyclesRefused
PROPERTY Redeployed
PROPERTY KeepsOrder
PROPERTY InvocationsEnd
