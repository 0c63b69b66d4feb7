SPECIFICATION MCSpec
CONSTANTS
    p1 = p1
    p2 = p2
    c1 = c1
    c2 = c2
    l1 = l1
    l2 = l2
    shard = shard
    d1 = d1
    d2 = d2
    old = old
    new = new
    NoShard = NoShard
    NoKey = NoKey
    Absent = Absent
    Procs = {p1}
    Clusters = {c1, c2}
    Labels = {l1, l2}
    Shards = {shard}
    Data = {d1, d2}
    Releases = {old, new}
    Commands <- AllLines
    Habits <- Neighbours
    NamespaceOf <- OwnName
    ScopedName <- OneName
    Faults = {}
    CrashOps = {}
    Overlap = {}
    MaxRetry = 1
INVARIANT AccountsBound
