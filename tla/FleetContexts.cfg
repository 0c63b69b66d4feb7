SPECIFICATION MCFairSpec
CONSTANTS
    p1 = p1
    p2 = p2
    c1 = c1
    c2 = c2
    lost = lost
    a1 = a1
    a2 = a2
    Nobody = Nobody
    Procs = {p1, p2}
    Contexts = {c1, c2}
    Unknown = {lost}
    Accounts = {a1, a2}
    NamespaceOf <- OneNamespace
    Projectsveltos = a1
    Commands <- AllLines
    Habits <- EveryKind
    Faults = {"refused", "lost"}
    MaxRetries = 0
INVARIANT TypeOK
INVARIANT Usable
INVARIANT ContextRestored
INVARIANT RegistersAskedCluster
PROPERTY WaitEnds
