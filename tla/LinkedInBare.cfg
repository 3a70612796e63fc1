SPECIFICATION Spec
CONSTANTS
    s1 = s1
    s2 = s2
    a1 = a1
    a2 = a2
    w1 = w1
    w2 = w2
    None = None
    Sittings = {s1, s2}
    Actions = {a1}
    Workers = {w1}
    WorkerOf <- OneWorker
    KindOf <- Invites
    Operators = FALSE
    MaxEvents = 0
INVARIANTS
    NoDuplicate
CHECK_DEADLOCK FALSE
