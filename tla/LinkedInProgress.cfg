SPECIFICATION FairSpec
CONSTANTS
    s1 = s1
    s2 = s2
    a1 = a1
    a2 = a2
    w1 = w1
    w2 = w2
    None = None
    Sittings = {s1}
    Actions = {a1, a2}
    Workers = {w1, w2}
    WorkerOf <- OneWorker
    KindOf <- Invites
    Operators = FALSE
    MaxEvents = 2
INVARIANTS
    LateActsBounded
PROPERTIES
    ClaimsSettle
    BatchesClose
CHECK_DEADLOCK FALSE
