SPECIFICATION Spec
CONSTANTS
    s1 = s1
    s2 = s2
    a1 = a1
    a2 = a2
    w1 = w1
    w2 = w2
    None = None
    Sittings = {s1, s2}
    Actions = {a1}
    Workers = {w1, w2}
    WorkerOf <- TwoWorkers
    KindOf <- Messages
    Operators = TRUE
    MaxEvents = 2
INVARIANTS
    ActsBounded
    OneDriverPerSeat
    HeldWaitsForHuman
    ParkedHasAPause
SYMMETRY SeatSymmetry
CHECK_DEADLOCK FALSE
