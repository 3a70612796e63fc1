SPECIFICATION Spec
CONSTANTS
    r1 = r1
    r2 = r2
    Runs = {r1, r2}
    Backends = {"byok"}
    MaxSteps = 2
    Cap = 2
    Months = 0
    MaxLines = 0
    Workers = 2
    DbFails = FALSE
INVARIANTS
    OvershootBounded
    LateCallsBounded
    StoppedWasAsked
SYMMETRY RunSymmetry
CHECK_DEADLOCK FALSE
