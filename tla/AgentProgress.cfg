SPECIFICATION FairSpec
CONSTANTS
    r1 = r1
    r2 = r2
    Runs = {r1}
    Backends = {"byok", "claude", "codex"}
    MaxSteps = 2
    Cap = 3
    Months = 1
    MaxLines = 3
    Workers = 1
    DbFails = TRUE
INVARIANTS
    CompletedIsAccounted
PROPERTIES
    LedgerRefined
    RunEnds
CHECK_DEADLOCK FALSE
