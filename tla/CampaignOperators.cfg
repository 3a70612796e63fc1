SPECIFICATION Spec
CONSTANTS
    m1 = m1
    m2 = m2
    Members = {m1}
    Last = 1
    Runners = {r1, r2}
    Enabled = {"pause", "stop", "member", "resolve", "retry", "skip", "resume"}
    EventKinds = {"unsubscribe"}
    Conns = {"mailbox"}
    Cap = 1
    NoConn = NoConn
    NoRow = NoRow
    Addressed = {m1}
    MaxLeft = 1
    MaxDeferrals = 0
SYMMETRY RunnerSymmetry
INVARIANTS
    StepEmailedOnce
    ClaimIsExclusive
    KnownFailureIsUnsent
    SentIsAccepted
    UnsubscribeIsDurable
PROPERTIES
    UsesTheLedger
CHECK_DEADLOCK FALSE
