SPECIFICATION FairSpec
CONSTANTS
    m1 = m1
    m2 = m2
    Members = {m1, m2}
    Last = 2
    Runners = {"r1"}
    Enabled = {"linkedin"}
    EventKinds = {"reply"}
    Conns = {"mailbox"}
    Cap = 1
    NoConn = NoConn
    NoRow = NoRow
    Addressed = {m1}
    MaxLeft = 1
    MaxDeferrals = 1
PROPERTIES
    CursorWaitsForOutcome
    MembersMoveOn
CHECK_DEADLOCK FALSE
