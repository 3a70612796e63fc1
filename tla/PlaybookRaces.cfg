SPECIFICATION FairSpec
CONSTANTS
    p1 = p1
    p2 = p2
    Order <- OutreachOrder
    Kind <- OutreachKind
    Needs <- OutreachNeeds
    ApprovalOf <- OutreachApproval
    PayloadFrom <- OutreachPayload
    MaxAttempts <- TwoRetries
    MaxAttempt = 2
    Delayed <- Delays
    Payloads = {p1, p2}
    Drafts = {p1}
    NoPayload = nothing
    Advancers = {a1, a2}
    MaxFaults = 1
    MaxOverruns = 0
    MaxEdits = 1
INVARIANTS
    ClaimIsExclusive
    CompletedRunIsFinished
    RejectionStopsTheAction
PROPERTIES
    CompletedAttemptStays
    Progress
CHECK_DEADLOCK FALSE
