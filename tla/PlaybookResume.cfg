SPECIFICATION FairSpec
CONSTANTS
    p1 = p1
    p2 = p2
    Order <- OutreachOrder
    Kind <- OutreachKind
    Needs <- OutreachNeeds
    ApprovalOf <- OutreachApproval
    PayloadFrom <- OutreachPayload
    MaxAttempts <- OneRetry
    MaxAttempt = 2
    Delayed <- Delays
    Payloads = {p1, p2}
    Drafts = {p1}
    NoPayload = nothing
    Advancers = {a1, a2}
    MaxFaults = 0
    MaxOverruns = 0
    MaxEdits = 0
PROPERTIES
    WorkIsResumed
CHECK_DEADLOCK FALSE
