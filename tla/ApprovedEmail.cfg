SPECIFICATION SystemSpec
CONSTANTS
    p1 = p1
    p2 = p2
    Order <- OutreachOrder
    Kind <- OutreachKind
    Needs <- OutreachNeeds
    ApprovalOf <- OutreachApproval
    PayloadFrom <- DraftPayload
    MaxAttempts <- OneRetry
    MaxAttempt = 2
    Delayed <- NoDelays
    Payloads = {p1, p2}
    Drafts = {p1, p2}
    NoPayload = nothing
    Advancers = {a1, a2}
    MaxFaults = 1
    MaxOverruns = 1
    MaxEdits = 0
    SourceOf <- OneSource
    RecipientOf <- OnePerson
    Outreach = {}
    Conns = {c1}
    DemoConns = {}
    AllowSimulation = FALSE
    Cap = 1
    NoConn = NoConn
    NoKey = NoKey
SYMMETRY Exchanges
INVARIANTS
    ExactApproval
    CallsBounded
    CompletedMeansSent
PROPERTIES
    EmailImplementsApprovedExecution
CHECK_DEADLOCK FALSE
