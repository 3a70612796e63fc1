SPECIFICATION FairSpec
CONSTANTS
    k1 = k1
    k2 = k2
    k3 = k3
    c1 = c1
    c2 = c2
    Keys = {k1, k2, k3}
    SourceOf <- TwoSources
    RecipientOf <- OnePerson
    Outreach = {k1, k2, k3}
    Workers = {w1, w2}
    Conns = {c1, c2}
    DemoConns = {c2}
    AllowSimulation = TRUE
    Cap = 1
    NoConn = NoConn
    NoKey = NoKey
    MaxLeft = 1
INVARIANTS
    AtMostOnce
    AcceptedIsNeverForgotten
    OnePayloadPerSource
PROPERTIES
    ImplementsAtMostOnceSend
    SuppressionSettles
    ClaimsSettle
