-------------------------- MODULE AtMostOnceSend ---------------------------
(***************************************************************************)
(* What src/server/email-deliveries.ts promises to every email path: a     *)
(* provider accepts a payload once at most, and a caller is told "sent"    *)
(* only of a payload that was accepted (or simulated, in demo mode).       *)
(***************************************************************************)
EXTENDS Naturals
CONSTANT Key
VARIABLES accepted,   \* Key -> how often a provider accepted it
          simulated,  \* keys delivered by the demo connection
          told        \* keys some caller was told were sent
vars == <<accepted, simulated, told>>

Init ==
    /\ accepted = [k \in Key |-> 0]
    /\ simulated = {} /\ told = {}

Accept(k) ==
    /\ accepted[k] = 0
    /\ accepted' = [accepted EXCEPT ![k] = 1]
    /\ UNCHANGED <<simulated, told>>
Simulate(k) ==
    /\ simulated' = simulated \cup {k} /\ told' = told \cup {k}
    /\ UNCHANGED accepted
Tell(k) ==
    /\ accepted[k] = 1 \/ k \in simulated
    /\ told' = told \cup {k}
    /\ UNCHANGED <<accepted, simulated>>

Next == \E k \in Key : Accept(k) \/ Simulate(k) \/ Tell(k)
Spec == Init /\ [][Next]_vars
=============================================================================
