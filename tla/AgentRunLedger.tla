-------------------------- MODULE AgentRunLedger --------------------------
(***************************************************************************)
(* What the ledger of hosted agent runs promises, whoever writes to it: a  *)
(* run starts once, gains steps only while it is running, and ends once.   *)
(* HostedAgent refines it.                                                 *)
(***************************************************************************)
EXTENDS Naturals

CONSTANT Runs

VARIABLES
    status,    \* run -> "none", "running" or how it ended
    steps      \* run -> rows written under it

Ended == {"completed", "failed", "stopped"}

Init ==
    /\ status = [r \in Runs |-> "none"]
    /\ steps = [r \in Runs |-> 0]

Start(r) ==
    /\ status[r] = "none"
    /\ status' = [status EXCEPT ![r] = "running"]
    /\ UNCHANGED steps

Step(r) ==
    /\ status[r] = "running"
    /\ steps' = [steps EXCEPT ![r] = @ + 1]
    /\ UNCHANGED status

(* One run ends, or a sweep ends several at once.                          *)
End(S, how) ==
    /\ \A r \in S : status[r] = "running"
    /\ status' = [r \in Runs |-> IF r \in S THEN how ELSE status[r]]
    /\ UNCHANGED steps

Next ==
    \/ \E r \in Runs : Start(r) \/ Step(r)
    \/ \E S \in SUBSET Runs, how \in Ended : End(S, how)

Spec == Init /\ [][Next]_<<status, steps>>
=============================================================================
