------------------------- MODULE ApprovedExecution -------------------------
(***************************************************************************)
(* What docs/control-plane-architecture.md calls the approval boundary, as *)
(* every action path of the repository promises it: payloads are known by  *)
(* their hash, a founder approves hashes, and only an approved hash is ever*)
(* executed.  Neither a decision nor an execution is taken back.           *)
(***************************************************************************)
CONSTANT Hash
VARIABLES approved, executed
vars == <<approved, executed>>

Init == approved = {} /\ executed = {}

Approve(h) == approved' = approved \cup {h} /\ UNCHANGED executed
Execute(h) ==
    /\ h \in approved
    /\ executed' = executed \cup {h}
    /\ UNCHANGED approved

Next == \E h \in Hash : Approve(h) \/ Execute(h)
Spec == Init /\ [][Next]_vars

(* The promise itself.                                                     *)
OnlyApproved == executed \subseteq approved
=============================================================================
