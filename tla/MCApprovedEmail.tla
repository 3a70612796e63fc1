-------------------------- MODULE MCApprovedEmail --------------------------
(***************************************************************************)
(* The outreach playbook with two drafts of one email to one person, both  *)
(* of one source action.                                                   *)
(***************************************************************************)
EXTENDS ApprovedEmail, TLC

CONSTANTS p1, p2

OutreachOrder == <<"draft", "approve", "send">>
OutreachKind == [draft |-> "skill", approve |-> "approval", send |-> "action"]
OutreachNeeds == [draft |-> {}, approve |-> {"draft"}, send |-> {"approve"}]
OutreachApproval == [send |-> "approve"]
\* A custom playbook whose action repeats the draft instead of the approval.
DraftPayload == [approve |-> "draft", send |-> "draft"]
OneRetry == [draft |-> 1, approve |-> 1, send |-> 2]
NoDelays == [draft |-> FALSE, approve |-> FALSE, send |-> FALSE]
OneSource == [k \in Emails |-> "actionA"]
OnePerson == [k \in Emails |-> "ann"]

\* Callers and drafts may be exchanged.
Exchanges == Permutations(Advancers) \cup Permutations(Payloads)
=============================================================================
