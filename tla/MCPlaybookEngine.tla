-------------------------- MODULE MCPlaybookEngine --------------------------
(***************************************************************************)
(* Small playbooks for TLC: the shape of gtm.audit-led-outreach in         *)
(* playbooks/registry.ts, a draft, its approval and the action behind it.  *)
(***************************************************************************)
EXTENDS PlaybookEngine

CONSTANTS p1, p2

OutreachOrder == <<"draft", "approve", "send">>
OutreachKind == [draft |-> "skill", approve |-> "approval", send |-> "action"]
OutreachNeeds == [draft |-> {}, approve |-> {"draft"}, send |-> {"approve"}]
OutreachApproval == [send |-> "approve"]
OutreachPayload == [approve |-> "draft", send |-> "approve"]
OneRetry == [draft |-> 1, approve |-> 1, send |-> 2]
TwoRetries == [draft |-> 2, approve |-> 1, send |-> 2]
Delays == [draft |-> FALSE, approve |-> FALSE, send |-> TRUE]
=============================================================================
