------------------------ MODULE CampaignEmailProofs ------------------------
(***************************************************************************)
(* Campaigns and the ledger: every step of a campaign is a step of the     *)
(* ledger's protocol or leaves the ledger alone.  The only thing this needs*)
(* to know of a campaign is that a runner at work holds a row.  The second *)
(* half is about the campaign's own rows, members and unsubscribes.        *)
(***************************************************************************)
EXTENDS CampaignEmail, TLAPS

RunnersHoldRows ==
    /\ phase \in [Runners -> RunnerPhase]
    /\ row \in [Runners -> Rows \cup {NoRow}]
    /\ \A w \in Runners : phase[w] # "idle" => row[w] \in Rows

LedgerStep == [Ledger!Next]_(Ledger!deliveryVars)

LEMMA TurnHolds ==
  ASSUME RunnersHoldRows, NEW w \in Runners, NEW p \in RunnerPhase, NEW r \in Rows \cup {NoRow},
         p # "idle" => r \in Rows, Turn(w, p, r)
  PROVE  RunnersHoldRows'
BY DEF RunnersHoldRows, Turn

LEMMA DropHolds ==
  ASSUME RunnersHoldRows, NEW w \in Runners, Drop(w)
  PROVE  RunnersHoldRows'
BY TurnHolds DEF Drop, RunnerPhase

LEMMA OthersHold ==
  ASSUME RunnersHoldRows, UNCHANGED runnerVars
  PROVE  RunnersHoldRows'
BY DEF RunnersHoldRows, runnerVars

LEMMA HoldStep == ASSUME RunnersHoldRows, [Next]_vars PROVE RunnersHoldRows'
<1>1. CASE UNCHANGED vars
  BY <1>1, OthersHold DEF vars, campaignVars
<1>2. ASSUME NEW w \in Runners, ClaimNext(w) PROVE RunnersHoldRows'
  <2> PICK r \in Rows : Turn(w, "mailbox", r) BY <1>2 DEF ClaimNext
  <2> QED BY TurnHolds DEF RunnerPhase
<1>3. ASSUME NEW w \in Runners, Run(w) PROVE RunnersHoldRows'
  <2>1. CASE MailboxClosed(w) BY <2>1, DropHolds DEF MailboxClosed
  <2>2. CASE Recheck(w)
    <3>1. row[w] \in Rows BY <2>2 DEF Recheck, RunnersHoldRows
    <3> QED BY <2>2, <3>1, TurnHolds DEF Recheck, RunnerPhase
  <2>3. CASE RetireStaleClaim(w) BY <2>3, DropHolds DEF RetireStaleClaim
  <2>4. CASE ExecuteEmail(w)
    <3>1. row[w] \in Rows BY <2>4 DEF ExecuteEmail, RunnersHoldRows
    <3> QED BY <2>4, <3>1, TurnHolds DEF ExecuteEmail, RunnerPhase
  <2>5. CASE Deliver(w) BY <2>5, OthersHold DEF Deliver, campaignVars
  <2>6. CASE SettleSuccess(w) BY <2>6, DropHolds DEF SettleSuccess
  <2>7. CASE SettleFailed(w) BY <2>7, DropHolds DEF SettleFailed
  <2>8. CASE SettleUnknown(w) BY <2>8, DropHolds DEF SettleUnknown
  <2>9. CASE CallThrows(w) \/ EmailIncomplete(w)
    BY <2>9, DropHolds DEF CallThrows, EmailIncomplete
  <2> QED BY <1>3, <2>1, <2>2, <2>3, <2>4, <2>5, <2>6, <2>7, <2>8, <2>9 DEF Run
<1>4. ASSUME NEW w \in Runners, RunnerEnds(w) PROVE RunnersHoldRows'
  BY <1>4, DropHolds DEF RunnerEnds, RunnerDies, SettleThrows, LeaveRow
<1>5. CASE Plan
  BY <1>5, OthersHold DEF Plan, PlanMember, PlanLook, PlanWrite
<1>6. CASE Operate
  BY <1>6, OthersHold DEF Operate, Pause, Start, Stop, SkipStep, ResumeAtStep, PauseMember,
     EndMember, MoveRead, ResolveRead, ResolveRetry, ResolveSent, ResolveSkip, RetryFailed
<1>7. CASE Listen
  BY <1>7, OthersHold DEF Listen, SuppressRecipient, StopMember, LinkedInReply, FilingEnds,
     RecordEvent
<1>8. ASSUME NEW r \in Rows, Due(r) \/ DayPasses(r) PROVE RunnersHoldRows'
  BY <1>8, OthersHold DEF Due, DayPasses, campaignVars
<1> QED BY <1>1, <1>2, <1>3, <1>4, <1>5, <1>6, <1>7, <1>8 DEF Next

(* A step of the campaign that is none of the ledger's.                    *)
LEMMA Elsewhere == ASSUME UNCHANGED ledgerVars PROVE LedgerStep
BY DEF LedgerStep, ledgerVars, Ledger!deliveryVars, Ledger!rowVars, Ledger!callVars

LEMMA LedgerSteps == ASSUME RunnersHoldRows, [Next]_vars PROVE LedgerStep
<1>1. CASE UNCHANGED vars
  BY <1>1, Elsewhere DEF vars
<1>2. ASSUME NEW w \in Runners, ClaimNext(w) PROVE LedgerStep
  BY <1>2, Elsewhere DEF ClaimNext
<1>3. ASSUME NEW w \in Runners, Run(w) PROVE LedgerStep
  <2>1. CASE MailboxClosed(w) \/ Recheck(w) \/ RetireStaleClaim(w) \/ CallThrows(w)
              \/ EmailIncomplete(w)
    BY <2>1, Elsewhere DEF MailboxClosed, Recheck, RetireStaleClaim, CallThrows, EmailIncomplete
  <2>2. CASE ExecuteEmail(w)
    <3>1. row[w] \in Rows BY <2>2 DEF ExecuteEmail, RunnersHoldRows
    <3> QED BY <2>2, <3>1 DEF ExecuteEmail, LedgerStep, Ledger!Next
  <2>3. CASE Deliver(w)
    BY <2>3 DEF Deliver, LedgerStep, Ledger!Next
  <2>4. CASE SettleSuccess(w) \/ SettleFailed(w) \/ SettleUnknown(w)
    BY <2>4 DEF SettleSuccess, SettleFailed, SettleUnknown, LedgerStep, Ledger!Next
  <2> QED BY <1>3, <2>1, <2>2, <2>3, <2>4 DEF Run
<1>4. ASSUME NEW w \in Runners, RunnerEnds(w) PROVE LedgerStep
  BY <1>4, Elsewhere DEF RunnerEnds, RunnerDies, SettleThrows, LeaveRow, LedgerStep, Ledger!Next, Ledger!Environment
<1>5. CASE Plan
  BY <1>5, Elsewhere DEF Plan, PlanMember, PlanLook, PlanWrite
<1>6. CASE Operate
  BY <1>6, Elsewhere DEF Operate, Pause, Start, Stop, SkipStep, ResumeAtStep, PauseMember,
     EndMember, MoveRead, ResolveRead, ResolveRetry, ResolveSent, ResolveSkip, RetryFailed
<1>7. CASE Listen
  <2> PICK m \in Members :
        \/ SuppressRecipient(m) \/ StopMember(m) \/ LinkedInReply(m) \/ FilingEnds(m)
        \/ \E kind \in EventKinds : RecordEvent(m, kind)
    BY <1>7 DEF Listen
  <2>1. CASE SuppressRecipient(m)
    <3>1. <<m, 1>> \in Rows BY CampaignAssumption DEF CampaignAssumption, Rows
    <3> QED BY <2>1, <3>1 DEF SuppressRecipient, LedgerStep, Ledger!Next, Ledger!Environment
  <2> QED
    BY <2>1, Elsewhere DEF StopMember, LinkedInReply, FilingEnds, RecordEvent
<1>8. ASSUME NEW r \in Rows, Due(r) \/ DayPasses(r) PROVE LedgerStep
  BY <1>8, Elsewhere DEF Due, DayPasses, LedgerStep, Ledger!Next, Ledger!Environment
<1> QED BY <1>1, <1>2, <1>3, <1>4, <1>5, <1>6, <1>7, <1>8 DEF Next

(* A campaign uses the ledger by its protocol and in no other way.         *)
THEOREM CampaignUsesTheLedger == Spec => UsesTheLedger
<1>1. Init => RunnersHoldRows /\ Ledger!Init
  BY DEF Init, RunnersHoldRows, RunnerPhase
<1>2. RunnersHoldRows /\ [Next]_vars => RunnersHoldRows' BY HoldStep
<1>3. RunnersHoldRows /\ [Next]_vars => [Ledger!Next]_(Ledger!deliveryVars)
  BY LedgerSteps DEF LedgerStep
<1> QED BY <1>1, <1>2, <1>3, PTL DEF Spec, UsesTheLedger, Ledger!Spec
-----------------------------------------------------------------------------
(* What is proved of the ledger, with the campaign's rows for its keys.    *)
Proved == INSTANCE EmailDeliveryProofs WITH
    Keys <- Rows, SourceOf <- [r \in Rows |-> r], RecipientOf <- [r \in Rows |-> r[1]],
    Outreach <- Rows, Workers <- Runners, DemoConns <- {}, AllowSimulation <- FALSE,
    NoKey <- NoRow

(* The two instances of the ledger are one specification.                  *)
LEMMA SameLeave ==
  ASSUME NEW w \in Runners, Ledger!LeaveClaim(w)
  PROVE  Proved!LeaveClaim(w)
<1>1. \A S : Ledger!Cardinality(S) = Proved!Cardinality(S)
  BY Zenon DEF Ledger!Cardinality, Proved!Cardinality
<1> QED BY <1>1 DEF Ledger!LeaveClaim, Proved!LeaveClaim

LEMMA SameDelivery ==
  ASSUME NEW w \in Runners, Ledger!Deliver(w)
  PROVE  Proved!Deliver(w)
<1> USE DEF Ledger!Goto, Proved!Goto, Ledger!End, Proved!End, Ledger!Finish, Proved!Finish,
   Ledger!Fail, Proved!Fail, Ledger!Continue, Proved!Continue, Ledger!SetStatus,
   Proved!SetStatus, Ledger!Claimable, Proved!Claimable, Ledger!SameContext, Proved!SameContext,
   Ledger!Replayable, Proved!Replayable, Ledger!Retryable, Proved!Retryable, Ledger!rowVars,
   Proved!rowVars, Ledger!callVars, Proved!callVars
<1>1. Ledger!NoMailbox(w) => Proved!NoMailbox(w)
  BY DEF Ledger!NoMailbox, Proved!NoMailbox
<1>2. Ledger!PickMailbox(w) => Proved!PickMailbox(w)
  BY DEF Ledger!PickMailbox, Proved!PickMailbox
<1>3. Ledger!ClaimFresh(w) => Proved!ClaimFresh(w)
  BY DEF Ledger!ClaimFresh, Proved!ClaimFresh, Ledger!SourceIsFree, Proved!SourceIsFree
<1>4. Ledger!ClaimReplay(w) => Proved!ClaimReplay(w)
  BY DEF Ledger!ClaimReplay, Proved!ClaimReplay
<1>5. Ledger!ClaimRetry(w) => Proved!ClaimRetry(w)
  BY DEF Ledger!ClaimRetry, Proved!ClaimRetry
<1>6. Ledger!ClaimBlocked(w) => Proved!ClaimBlocked(w)
  BY DEF Ledger!ClaimBlocked, Proved!ClaimBlocked, Ledger!SourceIsFree, Proved!SourceIsFree
<1>7. Ledger!CheckCapacity(w) => Proved!CheckCapacity(w)
  <2>1. \A c : Ledger!SentToday(c) = Proved!SentToday(c)
    BY DEF Ledger!SentToday, Proved!SentToday
  <2>2. Ledger!CapReached(w) <=> Proved!CapReached(w)
    <3>1. \A S : Ledger!Cardinality(S) = Proved!Cardinality(S)
      BY Zenon DEF Ledger!Cardinality, Proved!Cardinality
    <3> QED BY <2>1, <3>1 DEF Ledger!CapReached, Proved!CapReached
  <2> QED
    BY <2>2 DEF Ledger!CheckCapacity, Proved!CheckCapacity
<1>8. Ledger!Simulate(w) => Proved!Simulate(w)
  BY DEF Ledger!Simulate, Proved!Simulate
<1>9. Ledger!ProviderAccepts(w) => Proved!ProviderAccepts(w)
  BY DEF Ledger!ProviderAccepts, Proved!ProviderAccepts
<1>10. Ledger!ProviderFails(w) => Proved!ProviderFails(w)
  BY DEF Ledger!ProviderFails, Proved!ProviderFails
<1>11. Ledger!MarkSent(w) => Proved!MarkSent(w)
  BY DEF Ledger!MarkSent, Proved!MarkSent
<1>12. Ledger!MarkSentFails(w) => Proved!MarkSentFails(w)
  BY SameLeave DEF Ledger!MarkSentFails, Proved!MarkSentFails
<1>13. Ledger!MarkFailure(w) => Proved!MarkFailure(w)
  BY DEF Ledger!MarkFailure, Proved!MarkFailure, Ledger!FailureStatus, Proved!FailureStatus
<1>14. Ledger!MarkFailureFails(w) => Proved!MarkFailureFails(w)
  BY SameLeave DEF Ledger!MarkFailureFails, Proved!MarkFailureFails
<1> QED BY <1>1, <1>2, <1>3, <1>4, <1>5, <1>6, <1>7, <1>8, <1>9, <1>10, <1>11, <1>12, <1>13, <1>14
   DEF Ledger!Deliver, Proved!Deliver

LEMMA SameStep == ASSUME LedgerStep PROVE [Proved!Next]_(Proved!deliveryVars)
<1> USE DEF Ledger!rowVars, Proved!rowVars, Ledger!callVars, Proved!callVars
<1>1. CASE UNCHANGED Ledger!deliveryVars
  BY <1>1 DEF Ledger!deliveryVars, Proved!deliveryVars
<1>2. ASSUME NEW w \in Runners, Ledger!Deliver(w) PROVE Proved!Next
  BY <1>2, SameDelivery DEF Proved!Next
<1>3. ASSUME NEW w \in Runners, Ledger!Return(w) PROVE Proved!Next
  <2>1. Proved!Return(w)
    BY <1>3 DEF Ledger!Return, Proved!Return, Ledger!Forget, Proved!Forget
  <2> QED BY <2>1 DEF Proved!Next
<1>4. ASSUME NEW w \in Runners, NEW k \in Rows, Ledger!Begin(w, k) PROVE Proved!Next
  <2>1. Proved!Begin(w, k)
    BY <1>4 DEF Ledger!Begin, Proved!Begin, Ledger!End, Proved!End, Ledger!Goto, Proved!Goto
  <2> QED BY <2>1 DEF Proved!Next
<1>5. ASSUME NEW k \in Rows, Ledger!Suppress(k) PROVE Proved!Next
  <2>1. Proved!Suppress(k) BY <1>5 DEF Ledger!Suppress, Proved!Suppress
  <2> QED BY <2>1 DEF Proved!Next, Proved!Environment
<1>6. ASSUME NEW k \in Rows, Ledger!DayPasses(k) PROVE Proved!Next
  <2>1. Proved!DayPasses(k) BY <1>6 DEF Ledger!DayPasses, Proved!DayPasses
  <2> QED BY <2>1 DEF Proved!Next, Proved!Environment
<1>7. ASSUME NEW w \in Runners, Ledger!Crash(w) PROVE Proved!Next
  <2>1. Proved!Crash(w)
    BY <1>7, SameLeave DEF Ledger!Crash, Proved!Crash, Ledger!Forget, Proved!Forget,
       Ledger!Owning, Proved!Owning
  <2> QED BY <2>1 DEF Proved!Next, Proved!Environment
<1> QED
  BY <1>1, <1>2, <1>3, <1>4, <1>5, <1>6, <1>7 DEF LedgerStep, Ledger!Next, Ledger!Environment

LEMMA SameAssumption == Proved!DeliveryAssumption
BY CampaignAssumption DEF CampaignAssumption, Proved!DeliveryAssumption

LEMMA SameLedger == Spec => Proved!Spec
<1>1. Ledger!Init => Proved!Init BY DEF Ledger!Init, Proved!Init
<1>2. [Ledger!Next]_(Ledger!deliveryVars) => [Proved!Next]_(Proved!deliveryVars)
  BY SameStep DEF LedgerStep
<1> QED BY <1>1, <1>2, CampaignUsesTheLedger, PTL DEF UsesTheLedger, Ledger!Spec, Proved!Spec

(* Whatever operators retry, resolve and move, and whenever runners die: a *)
(* step of a member is emailed at most once, because DeliveryAtMostOnce    *)
(* holds of the ledger.                                                    *)
THEOREM CampaignEmailsOnce == Spec => []StepEmailedOnce
<1>1. Proved!Spec => []Proved!AtMostOnce BY SameAssumption, Proved!DeliveryAtMostOnce
<1>2. Proved!AtMostOnce => StepEmailedOnce BY DEF Proved!AtMostOnce, StepEmailedOnce
<1> QED BY <1>1, <1>2, SameLedger, PTL

(* A row whose outcome is still to be settled has a call that will settle  *)
(* it, unless its process died or the UPDATE that settles threw: the       *)
(* campaign abandons no claim of the ledger.                               *)
THEOREM CampaignNoOrphans == Spec => []Proved!NoOrphans
<1>1. Proved!Spec => []Proved!NoOrphans BY SameAssumption, Proved!DeliveryNoOrphans
<1> QED BY <1>1, SameLedger, PTL

(* So a campaign keeps the abstract promise of the ledger: each step of a  *)
(* member is accepted once at most, and what a runner is told is so.       *)
THEOREM CampaignKeepsThePromise == Spec => Proved!ImplementsAtMostOnceSend
<1>1. Proved!Spec => Proved!ImplementsAtMostOnceSend BY SameAssumption, Proved!DeliveryRefines
<1> QED BY <1>1, SameLedger, PTL

-----------------------------------------------------------------------------
(* The rows of a campaign, for every number of members, steps, runners and *)
(* mailboxes and whatever operators do: types, exclusive claims, what a    *)
(* failed and a sent row say of the provider, unsubscribes, and the cursor.*)

(* What the planner and an operator's move hold between two statements.    *)
Reasons == {"no step", "replied", "no address"}
PlanTyped ==
    /\ plan \in [phase : {"idle", "look", "write"}, member : Members \cup {NoRow},
                 step : 1..(Last + 1), seen : RowStatus \cup Reasons]
    /\ plan.phase # "idle" => plan.member \in Members
    /\ plan.phase = "write" /\ plan.seen \in RowStatus \cup {"no address"} =>
          plan.step \in 1..Last
MoveTyped ==
    /\ move \in [kind : {"none"} \cup Moves, member : Members \cup {NoRow},
                 from : 1..(Last + 1), to : 1..(Last + 1)]
    /\ move.kind # "none" => move.member \in Members
    /\ move.kind = "skip" => move.from \in 1..Last
Typed == TypeOK /\ PlanTyped /\ MoveTyped

LEMMA RowTyped ==
  ASSUME rowStatus \in [Rows -> RowStatus], NEW r \in Rows, NEW s \in RowStatus, SetRow(r, s)
  PROVE  rowStatus' \in [Rows -> RowStatus]
BY DEF SetRow

LEMMA SkipTyped ==
  ASSUME rowStatus \in [Rows -> RowStatus], NEW R, NEW from, SkipRows(R, from)
  PROVE  rowStatus' \in [Rows -> RowStatus]
BY DEF SkipRows, RowStatus

LEMMA PlaceTyped ==
  ASSUME CampaignAssumption, TypeOK, NEW m \in Members, NEW i \in 1..(Last + 1), NEW s \in MemberStatus,
         Place(m, i, s)
  PROVE  cursor' \in [Members -> 1..(Last + 1)] /\ memberStatus' \in [Members -> MemberStatus]
BY DEF TypeOK, Place

LEMMA NextStepTyped ==
  ASSUME CampaignAssumption, NEW i \in 1..Last
  PROVE  i + 1 \in 1..(Last + 1) /\ StatusAt(i + 1) \in MemberStatus /\ StatusAt(i) \in MemberStatus
BY DEF CampaignAssumption, StatusAt, MemberStatus

LEMMA AdvanceTyped ==
  ASSUME CampaignAssumption, TypeOK, NEW r \in Rows, Advance(r)
  PROVE  cursor' \in [Members -> 1..(Last + 1)] /\ memberStatus' \in [Members -> MemberStatus]
<1>1. r[1] \in Members /\ r[2] \in 1..Last BY DEF Rows
<1>2. CASE Place(r[1], r[2] + 1, StatusAt(r[2] + 1)) BY <1>1, <1>2, NextStepTyped, PlaceTyped
<1>3. CASE UNCHANGED memberVars BY <1>3 DEF TypeOK, memberVars
<1> QED BY <1>2, <1>3 DEF Advance

LEMMA TurnTyped ==
  ASSUME TypeOK, NEW w \in Runners, NEW p \in RunnerPhase, NEW r \in Rows \cup {NoRow},
         p # "idle" => r \in Rows, Turn(w, p, r)
  PROVE  /\ phase' \in [Runners -> RunnerPhase]
         /\ row' \in [Runners -> Rows \cup {NoRow}]
         /\ \A v \in Runners : phase'[v] # "idle" => row'[v] \in Rows
BY DEF TypeOK, Turn

LEMMA DropTyped ==
  ASSUME TypeOK, NEW w \in Runners, Drop(w)
  PROVE  /\ phase' \in [Runners -> RunnerPhase]
         /\ row' \in [Runners -> Rows \cup {NoRow}]
         /\ \A v \in Runners : phase'[v] # "idle" => row'[v] \in Rows
BY TurnTyped DEF Drop, RunnerPhase

LEMMA HeldTyped == ASSUME PlanTyped, MoveTyped, UNCHANGED <<plan, move>> PROVE PlanTyped' /\ MoveTyped'
BY DEF PlanTyped, MoveTyped

LEMMA TypedInitial == ASSUME CampaignAssumption, Init PROVE Typed
<1>1. 1 \in 1..(Last + 1) BY DEF CampaignAssumption
<1> QED BY <1>1 DEF CampaignAssumption, Init, Typed, TypeOK, PlanTyped, MoveTyped, NoPlan, NoMove, MemberStatus,
     RowStatus, RunnerPhase

LEMMA RunTyped ==
  ASSUME CampaignAssumption, Typed, NEW w \in Runners, ClaimNext(w) \/ Run(w) \/ RunnerEnds(w)
  PROVE  Typed'
<1> USE DEF Typed
<1> USE DEF memberVars, processVars, history, bounds, campaignVars, runnerVars
<1>0. PlanTyped' /\ MoveTyped' 
  <2>1. UNCHANGED <<plan, move>>
    BY DEF ClaimNext, Run, RunnerEnds, RunnerDies, SettleThrows, LeaveRow, MailboxClosed, Recheck, RetireStaleClaim, CallThrows, EmailIncomplete, ExecuteEmail,
       Deliver, SettleSuccess, SettleFailed, SettleUnknown
  <2> QED BY <2>1 DEF PlanTyped, MoveTyped
<1>1. CASE ClaimNext(w)
  <2> PICK r \in Rows : SetRow(r, "claimed") /\ Turn(w, "mailbox", r) BY <1>1 DEF ClaimNext
  <2>1. rowStatus' \in [Rows -> RowStatus] BY RowTyped DEF TypeOK, RowStatus
  <2> QED BY <1>0, <1>1, <2>1, TurnTyped DEF ClaimNext, TypeOK, RunnerPhase
<1>2. CASE MailboxClosed(w)
  <2>1. row[w] \in Rows BY <1>2 DEF MailboxClosed, TypeOK
  <2>2. rowStatus' \in [Rows -> RowStatus] BY <1>2, <2>1, RowTyped DEF MailboxClosed, TypeOK, RowStatus
  <2> QED BY <1>0, <1>2, <2>2, DropTyped DEF MailboxClosed, TypeOK
<1>3. CASE Recheck(w)
  <2>1. row[w] \in Rows BY <1>3 DEF Recheck, TypeOK
  <2> QED BY <1>0, <1>3, <2>1, TurnTyped DEF Recheck, TypeOK, RunnerPhase
<1>4. CASE RetireStaleClaim(w)
  <2>1. rowStatus' \in [Rows -> RowStatus] BY <1>4, SkipTyped DEF RetireStaleClaim, TypeOK
  <2> QED BY <1>0, <1>4, <2>1, DropTyped DEF RetireStaleClaim, TypeOK
<1>5. CASE ExecuteEmail(w)
  <2>1. row[w] \in Rows BY <1>5 DEF ExecuteEmail, TypeOK
  <2> QED BY <1>0, <1>5, <2>1, TurnTyped DEF ExecuteEmail, TypeOK, RunnerPhase
<1>6. CASE Deliver(w) BY <1>0, <1>6 DEF Deliver, TypeOK
<1>7. ASSUME NEW s \in RowStatus, SetRow(row[w], s), Drop(w), phase[w] # "idle",
             Advance(row[w]) \/ UNCHANGED memberVars,
             UNCHANGED <<campaign, processVars, history, bounds>>
      PROVE  Typed'
  <2>1. row[w] \in Rows BY <1>7 DEF TypeOK
  <2>2. rowStatus' \in [Rows -> RowStatus] BY <1>7, <2>1, RowTyped DEF TypeOK
  <2>3. cursor' \in [Members -> 1..(Last + 1)] /\ memberStatus' \in [Members -> MemberStatus]
    BY <1>7, <2>1, AdvanceTyped DEF TypeOK
  <2> QED BY <1>0, <1>7, <2>2, <2>3, DropTyped DEF TypeOK
<1>8. CASE SettleSuccess(w) BY <1>7, <1>8 DEF SettleSuccess, RowStatus
<1>9. CASE SettleFailed(w) BY <1>7, <1>9 DEF SettleFailed, RowStatus
<1>10. CASE SettleUnknown(w) BY <1>7, <1>10 DEF SettleUnknown, RowStatus
<1>11. CASE RunnerEnds(w)
  <2>1. LeaveRow(w) /\ row[w] \in Rows
    BY <1>11 DEF RunnerEnds, RunnerDies, SettleThrows, TypeOK
  <2> QED BY <1>0, <2>1, DropTyped DEF LeaveRow, TypeOK
<1>12. CASE CallThrows(w) BY <1>7, <1>12 DEF CallThrows, RowStatus
<1>13. CASE EmailIncomplete(w) BY <1>7, <1>13 DEF EmailIncomplete, RowStatus
<1> QED
  BY <1>1, <1>2, <1>3, <1>4, <1>5, <1>6, <1>8, <1>9, <1>10, <1>11, <1>12, <1>13 DEF Run

LEMMA PlanStepTyped ==
  ASSUME CampaignAssumption, Typed, Plan
  PROVE  Typed'
<1> USE DEF Typed, memberVars, processVars, history, bounds, runnerVars
<1>1. CASE \E m \in Members : PlanMember(m)
  <2> PICK m \in Members : PlanMember(m) BY <1>1
  <2>1. plan' = [phase |-> "look", member |-> m, step |-> cursor[m], seen |-> "none"]
    BY DEF PlanMember
  <2>2. cursor[m] \in 1..(Last + 1) /\ "none" \in RowStatus BY DEF TypeOK, RowStatus
  <2>3. PlanTyped' BY <2>1, <2>2 DEF PlanTyped
  <2> QED BY <2>3 DEF PlanMember, TypeOK, MoveTyped
<1>2. CASE PlanLook
  <2>1. plan.member \in Members /\ plan.step \in 1..(Last + 1)
    BY <1>2 DEF PlanLook, PlanTyped
  <2>2. plan.step > Last \/ plan.step \in 1..Last BY <2>1 DEF CampaignAssumption
  <2>3. plan.step \in 1..Last => rowStatus[<<plan.member, plan.step>>] \in RowStatus
    BY <2>1 DEF TypeOK, Rows
  <2>4. Reasons \cap RowStatus = {} BY DEF RowStatus, Reasons
  <2>5. plan' = [plan EXCEPT !.phase = "write", !.seen = plan'.seen] /\ move' = move
    BY <1>2 DEF PlanLook, PlanTyped
  <2>6. \/ plan'.seen \in {"no step", "replied"}
        \/ plan'.seen \in RowStatus \cup {"no address"} /\ plan.step \in 1..Last
    BY <1>2, <2>1, <2>2, <2>3 DEF PlanLook, PlanTyped
  <2>7. PlanTyped' BY <2>1, <2>4, <2>5, <2>6 DEF PlanTyped, Reasons
  <2> QED BY <1>2, <2>5, <2>7 DEF PlanLook, TypeOK, MoveTyped
<1>3. CASE PlanWrite
  <2>1. plan.member \in Members /\ plan.step \in 1..(Last + 1) BY <1>3 DEF PlanWrite, PlanTyped
  <2>2. plan.seen \in RowStatus \cup {"no address"} => plan.step \in 1..Last
    BY <1>3 DEF PlanWrite, PlanTyped
  <2>3. {"completed", "replied", "waiting"} \subseteq MemberStatus /\ Last + 1 \in 1..(Last + 1)
    BY DEF MemberStatus, CampaignAssumption
  <2>4. \/ \E i \in 1..(Last + 1), s \in MemberStatus : Place(plan.member, i, s)
        \/ UNCHANGED memberVars
    <3>1. CASE plan.seen \in {"sent", "failed", "no address"}
      BY <1>3, <2>2, <3>1, NextStepTyped DEF PlanWrite, RowStatus
    <3>2. CASE plan.seen \notin {"sent", "failed", "no address"}
      BY <1>3, <2>1, <2>3, <3>2 DEF PlanWrite
    <3> QED BY <3>1, <3>2
  <2>5. cursor' \in [Members -> 1..(Last + 1)] /\ memberStatus' \in [Members -> MemberStatus]
    BY <2>1, <2>4, PlaceTyped DEF TypeOK
  <2>6. rowStatus' \in [Rows -> RowStatus]
    BY <1>3 DEF PlanWrite, PlannedRows, TypeOK, RowStatus
  <2>7. PlanTyped'
    <3>1. plan' = [phase |-> "idle", member |-> NoRow, step |-> 1, seen |-> "none"]
      BY <1>3 DEF PlanWrite, NoPlan
    <3>2. 1 \in 1..(Last + 1) /\ "none" \in RowStatus BY DEF CampaignAssumption, RowStatus
    <3> QED BY <3>1, <3>2 DEF PlanTyped
  <2> QED BY <1>3, <2>5, <2>6, <2>7 DEF PlanWrite, TypeOK, MoveTyped
<1> QED BY <1>1, <1>2, <1>3 DEF Plan

LEMMA OperateTyped ==
  ASSUME CampaignAssumption, Typed, Operate
  PROVE  Typed'
<1> USE DEF Typed, memberVars, processVars, history, bounds, runnerVars
<1>1. CASE Pause \/ Start BY <1>1, HeldTyped DEF Pause, Start, TypeOK
<1>2. CASE Stop
  <2>1. rowStatus' \in [Rows -> RowStatus] BY <1>2, SkipTyped DEF Stop, TypeOK
  <2>2. memberStatus' \in [Members -> MemberStatus] BY <1>2 DEF Stop, TypeOK, MemberStatus
  <2> QED BY <1>2, <2>1, <2>2 DEF Stop, TypeOK, PlanTyped, MoveTyped
<1>3. CASE SkipStep
  <2>1. move.member \in Members /\ move.to \in 1..(Last + 1) BY <1>3 DEF SkipStep, MoveTyped
  <2>2. StatusAt(move.to) \in MemberStatus BY DEF StatusAt, MemberStatus
  <2>3. cursor' \in [Members -> 1..(Last + 1)] /\ memberStatus' \in [Members -> MemberStatus]
    BY <1>3, <2>1, <2>2, PlaceTyped DEF SkipStep
  <2>4. rowStatus' \in [Rows -> RowStatus] BY <1>3, SkipTyped DEF SkipStep, TypeOK
  <2>5. MoveTyped' BY <1>3 DEF SkipStep, NoMove, MoveTyped, CampaignAssumption
  <2> QED BY <1>3, <2>3, <2>4, <2>5 DEF SkipStep, TypeOK, PlanTyped
<1>4. CASE ResumeAtStep
  <2>1. move.member \in Members /\ move.to \in 1..(Last + 1) BY <1>4 DEF ResumeAtStep, MoveTyped
  <2>2. "waiting" \in MemberStatus BY DEF MemberStatus
  <2>3. cursor' \in [Members -> 1..(Last + 1)] /\ memberStatus' \in [Members -> MemberStatus]
    BY <1>4, <2>1, <2>2, PlaceTyped DEF ResumeAtStep, TypeOK
  <2>4. rowStatus' \in [Rows -> RowStatus] BY <1>4, SkipTyped DEF ResumeAtStep, TypeOK
  <2>5. MoveTyped' BY <1>4 DEF ResumeAtStep, NoMove, MoveTyped, CampaignAssumption
  <2> QED BY <1>4, <2>3, <2>4, <2>5 DEF ResumeAtStep, TypeOK, PlanTyped
<1>5. ASSUME NEW m \in Members, PauseMember(m) PROVE Typed'
  <2>1. memberStatus' \in [Members -> MemberStatus]
    BY <1>5 DEF PauseMember, TypeOK, MemberStatus
  <2> QED BY <1>5, <2>1 DEF PauseMember, TypeOK, PlanTyped, MoveTyped
<1>6. ASSUME NEW m \in Members, EndMember(m) PROVE Typed'
  <2>1. rowStatus' \in [Rows -> RowStatus] BY <1>6, SkipTyped DEF EndMember, TypeOK
  <2>2. memberStatus' \in [Members -> MemberStatus] BY <1>6 DEF EndMember, TypeOK, MemberStatus
  <2> QED BY <1>6, <2>1, <2>2 DEF EndMember, TypeOK, PlanTyped, MoveTyped
<1>7. ASSUME NEW m \in Members, MoveRead(m) PROVE Typed'
  <2>1. cursor[m] \in 1..(Last + 1) BY DEF TypeOK
  <2>2. MoveTyped'
    <3>1. CASE /\ cursor[m] <= Last
               /\ move' = [kind |-> "skip", member |-> m, from |-> cursor[m], to |-> cursor[m] + 1]
      <4>1. cursor[m] \in 1..Last /\ cursor[m] + 1 \in 1..(Last + 1)
        BY <2>1, <3>1 DEF CampaignAssumption
      <4> QED BY <2>1, <3>1, <4>1 DEF MoveTyped, Moves
    <3>2. CASE \E i \in 1..Last :
                 move' = [kind |-> "resume", member |-> m, from |-> cursor[m], to |-> i]
      <4> PICK i \in 1..Last :
            move' = [kind |-> "resume", member |-> m, from |-> cursor[m], to |-> i]
        BY <3>2
      <4>1. i \in 1..(Last + 1) BY DEF CampaignAssumption
      <4> QED BY <2>1, <4>1 DEF MoveTyped, Moves
    <3> QED BY <1>7, <3>1, <3>2 DEF MoveRead
  <2> QED BY <1>7, <2>2 DEF MoveRead, TypeOK, PlanTyped
<1>8. ASSUME NEW r \in Rows, rowStatus' \in [Rows -> RowStatus],
             Advance(r) \/ UNCHANGED memberVars
                \/ (cursor' = cursor /\ memberStatus' = [memberStatus EXCEPT ![r[1]] = "waiting"]),
             \E v \in {"retry", "sent"} : judged' \in {judged, judged \cup {<<r, v>>}},
             verdicts' \subseteq verdicts \cup ({r} \X Verdicts),
             UNCHANGED <<campaign, runnerVars, plan, move, inbox, recorded, answered, bounds>>
      PROVE  Typed'
  <2>1. cursor' \in [Members -> 1..(Last + 1)] /\ memberStatus' \in [Members -> MemberStatus]
    BY <1>8, AdvanceTyped DEF TypeOK, MemberStatus
  <2>2. judged' \subseteq Rows \X {"sent", "retry"} BY <1>8 DEF TypeOK
  <2>3. verdicts' \subseteq Rows \X Verdicts BY <1>8 DEF TypeOK
  <2> QED BY <1>8, <2>1, <2>2, <2>3 DEF TypeOK, PlanTyped, MoveTyped
<1>9. ASSUME NEW r \in Rows,
             \/ ResolveRetry(r) \/ ResolveSent(r) \/ ResolveSkip(r) \/ RetryFailed(r)
             \/ \E verdict \in Verdicts : ResolveRead(r, verdict)
      PROVE  Typed'
  <2> USE DEF Decides, Judge
  <2>1. CASE ResolveRetry(r)
    <3>1. rowStatus' \in [Rows -> RowStatus]
      BY <2>1 DEF ResolveRetry, SettleUnknownAs, TypeOK, RowStatus
    <3> QED BY <1>8, <2>1, <3>1 DEF ResolveRetry
  <2>2. CASE ResolveSent(r)
    <3>1. rowStatus' \in [Rows -> RowStatus]
      BY <2>2 DEF ResolveSent, SettleUnknownAs, TypeOK, RowStatus
    <3> QED BY <1>8, <2>2, <3>1 DEF ResolveSent
  <2>3. CASE ResolveSkip(r)
    <3>1. rowStatus' \in [Rows -> RowStatus]
      BY <2>3 DEF ResolveSkip, SettleUnknownAs, TypeOK, RowStatus
    <3> QED BY <1>8, <2>3, <3>1 DEF ResolveSkip
  <2>4. CASE RetryFailed(r)
    <3>1. rowStatus' \in [Rows -> RowStatus] BY <2>4, RowTyped DEF RetryFailed, TypeOK, RowStatus
    <3> QED BY <1>8, <2>4, <3>1 DEF RetryFailed
  <2>5. ASSUME NEW verdict \in Verdicts, ResolveRead(r, verdict) PROVE Typed'
    BY <1>8, <2>5 DEF ResolveRead, TypeOK
  <2> QED BY <1>9, <2>1, <2>2, <2>3, <2>4, <2>5
<1> QED BY <1>1, <1>2, <1>3, <1>4, <1>5, <1>6, <1>7, <1>9 DEF Operate

LEMMA ListenTyped ==
  ASSUME CampaignAssumption, Typed, Listen
  PROVE  Typed'
<1> USE DEF Typed, memberVars, processVars, history, bounds, runnerVars
<1> PICK m \in Members :
      \/ SuppressRecipient(m) \/ StopMember(m) \/ LinkedInReply(m) \/ FilingEnds(m)
      \/ \E kind \in EventKinds : RecordEvent(m, kind)
  BY DEF Listen
<1>1. CASE SuppressRecipient(m)
  BY <1>1 DEF SuppressRecipient, TypeOK, PlanTyped, MoveTyped
<1>2. CASE StopMember(m)
  <2>1. rowStatus' \in [Rows -> RowStatus] BY <1>2, SkipTyped DEF StopMember, TypeOK
  <2>2. memberStatus' \in [Members -> MemberStatus] BY <1>2 DEF StopMember, TypeOK, MemberStatus
  <2> QED BY <1>2, <2>1, <2>2 DEF StopMember, TypeOK, PlanTyped, MoveTyped
<1>3. CASE LinkedInReply(m) BY <1>3, HeldTyped DEF LinkedInReply, TypeOK
<1>4. CASE FilingEnds(m)
  <2>1. <<m, inbox[m]>> \in Members \X {"reply", "unsubscribe", "bounce"}
    BY <1>4 DEF FilingEnds, TypeOK
  <2> QED BY <1>4, <2>1, HeldTyped DEF FilingEnds, TypeOK
<1>5. ASSUME NEW kind \in EventKinds, RecordEvent(m, kind) PROVE Typed'
  BY <1>5, HeldTyped DEF RecordEvent, Filed, CampaignAssumption, TypeOK
<1> QED BY <1>1, <1>2, <1>3, <1>4, <1>5

LEMMA TypedStep == ASSUME CampaignAssumption, Typed, [Next]_vars PROVE Typed'
<1>1. CASE UNCHANGED vars
  BY <1>1 DEF vars, campaignVars, memberVars, processVars, history, bounds, runnerVars, Typed,
     TypeOK, PlanTyped, MoveTyped
<1>2. ASSUME NEW r \in Rows, Due(r) PROVE Typed'
  <2>1. rowStatus' \in [Rows -> RowStatus] BY <1>2, RowTyped DEF Due, Typed, TypeOK, RowStatus
  <2> QED BY <1>2, <2>1 DEF Due, memberVars, processVars, history, bounds, runnerVars, Typed,
     TypeOK, PlanTyped, MoveTyped
<1>3. ASSUME NEW r \in Rows, DayPasses(r) PROVE Typed'
  BY <1>3 DEF DayPasses, campaignVars, memberVars, processVars, history, bounds, runnerVars,
     Typed, TypeOK, PlanTyped, MoveTyped
<1> QED BY <1>1, <1>2, <1>3, RunTyped, PlanStepTyped, OperateTyped, ListenTyped DEF Next

(* The tables of a campaign and what its processes hold keep their shapes. *)
THEOREM CampaignTypeCorrect == Spec => []TypeOK
<1>1. Init => Typed BY CampaignAssumption, TypedInitial
<1>2. Typed /\ [Next]_vars => Typed' BY CampaignAssumption, TypedStep
<1>3. Typed => TypeOK BY DEF Typed
<1> QED BY <1>1, <1>2, <1>3, PTL DEF Spec

-----------------------------------------------------------------------------
(* Planner, operators, mailbox events and time leave the runners and the   *)
(* ledger's verdicts alone, and move a row in these ways only.             *)
OutsideMove(r) ==
    \/ rowStatus'[r] = rowStatus[r]
    \/ rowStatus'[r] = "skipped" /\ rowStatus[r] \notin {"claimed", "sent"}
    \/ rowStatus'[r] = "planned" /\ rowStatus[r] \in {"none", "deferred", "failed"}
    \/ /\ rowStatus[r] = "unknown"
       /\ \/ rowStatus'[r] = "planned" /\ <<r, "retry">> \in judged'
          \/ rowStatus'[r] = "sent" /\ <<r, "sent">> \in judged'
Outside ==
    /\ UNCHANGED <<runnerVars, status, pc, key, conn, result, accepted, stranded>>
    /\ judged \subseteq judged'
    /\ \A r \in Rows : OutsideMove(r)

LEMMA SetOutside ==
  ASSUME Typed, NEW r \in Rows, NEW s \in RowStatus, SetRow(r, s)
  PROVE  rowStatus'[r] = s /\ \A q \in Rows \ {r} : rowStatus'[q] = rowStatus[q]
BY DEF SetRow, Typed, TypeOK

LEMMA SkipOutside ==
  ASSUME Typed, NEW R, NEW from, from \cap {"claimed", "sent"} = {}, SkipRows(R, from)
  PROVE  \A r \in Rows : OutsideMove(r)
BY DEF SkipRows, OutsideMove

LEMMA OutsideSteps ==
  ASSUME Typed, Plan \/ Operate \/ (\E r \in Rows : Due(r) \/ DayPasses(r))
  PROVE  Outside
<1> USE DEF Outside, memberVars, processVars, history, bounds, runnerVars, ledgerVars
<1>1. CASE Plan
  <2>1. CASE PlanWrite
    <3>1. \A r \in Rows : OutsideMove(r)
      BY <2>1 DEF PlanWrite, PlannedRows, OutsideMove, Typed, TypeOK
    <3> QED BY <2>1, <3>1 DEF PlanWrite
  <2> QED BY <1>1, <2>1 DEF Plan, PlanMember, PlanLook, OutsideMove
<1>2. CASE Operate
  <2>1. Withdrawable \cap {"claimed", "sent"} = {} BY DEF Withdrawable, PlannedStatus
  <2>2. CASE Stop \/ SkipStep \/ ResumeAtStep \/ \E m \in Members : EndMember(m)
    BY <2>1, <2>2, SkipOutside DEF Stop, SkipStep, ResumeAtStep, EndMember
  <2>3. ASSUME NEW r \in Rows, ResolveRetry(r) \/ ResolveSent(r) \/ ResolveSkip(r)
        PROVE  Outside
    BY <2>3 DEF ResolveRetry, ResolveSent, ResolveSkip, SettleUnknownAs, Judge, OutsideMove, Typed,
       TypeOK
  <2>4. ASSUME NEW r \in Rows, RetryFailed(r) PROVE Outside
    BY <2>4, SetOutside DEF RetryFailed, OutsideMove, RowStatus
  <2> QED
    BY <1>2, <2>2, <2>3, <2>4
       DEF Operate, Pause, Start, PauseMember, MoveRead, ResolveRead, OutsideMove
<1>3. ASSUME NEW r \in Rows, Due(r) PROVE Outside
  <2>1. "planned" \in RowStatus BY DEF RowStatus
  <2> QED BY <1>3, <2>1, SetOutside DEF Due, OutsideMove
<1>4. ASSUME NEW r \in Rows, DayPasses(r) PROVE Outside
  BY <1>4 DEF DayPasses, Ledger!DayPasses, Ledger!callVars, campaignVars, OutsideMove
<1> QED BY <1>1, <1>2, <1>3, <1>4

(* So do mailbox events.                                                   *)
LEMMA OutsideListen ==
  ASSUME Typed, Listen
  PROVE  /\ UNCHANGED <<runnerVars, status, pc, key, conn, result, accepted, judged, stranded>>
         /\ \A r \in Rows : OutsideMove(r)
<1> USE DEF memberVars, processVars, history, bounds, runnerVars, ledgerVars
<1> PICK m \in Members :
      \/ SuppressRecipient(m) \/ StopMember(m) \/ LinkedInReply(m) \/ FilingEnds(m)
      \/ \E kind \in EventKinds : RecordEvent(m, kind)
  BY DEF Listen
<1>1. CASE SuppressRecipient(m)
  BY <1>1 DEF SuppressRecipient, Ledger!Suppress, Ledger!rowVars, Ledger!callVars, OutsideMove
<1>2. CASE StopMember(m)
  <2>1. PlannedStatus \cap {"claimed", "sent"} = {} BY DEF PlannedStatus
  <2> QED BY <1>2, <2>1, SkipOutside DEF StopMember
<1> QED BY <1>1, <1>2 DEF LinkedInReply, FilingEnds, RecordEvent, OutsideMove

-----------------------------------------------------------------------------
(* Nobody but its holder moves a claimed row, and an idle runner holds none.*)
HoldersOnly ==
    /\ ClaimIsExclusive
    /\ \A w \in Runners : phase[w] = "idle" => row[w] = NoRow

LEMMA TurnOthers ==
  ASSUME Typed, NEW w \in Runners, NEW p \in RunnerPhase, NEW r \in Rows \cup {NoRow}, Turn(w, p, r)
  PROVE  /\ phase'[w] = p /\ row'[w] = r
         /\ \A v \in Runners \ {w} : phase'[v] = phase[v] /\ row'[v] = row[v]
BY DEF Turn, Typed, TypeOK

LEMMA HoldersStay ==
  ASSUME HoldersOnly, UNCHANGED runnerVars,
         \A r \in Rows : rowStatus[r] = "claimed" => rowStatus'[r] = "claimed",
         Typed
  PROVE  HoldersOnly'
BY DEF HoldersOnly, ClaimIsExclusive, runnerVars, Typed, TypeOK

LEMMA HolderLeaves ==
  ASSUME CampaignAssumption, Typed, HoldersOnly, NEW w \in Runners, phase[w] # "idle", Drop(w),
         \A r \in Rows \ {row[w]} : rowStatus'[r] = rowStatus[r]
  PROVE  HoldersOnly'
<1>1. /\ phase'[w] = "idle" /\ row'[w] = NoRow
      /\ \A v \in Runners \ {w} : phase'[v] = phase[v] /\ row'[v] = row[v]
  BY TurnOthers DEF Drop, RunnerPhase
<1>2. ASSUME NEW v \in Runners, phase'[v] # "idle"
      PROVE  /\ rowStatus'[row'[v]] = "claimed"
             /\ \A u \in Runners : row'[u] = row'[v] => u = v
  <2>1. v # w /\ phase[v] # "idle" /\ row'[v] = row[v] /\ row[v] \in Rows
    BY <1>1, <1>2 DEF Typed, TypeOK
  <2>2. rowStatus[row[v]] = "claimed" /\ \A u \in Runners : row[u] = row[v] => u = v
    BY <2>1 DEF HoldersOnly, ClaimIsExclusive
  <2>3. row[v] # row[w] BY <2>1, <2>2
  <2>4. NoRow \notin Rows BY DEF CampaignAssumption
  <2> QED BY <1>1, <2>1, <2>2, <2>3, <2>4
<1>3. ASSUME NEW v \in Runners, phase'[v] = "idle" PROVE row'[v] = NoRow
  BY <1>1, <1>3 DEF HoldersOnly
<1> QED BY <1>2, <1>3 DEF HoldersOnly, ClaimIsExclusive

LEMMA HolderGoesOn ==
  ASSUME Typed, HoldersOnly, NEW w \in Runners, phase[w] # "idle", UNCHANGED rowStatus,
         NEW p \in RunnerPhase \ {"idle"}, Turn(w, p, row[w])
  PROVE  HoldersOnly'
<1>1. row[w] \in Rows BY DEF Typed, TypeOK
<1>2. /\ phase'[w] = p /\ \A v \in Runners : row'[v] = row[v]
      /\ \A v \in Runners \ {w} : phase'[v] = phase[v]
  BY <1>1, TurnOthers
<1> QED BY <1>2 DEF HoldersOnly, ClaimIsExclusive

LEMMA HolderEnters ==
  ASSUME CampaignAssumption, Typed, HoldersOnly, NEW w \in Runners, ClaimNext(w)
  PROVE  HoldersOnly'
<1> PICK r \in Rows : rowStatus[r] = "planned" /\ SetRow(r, "claimed") /\ Turn(w, "mailbox", r)
  BY DEF ClaimNext, Claimable
<1>1. rowStatus'[r] = "claimed" /\ \A q \in Rows \ {r} : rowStatus'[q] = rowStatus[q]
  BY SetOutside DEF RowStatus
<1>2. /\ phase'[w] = "mailbox" /\ row'[w] = r
      /\ \A v \in Runners \ {w} : phase'[v] = phase[v] /\ row'[v] = row[v]
  BY TurnOthers DEF RunnerPhase
<1>3. NoRow \notin Rows BY DEF CampaignAssumption
<1>4. \A v \in Runners : row[v] # r BY <1>3 DEF HoldersOnly, ClaimIsExclusive
<1>5. ASSUME NEW v \in Runners, phase'[v] # "idle"
      PROVE  /\ rowStatus'[row'[v]] = "claimed"
             /\ \A u \in Runners : row'[u] = row'[v] => u = v
  <2>1. CASE v = w BY <1>1, <1>2, <1>4, <2>1
  <2>2. CASE v # w
    <3>1. row[v] \in Rows BY <1>2, <1>5, <2>2 DEF Typed, TypeOK
    <3> QED BY <1>1, <1>2, <1>4, <1>5, <2>2, <3>1 DEF HoldersOnly, ClaimIsExclusive
  <2> QED BY <2>1, <2>2
<1>6. ASSUME NEW v \in Runners, phase'[v] = "idle" PROVE row'[v] = NoRow
  BY <1>2, <1>6 DEF HoldersOnly
<1> QED BY <1>5, <1>6 DEF HoldersOnly, ClaimIsExclusive

(* The row a runner at work writes is its own.                             *)
LEMMA RunWritesItsRow ==
  ASSUME Typed, NEW w \in Runners, phase[w] # "idle", Run(w) \/ RunnerEnds(w)
  PROVE  \A r \in Rows \ {row[w]} : rowStatus'[r] = rowStatus[r]
<1>1. row[w] \in Rows BY DEF Typed, TypeOK
<1>2. {"deferred", "sent", "failed", "unknown"} \subseteq RowStatus BY DEF RowStatus
<1>3. CASE MailboxClosed(w) BY <1>1, <1>2, <1>3, SetOutside DEF MailboxClosed
<1>4. CASE SettleSuccess(w) BY <1>1, <1>2, <1>4, SetOutside DEF SettleSuccess
<1>5. CASE SettleFailed(w) BY <1>1, <1>2, <1>5, SetOutside DEF SettleFailed
<1>6. CASE SettleUnknown(w) BY <1>1, <1>2, <1>6, SetOutside DEF SettleUnknown
<1>7. CASE RetireStaleClaim(w) BY <1>7 DEF RetireStaleClaim, SkipRows
<1>8. CASE CallThrows(w) BY <1>1, <1>2, <1>8, SetOutside DEF CallThrows
<1>9. CASE EmailIncomplete(w) BY <1>1, <1>2, <1>9, SetOutside DEF EmailIncomplete
<1> QED
  BY <1>3, <1>4, <1>5, <1>6, <1>7, <1>8, <1>9
     DEF Run, Recheck, ExecuteEmail, Deliver, RunnerEnds, RunnerDies, SettleThrows, LeaveRow, campaignVars

LEMMA HoldersStep ==
  ASSUME CampaignAssumption, Typed, HoldersOnly, [Next]_vars
  PROVE  HoldersOnly'
<1>1. CASE UNCHANGED vars
  BY <1>1, HoldersStay DEF vars, campaignVars
<1>2. ASSUME NEW w \in Runners, Run(w) \/ RunnerEnds(w) PROVE HoldersOnly'
  <2>1. phase[w] # "idle"
    BY <1>2 DEF Run, MailboxClosed, Recheck, RetireStaleClaim, CallThrows, EmailIncomplete, ExecuteEmail, Deliver,
       SettleSuccess, SettleFailed, SettleUnknown, RunnerEnds, RunnerDies, SettleThrows, LeaveRow
  <2>2. \A r \in Rows \ {row[w]} : rowStatus'[r] = rowStatus[r] BY <1>2, <2>1, RunWritesItsRow
  <2>3. CASE Drop(w) BY <2>1, <2>2, <2>3, HolderLeaves
  <2>4. CASE Recheck(w) BY <2>1, <2>4, HolderGoesOn DEF Recheck, RunnerPhase
  <2>5. CASE ExecuteEmail(w) BY <2>1, <2>5, HolderGoesOn DEF ExecuteEmail, RunnerPhase
  <2>6. CASE Deliver(w) BY <2>6, HoldersStay DEF Deliver, campaignVars
  <2> QED
    BY <1>2, <2>3, <2>4, <2>5, <2>6
       DEF Run, MailboxClosed, RetireStaleClaim, CallThrows, EmailIncomplete, SettleSuccess,
           SettleFailed, SettleUnknown, RunnerEnds, RunnerDies, SettleThrows, LeaveRow
<1>3. CASE Plan \/ Operate \/ \E r \in Rows : Due(r) \/ DayPasses(r)
  BY <1>3, OutsideSteps, HoldersStay DEF Outside, OutsideMove
<1>4. CASE Listen BY <1>4, OutsideListen, HoldersStay DEF OutsideMove
<1> QED BY <1>1, <1>2, <1>3, <1>4, HolderEnters DEF Next

LEMMA TypedAlways == Spec => []Typed
<1>1. Init => Typed BY CampaignAssumption, TypedInitial
<1>2. Typed /\ [Next]_vars => Typed' BY CampaignAssumption, TypedStep
<1> QED BY <1>1, <1>2, PTL DEF Spec

LEMMA HoldersAlways == Spec => []HoldersOnly
<1>1. Init => HoldersOnly BY DEF Init, HoldersOnly, ClaimIsExclusive
<1>2. Typed /\ HoldersOnly /\ [Next]_vars => HoldersOnly' BY CampaignAssumption, HoldersStep
<1> QED BY <1>1, <1>2, TypedAlways, PTL DEF Spec

(* However many runners claim, whatever operators and the planner do       *)
(* meanwhile: a claimed row has one holder, and only its holder moves it.  *)
THEOREM CampaignClaimsExclusive == Spec => []ClaimIsExclusive
<1>1. HoldersOnly => ClaimIsExclusive BY DEF HoldersOnly
<1> QED BY <1>1, HoldersAlways, PTL

-----------------------------------------------------------------------------
(* Nothing takes a claimed row back, so somebody must always be about to   *)
(* settle it: a claimed row has a runner at work on it, unless the one that *)
(* claimed this very row ended without settling it.                        *)
Attended == \A r \in Rows : rowStatus[r] = "claimed" =>
    (\E w \in Runners : phase[w] # "idle" /\ row[w] = r) \/ r \in stranded

LEMMA AttendedStays ==
  ASSUME Attended, Typed, UNCHANGED runnerVars, stranded \subseteq stranded',
         \A r \in Rows : rowStatus'[r] = "claimed" => rowStatus[r] = "claimed"
  PROVE  Attended'
BY DEF Attended, runnerVars, Typed, TypeOK

LEMMA AttendedStep ==
  ASSUME CampaignAssumption, Typed, Attended, [Next]_vars
  PROVE  Attended'
<1>0. stranded \subseteq stranded'
  BY DEF Next, vars, campaignVars, bounds, ClaimNext, Run, RunnerEnds, RunnerDies, SettleThrows, LeaveRow, MailboxClosed, Recheck,
     RetireStaleClaim, CallThrows, EmailIncomplete, ExecuteEmail, Deliver, SettleSuccess, SettleFailed, SettleUnknown, Plan,
     PlanMember, PlanLook, PlanWrite, Operate, Pause, Start, Stop, SkipStep, ResumeAtStep,
     PauseMember, EndMember, MoveRead, ResolveRead, ResolveRetry, ResolveSent, ResolveSkip, RetryFailed,
     Listen, SuppressRecipient, StopMember, LinkedInReply, FilingEnds, RecordEvent, Due, DayPasses
<1>1. CASE UNCHANGED vars BY <1>0, <1>1, AttendedStays DEF vars, campaignVars
<1>2. ASSUME NEW w \in Runners, ClaimNext(w) PROVE Attended'
  <2> PICK r \in Rows : SetRow(r, "claimed") /\ Turn(w, "mailbox", r) BY <1>2 DEF ClaimNext
  <2>1. \A q \in Rows \ {r} : rowStatus'[q] = rowStatus[q] BY SetOutside DEF RowStatus
  <2>2. /\ phase'[w] = "mailbox" /\ row'[w] = r /\ phase[w] = "idle"
        /\ \A v \in Runners \ {w} : phase'[v] = phase[v] /\ row'[v] = row[v]
    BY <1>2, TurnOthers DEF RunnerPhase, ClaimNext
  <2> QED BY <1>0, <2>1, <2>2 DEF Attended, Typed, TypeOK
<1>3. ASSUME NEW w \in Runners, Run(w) \/ RunnerEnds(w) PROVE Attended'
  <2>1. phase[w] # "idle" /\ row[w] \in Rows
    BY <1>3 DEF Run, MailboxClosed, Recheck, RetireStaleClaim, CallThrows, EmailIncomplete, ExecuteEmail, Deliver,
       SettleSuccess, SettleFailed, SettleUnknown, RunnerEnds, RunnerDies, SettleThrows, LeaveRow, Typed, TypeOK
  <2>2. \A r \in Rows \ {row[w]} : rowStatus'[r] = rowStatus[r] BY <1>3, <2>1, RunWritesItsRow
  <2>3. CASE RunnerEnds(w) 
    <3>1. Drop(w) /\ stranded' = stranded \cup {row[w]} /\ UNCHANGED rowStatus
      BY <2>3 DEF RunnerEnds, RunnerDies, SettleThrows, LeaveRow
    <3>2. \A v \in Runners \ {w} : phase'[v] = phase[v] /\ row'[v] = row[v]
      BY <3>1, TurnOthers DEF Drop, RunnerPhase
    <3> QED BY <2>1, <3>1, <3>2 DEF Attended, Typed, TypeOK
  <2>4. CASE Recheck(w) \/ ExecuteEmail(w)
    <3>1. \E p \in RunnerPhase \ {"idle"} : Turn(w, p, row[w])
      BY <2>4 DEF Recheck, ExecuteEmail, RunnerPhase
    <3>2. /\ phase'[w] # "idle" /\ row'[w] = row[w]
          /\ \A v \in Runners \ {w} : phase'[v] = phase[v] /\ row'[v] = row[v]
      BY <2>1, <3>1, TurnOthers
    <3>3. UNCHANGED rowStatus BY <2>4 DEF Recheck, ExecuteEmail
    <3> QED BY <1>0, <3>2, <3>3 DEF Attended, Typed, TypeOK
  <2>5. CASE Deliver(w) BY <1>0, <2>5, AttendedStays DEF Deliver, campaignVars
  <2>6. CASE MailboxClosed(w) \/ RetireStaleClaim(w) \/ SettleSuccess(w) \/ SettleFailed(w)
               \/ SettleUnknown(w) \/ CallThrows(w) \/ EmailIncomplete(w)
    <3>1. Drop(w)
      BY <2>6 DEF MailboxClosed, RetireStaleClaim, SettleSuccess, SettleFailed, SettleUnknown,
         CallThrows, EmailIncomplete
    <3>2. \A v \in Runners \ {w} : phase'[v] = phase[v] /\ row'[v] = row[v]
      BY <3>1, TurnOthers DEF Drop, RunnerPhase
    <3>3. rowStatus'[row[w]] # "claimed"
      <4>1. CASE RetireStaleClaim(w) BY <2>1, <4>1 DEF RetireStaleClaim, SkipRows
      <4>2. {"deferred", "sent", "failed", "unknown"} \subseteq RowStatus BY DEF RowStatus
      <4> QED
        BY <2>1, <2>6, <4>1, <4>2, SetOutside
           DEF MailboxClosed, SettleSuccess, SettleFailed, SettleUnknown, CallThrows,
               EmailIncomplete
    <3> QED BY <1>0, <2>1, <2>2, <3>2, <3>3 DEF Attended, Typed, TypeOK
  <2> QED BY <1>3, <2>3, <2>4, <2>5, <2>6 DEF Run
<1>4. CASE Plan \/ Operate \/ \E r \in Rows : Due(r) \/ DayPasses(r)
  BY <1>0, <1>4, OutsideSteps, AttendedStays DEF Outside, OutsideMove
<1>5. CASE Listen BY <1>0, <1>5, OutsideListen, AttendedStays DEF OutsideMove
<1> QED BY <1>1, <1>2, <1>3, <1>4, <1>5 DEF Next

(* Every path of a runner settles, defers or withdraws the row it claimed, *)
(* with two exceptions: the process dies, or the statements that settle the*)
(* row throw.  Those two leave their own row claimed and no other.         *)
THEOREM CampaignClaimsAttended == Spec => []Attended
<1>1. Init => Attended BY DEF Init, Attended
<1>2. Typed /\ Attended /\ [Next]_vars => Attended' BY CampaignAssumption, AttendedStep
<1> QED BY <1>1, <1>2, TypedAlways, PTL DEF Spec

-----------------------------------------------------------------------------
LEMMA LedgerSuppresses == ASSUME LedgerStep PROVE suppressed \subseteq suppressed'
BY DEF LedgerStep, Ledger!Next, Ledger!Environment, Ledger!Deliver, Ledger!NoMailbox,
   Ledger!PickMailbox, Ledger!ClaimFresh, Ledger!ClaimReplay, Ledger!ClaimRetry,
   Ledger!ClaimBlocked, Ledger!CheckCapacity, Ledger!Simulate, Ledger!ProviderAccepts,
   Ledger!ProviderFails, Ledger!MarkSent, Ledger!MarkSentFails, Ledger!MarkFailure,
   Ledger!MarkFailureFails, Ledger!Return, Ledger!Begin, Ledger!Crash, Ledger!Suppress, Ledger!DayPasses,
   Ledger!deliveryVars

LEMMA UnsubscribeStep ==
  ASSUME CampaignAssumption, Typed, RunnersHoldRows, UnsubscribeIsDurable, [Next]_vars
  PROVE  UnsubscribeIsDurable'
<1> USE DEF memberVars, processVars, history, bounds, campaignVars
<1>0. suppressed \subseteq suppressed' BY LedgerSteps, LedgerSuppresses
<1>1. CASE UNCHANGED <<recorded, inbox, unfiled>>
  BY <1>0, <1>1 DEF UnsubscribeIsDurable, Typed, TypeOK
<1>2. ASSUME NEW m \in Members, NEW kind \in EventKinds, RecordEvent(m, kind)
      PROVE  UnsubscribeIsDurable'
  BY <1>0, <1>2 DEF RecordEvent, Filed, UnsubscribeIsDurable, Typed, TypeOK
<1>3. ASSUME NEW m \in Members, SuppressRecipient(m) PROVE UnsubscribeIsDurable'
  <2>1. <<m, 1>> \in Rows BY DEF CampaignAssumption, Rows
  <2>2. m \in suppressed' BY <1>3, <2>1 DEF SuppressRecipient, Ledger!Suppress
  <2> QED BY <1>0, <1>3, <2>2 DEF SuppressRecipient, UnsubscribeIsDurable, Typed, TypeOK
<1>4. ASSUME NEW m \in Members, StopMember(m) PROVE UnsubscribeIsDurable'
  BY <1>0, <1>4 DEF StopMember, UnsubscribeIsDurable, Typed, TypeOK
<1>5. ASSUME NEW m \in Members, FilingEnds(m) PROVE UnsubscribeIsDurable'
  <2>1. inbox[m] = "unsubscribe" => <<m, "unsubscribe">> \in unfiled' BY <1>5 DEF FilingEnds
  <2> QED BY <1>0, <1>5, <2>1 DEF FilingEnds, UnsubscribeIsDurable, Typed, TypeOK
<1>6. CASE UNCHANGED vars BY <1>1, <1>6 DEF vars
<1>7. ASSUME NEW w \in Runners, ClaimNext(w) \/ Run(w) \/ RunnerEnds(w)
      PROVE  UnsubscribeIsDurable'
  BY <1>1, <1>7 DEF ClaimNext, Run, RunnerEnds, RunnerDies, SettleThrows, LeaveRow, MailboxClosed,
     Recheck, RetireStaleClaim, CallThrows, EmailIncomplete, ExecuteEmail, Deliver, SettleSuccess,
     SettleFailed, SettleUnknown
<1>8. CASE Plan BY <1>1, <1>8 DEF Plan, PlanMember, PlanLook, PlanWrite
<1>9. CASE Operate
  BY <1>1, <1>9 DEF Operate, Pause, Start, Stop, SkipStep, ResumeAtStep, PauseMember,
     EndMember, MoveRead, ResolveRead, ResolveRetry, ResolveSent, ResolveSkip, RetryFailed
<1>10. CASE Listen
  BY <1>1, <1>2, <1>3, <1>4, <1>5, <1>10 DEF Listen, LinkedInReply
<1>11. ASSUME NEW r \in Rows, Due(r) \/ DayPasses(r) PROVE UnsubscribeIsDurable'
  BY <1>1, <1>11 DEF Due, DayPasses
<1> QED BY <1>6, <1>7, <1>8, <1>9, <1>10, <1>11 DEF Next

(* In whatever order replies, bounces and unsubscribes arrive: a recorded  *)
(* unsubscribe has suppressed its recipient, unless the call that filed    *)
(* this very event died or threw between the event row and the suppression.*)
THEOREM CampaignUnsubscribes == Spec => []UnsubscribeIsDurable
<1>1. Init => RunnersHoldRows /\ UnsubscribeIsDurable
  BY DEF Init, RunnersHoldRows, RunnerPhase, UnsubscribeIsDurable
<1>2. RunnersHoldRows /\ [Next]_vars => RunnersHoldRows' BY HoldStep
<1>3. Typed /\ RunnersHoldRows /\ UnsubscribeIsDurable /\ [Next]_vars => UnsubscribeIsDurable'
  BY CampaignAssumption, UnsubscribeStep
<1> QED BY <1>1, <1>2, <1>3, TypedAlways, PTL DEF Spec

(* Recorded, and handled: the filing did not end half-way.                 *)
Unsubscribed(m) ==
    /\ <<m, "unsubscribe">> \in recorded \ unfiled
    /\ inbox[m] # "unsubscribe"

(* Once an unsubscribe is recorded and handled, and the call that may have *)
(* been under way has ended, the member's step is never emailed again,     *)
(* whatever operators retry, resolve or resume and whoever dies from then. *)
THEOREM CampaignUnsubscribedStaysUnsent ==
  ASSUME NEW r \in Rows, NEW n
  PROVE  Spec => [](Unsubscribed(r[1]) /\ ~Proved!UnderWay(r) /\ accepted[r] = n
                      => [](accepted[r] = n))
<1> DEFINE Left == Unsubscribed(r[1]) /\ ~Proved!UnderWay(r) /\ accepted[r] = n
           Quiet == Proved!Closed(r) /\ accepted[r] = n
<1>1. UnsubscribeIsDurable /\ Left => Quiet
  BY DEF UnsubscribeIsDurable, Unsubscribed, Rows, Proved!Closed
<1>2. Proved!TypeOK /\ Quiet /\ [Proved!Next]_(Proved!deliveryVars) => Quiet'
  BY SameAssumption, Proved!SuppressionStep
<1>3. Quiet => accepted[r] = n OBVIOUS
<1>4. Proved!Spec => []Proved!TypeOK BY SameAssumption, Proved!DeliveryTypeCorrect
<1> HIDE DEF Quiet
<1> QED BY <1>1, <1>2, <1>3, <1>4, SameLedger, CampaignUnsubscribes, PTL DEF Proved!Spec

-----------------------------------------------------------------------------
(* What a row's status says of the provider.  Each row is truthful, and so *)
(* is each call on its way to settling one.                                *)
Clean(r) == accepted[r] = 0 \/ <<r, "retry">> \in judged
Truthful(r) ==
    /\ rowStatus[r] \in {"none", "planned", "deferred", "failed"} => Clean(r)
    /\ rowStatus[r] = "sent" => accepted[r] > 0 \/ <<r, "sent">> \in judged
    /\ status[r] = "sent" => accepted[r] > 0
BeforeCall == {"claim", "capacity", "call"}
CallTruthful(w) ==
    /\ phase[w] # "sending" => pc[w] = "idle"
    /\ phase[w] \in {"mailbox", "send"} => Clean(row[w])
    /\ phase[w] = "sending" =>
         /\ pc[w] \notin {"idle", "simulated"} /\ key[w] = row[w]
         /\ pc[w] \in BeforeCall \cup {"accepted"} => result[w] = "none"
         /\ pc[w] \in BeforeCall \/ result[w] \in Definite => Clean(row[w])
         /\ pc[w] = "accepted" \/ result[w] = "ok" => accepted[row[w]] > 0
Outcomes == (\A r \in Rows : Truthful(r)) /\ (\A w \in Runners : CallTruthful(w))
LedgerTyped ==
    /\ status \in [Rows -> Ledger!Status]
    /\ pc \in [Runners -> Ledger!Phase]
    /\ key \in [Runners -> Rows \cup {NoRow}]
    /\ result \in [Runners -> Ledger!Result]
    /\ accepted \in [Rows -> Nat]

(* A step that leaves ledger and runners alone.                            *)
LEMMA OutcomesOutside ==
  ASSUME Typed, HoldersOnly, Outcomes,
         UNCHANGED <<runnerVars, status, pc, key, result, accepted>>, judged \subseteq judged',
         \A r \in Rows : OutsideMove(r)
  PROVE  Outcomes'
<1>1. ASSUME NEW r \in Rows PROVE Truthful(r)'
  <2>1. OutsideMove(r) /\ Truthful(r) BY DEF Outcomes
  <2> QED BY <2>1 DEF Truthful, Clean, OutsideMove
<1>2. ASSUME NEW w \in Runners PROVE CallTruthful(w)'
  BY DEF Outcomes, CallTruthful, Clean, runnerVars
<1> QED BY <1>1, <1>2 DEF Outcomes

(* What one runner's step must show, the others working on other rows.     *)
LEMMA OutcomesRun ==
  ASSUME CampaignAssumption, Typed, HoldersOnly, Outcomes, NEW w \in Runners, NEW r \in Rows,
         \A v \in Runners \ {w} : row[v] # r,
         \A q \in Rows \ {r} : /\ rowStatus'[q] = rowStatus[q] /\ status'[q] = status[q]
                               /\ accepted'[q] = accepted[q],
         \A v \in Runners \ {w} : /\ phase'[v] = phase[v] /\ row'[v] = row[v] /\ pc'[v] = pc[v]
                                  /\ key'[v] = key[v] /\ result'[v] = result[v],
         UNCHANGED judged, Truthful(r)', CallTruthful(w)'
  PROVE  Outcomes'
<1>1. ASSUME NEW q \in Rows \ {r} PROVE Truthful(q)'
  BY DEF Outcomes, Truthful, Clean
<1>2. ASSUME NEW v \in Runners \ {w} PROVE CallTruthful(v)'
  <2>1. CASE phase[v] = "idle" BY <2>1 DEF Outcomes, CallTruthful
  <2>2. CASE phase[v] # "idle"
    <3>1. row[v] \in Rows \ {r} BY <2>2 DEF Typed, TypeOK
    <3> QED BY <3>1 DEF Outcomes, CallTruthful, Clean
  <2> QED BY <2>1, <2>2
<1> QED BY <1>1, <1>2 DEF Outcomes

LEMMA OnlyHolder ==
  ASSUME HoldersOnly, NEW w \in Runners, phase[w] # "idle"
  PROVE  rowStatus[row[w]] = "claimed" /\ \A v \in Runners \ {w} : row[v] # row[w]
BY DEF HoldersOnly, ClaimIsExclusive

LEMMA OutcomesClaim ==
  ASSUME CampaignAssumption, Typed, HoldersOnly, LedgerTyped, Outcomes, NEW w \in Runners, ClaimNext(w)
  PROVE  Outcomes'
<1> PICK r \in Rows : rowStatus[r] = "planned" /\ SetRow(r, "claimed") /\ Turn(w, "mailbox", r)
  BY DEF ClaimNext, Claimable
<1>1. rowStatus'[r] = "claimed" /\ \A q \in Rows \ {r} : rowStatus'[q] = rowStatus[q]
  BY SetOutside DEF RowStatus
<1>2. /\ phase'[w] = "mailbox" /\ row'[w] = r
      /\ \A v \in Runners \ {w} : phase'[v] = phase[v] /\ row'[v] = row[v]
  BY TurnOthers DEF RunnerPhase
<1>3. UNCHANGED <<judged, status, accepted, pc, key, result>> /\ phase[w] = "idle"
  BY DEF ClaimNext, history, ledgerVars
<1>4. \A v \in Runners : row[v] # r
  BY DEF HoldersOnly, ClaimIsExclusive, CampaignAssumption
<1>5. Truthful(r) /\ CallTruthful(w) BY DEF Outcomes
<1>6. Truthful(r)' BY <1>1, <1>3, <1>5 DEF Truthful
<1>7. CallTruthful(w)' BY <1>2, <1>3, <1>5 DEF CallTruthful, Truthful, Clean
<1> QED BY <1>1, <1>2, <1>3, <1>4, <1>6, <1>7, OutcomesRun

(* A runner that works on its row without the ledger.                      *)
LEMMA OutcomesMailbox ==
  ASSUME CampaignAssumption, Typed, HoldersOnly, Outcomes, NEW w \in Runners,
         \/ MailboxClosed(w) \/ Recheck(w) \/ RetireStaleClaim(w)
         \/ CallThrows(w) \/ EmailIncomplete(w)
         \/ RunnerEnds(w) /\ phase[w] # "sending"
  PROVE  Outcomes'
<1> USE DEF history, ledgerVars
<1>1. phase[w] # "idle" /\ phase[w] # "sending" /\ row[w] \in Rows
  BY DEF MailboxClosed, Recheck, RetireStaleClaim, CallThrows, EmailIncomplete, RunnerEnds, RunnerDies, SettleThrows, LeaveRow, Typed, TypeOK
<1> PICK r \in Rows : r = row[w] BY <1>1
<1>2. UNCHANGED <<judged, status, accepted, pc, key, result>>
  BY <1>1 DEF MailboxClosed, Recheck, RetireStaleClaim, CallThrows, EmailIncomplete, RunnerEnds,
     RunnerDies, SettleThrows, LeaveRow
<1>3. CallTruthful(w) /\ Truthful(row[w]) BY <1>1 DEF Outcomes
<1>4. pc'[w] = "idle" BY <1>1, <1>2, <1>3 DEF CallTruthful
<1>5. Drop(w) \/ (Turn(w, "send", row[w]) /\ phase[w] = "mailbox")
  BY DEF MailboxClosed, Recheck, RetireStaleClaim, CallThrows, EmailIncomplete, RunnerEnds,
     RunnerDies, SettleThrows, LeaveRow
<1>6. \A v \in Runners \ {w} : phase'[v] = phase[v] /\ row'[v] = row[v]
  BY <1>1, <1>5, TurnOthers DEF Drop, RunnerPhase
<1>7. CallTruthful(w)'
  <2>1. CASE Drop(w)
    <3>1. phase'[w] = "idle" BY <2>1, TurnOthers DEF Drop, RunnerPhase
    <3> QED BY <1>4, <3>1 DEF CallTruthful
  <2>2. CASE Turn(w, "send", row[w]) /\ phase[w] = "mailbox"
    <3>1. phase'[w] = "send" /\ row'[w] = row[w] BY <1>1, <2>2, TurnOthers DEF RunnerPhase
    <3> QED BY <1>2, <1>3, <1>4, <2>2, <3>1 DEF CallTruthful, Clean
  <2> QED BY <1>5, <2>1, <2>2
<1>8. \A q \in Rows \ {row[w]} : rowStatus'[q] = rowStatus[q]
  BY <1>1, RunWritesItsRow DEF Run
<1>9. rowStatus[row[w]] = "claimed" /\ \A v \in Runners \ {w} : row[v] # row[w]
  BY <1>1, OnlyHolder
<1>10. Truthful(r)'
  <2>1. CASE MailboxClosed(w)
    <3>1. rowStatus'[row[w]] = "deferred" BY <1>1, <2>1, SetOutside DEF MailboxClosed, RowStatus
    <3> QED BY <1>2, <1>3, <2>1, <3>1 DEF MailboxClosed, CallTruthful, Truthful, Clean
  <2>2. CASE rowStatus'[row[w]] \in {"claimed", "skipped"}
    BY <1>2, <1>3, <2>2 DEF Truthful
  <2>3. CASE CallThrows(w)
    <3>1. rowStatus'[row[w]] = "unknown" BY <1>1, <2>3, SetOutside DEF CallThrows, RowStatus
    <3> QED BY <1>2, <1>3, <3>1 DEF Truthful
  <2>4. CASE EmailIncomplete(w)
    <3>1. rowStatus'[row[w]] = "failed" BY <1>1, <2>4, SetOutside DEF EmailIncomplete, RowStatus
    <3> QED BY <1>2, <1>3, <2>4, <3>1 DEF EmailIncomplete, CallTruthful, Truthful, Clean
  <2> QED
    BY <1>1, <1>9, <2>1, <2>2, <2>3, <2>4
       DEF Recheck, RetireStaleClaim, SkipRows, RunnerEnds, RunnerDies, SettleThrows, LeaveRow
<1> QED BY <1>1, <1>2, <1>6, <1>7, <1>8, <1>9, <1>10, OutcomesRun

(* A runner enters the ledger, and leaves it.                              *)
LEMMA OutcomesLedger ==
  ASSUME CampaignAssumption, Typed, HoldersOnly, LedgerTyped, Outcomes, NEW w \in Runners,
         \/ ExecuteEmail(w) \/ SettleSuccess(w) \/ SettleFailed(w) \/ SettleUnknown(w)
         \/ RunnerEnds(w) /\ phase[w] = "sending"
  PROVE  Outcomes'
<1> USE DEF history
<1>1. phase[w] \in {"send", "sending"} /\ row[w] \in Rows
  BY DEF ExecuteEmail, SettleSuccess, SettleFailed, SettleUnknown, Typed, TypeOK
<1> PICK r \in Rows : r = row[w] BY <1>1
<1>2. /\ UNCHANGED <<judged, status, accepted>>
      /\ \A v \in Runners \ {w} : pc'[v] = pc[v] /\ key'[v] = key[v] /\ result'[v] = result[v]
  BY DEF ExecuteEmail, SettleSuccess, SettleFailed, SettleUnknown, RunnerEnds, RunnerDies, SettleThrows, LeaveRow, Ledger!Begin,
     Ledger!End, Ledger!Goto, Ledger!Return, Ledger!Crash, Ledger!Forget, Ledger!rowVars,
     LedgerTyped
<1>3. CallTruthful(w) /\ Truthful(row[w]) BY <1>1 DEF Outcomes
<1>4. rowStatus[row[w]] = "claimed" /\ \A v \in Runners \ {w} : row[v] # row[w]
  BY <1>1, OnlyHolder
<1>5. \A q \in Rows \ {row[w]} : rowStatus'[q] = rowStatus[q]
  BY <1>1, RunWritesItsRow DEF Run
<1>6. CASE ExecuteEmail(w)
  <2>1. /\ phase'[w] = "sending" /\ row'[w] = row[w]
        /\ \A v \in Runners \ {w} : phase'[v] = phase[v] /\ row'[v] = row[v]
    BY <1>1, <1>6, TurnOthers DEF ExecuteEmail, RunnerPhase
  <2>2. /\ key'[w] = row[w]
        /\ \/ pc'[w] = "done" /\ result'[w] = "suppressed"
           \/ pc'[w] = "claim" /\ result'[w] = "none"
    BY <1>6 DEF ExecuteEmail, Ledger!Begin, Ledger!End, Ledger!Goto, LedgerTyped
  <2>3. Clean(r)' BY <1>2, <1>3, <1>6 DEF ExecuteEmail, CallTruthful, Clean
  <2>4. CallTruthful(w)' BY <2>1, <2>2, <2>3 DEF CallTruthful, BeforeCall, Definite, Clean
  <2>5. Truthful(r)' BY <1>2, <1>3, <1>4, <1>6 DEF ExecuteEmail, Truthful
  <2> QED BY <1>1, <1>2, <1>4, <1>5, <2>1, <2>4, <2>5, OutcomesRun
<1>7. CASE SettleSuccess(w) \/ SettleFailed(w) \/ SettleUnknown(w) \/ (RunnerEnds(w) /\ phase[w] = "sending")
  <2>0. Drop(w) /\ phase[w] = "sending"
    BY <1>7 DEF SettleSuccess, SettleFailed, SettleUnknown, RunnerEnds, RunnerDies, SettleThrows, LeaveRow
  <2>1. /\ phase'[w] = "idle" /\ row'[w] = NoRow
        /\ \A v \in Runners \ {w} : phase'[v] = phase[v] /\ row'[v] = row[v]
    BY <2>0, TurnOthers DEF Drop, RunnerPhase
  <2>2. pc'[w] = "idle"
    BY <1>7 DEF SettleSuccess, SettleFailed, SettleUnknown, RunnerEnds, RunnerDies, SettleThrows, LeaveRow, Ledger!Return, Ledger!Crash,
       Ledger!Forget, LedgerTyped
  <2>3. CallTruthful(w)' BY <2>1, <2>2 DEF CallTruthful
  <2>4. Truthful(r)'
    <3>1. {"sent", "failed", "unknown"} \subseteq RowStatus BY DEF RowStatus
    <3>2. CASE SettleSuccess(w)
      <4>1. rowStatus'[row[w]] = "sent" BY <1>1, <3>1, <3>2, SetOutside DEF SettleSuccess
      <4>2. accepted[row[w]] > 0 BY <1>3, <2>0, <3>2 DEF SettleSuccess, Succeeded, CallTruthful
      <4> QED BY <1>2, <1>3, <4>1, <4>2 DEF Truthful
    <3>3. CASE SettleFailed(w)
      <4>1. rowStatus'[row[w]] = "failed" BY <1>1, <3>1, <3>3, SetOutside DEF SettleFailed
      <4>2. Clean(row[w]) BY <1>3, <2>0, <3>3 DEF SettleFailed, CallTruthful
      <4> QED BY <1>2, <1>3, <4>1, <4>2 DEF Truthful, Clean
    <3>4. CASE SettleUnknown(w)
      <4>1. rowStatus'[row[w]] = "unknown" BY <1>1, <3>1, <3>4, SetOutside DEF SettleUnknown
      <4> QED BY <1>2, <1>3, <4>1 DEF Truthful
    <3>5. CASE RunnerEnds(w) BY <1>2, <1>3, <1>4, <3>5 DEF RunnerEnds, RunnerDies, SettleThrows, LeaveRow, Truthful
    <3> QED BY <1>7, <3>2, <3>3, <3>4, <3>5
  <2> QED BY <1>1, <1>2, <1>4, <1>5, <2>1, <2>3, <2>4, OutcomesRun
<1> QED BY <1>6, <1>7

(* A runner inside the ledger.                                             *)
LEMMA OutcomesDeliver ==
  ASSUME CampaignAssumption, Typed, HoldersOnly, LedgerTyped, Outcomes, NEW w \in Runners, Deliver(w)
  PROVE  Outcomes'
<1> USE DEF history, runnerVars
<1>1. phase[w] = "sending" /\ row[w] \in Rows BY DEF Deliver, Typed, TypeOK
<1> PICK r \in Rows : r = row[w] BY <1>1
<1>2. UNCHANGED <<judged, rowStatus, phase, row>> BY DEF Deliver, campaignVars
<1>3. CallTruthful(w) /\ Truthful(r) BY DEF Outcomes
<1>4. rowStatus[r] = "claimed" /\ \A v \in Runners \ {w} : row[v] # r
  BY <1>1, OnlyHolder
<1>5. /\ pc[w] \notin {"idle", "simulated"} /\ key[w] = r
      /\ pc[w] \in BeforeCall \cup {"accepted"} => result[w] = "none"
      /\ pc[w] \in BeforeCall \/ result[w] \in Definite => Clean(r)
      /\ pc[w] = "accepted" \/ result[w] = "ok" => accepted[r] > 0
      /\ status[r] = "sent" => accepted[r] > 0
  BY <1>1, <1>3 DEF CallTruthful, Truthful
<1>6. /\ \A q \in Rows \ {r} : status'[q] = status[q] /\ accepted'[q] = accepted[q]
      /\ \A v \in Runners \ {w} : pc'[v] = pc[v] /\ key'[v] = key[v] /\ result'[v] = result[v]
      /\ key'[w] = r
      /\ pc'[w] \notin {"idle", "simulated"}
      /\ pc'[w] \in BeforeCall \cup {"accepted"} => result'[w] = "none"
      /\ pc'[w] \in BeforeCall \/ result'[w] \in Definite => Clean(r)'
      /\ pc'[w] = "accepted" \/ result'[w] = "ok" => accepted'[r] > 0
      /\ status'[r] = "sent" => accepted'[r] > 0
  <2> USE DEF Ledger!Goto, Ledger!End, Ledger!Finish, Ledger!Fail, Ledger!Continue, Ledger!SetStatus,
        Ledger!Claimable, Ledger!rowVars, Ledger!callVars, LedgerTyped, BeforeCall, Definite, Clean
  <2>1. CASE Ledger!NoMailbox(w) BY <1>2, <1>5, <2>1 DEF Ledger!NoMailbox
  <2>2. CASE Ledger!PickMailbox(w) BY <1>2, <1>5, <2>2 DEF Ledger!PickMailbox
  <2>3. CASE Ledger!ClaimFresh(w) BY <1>2, <1>5, <2>3 DEF Ledger!ClaimFresh
  <2>4. CASE Ledger!ClaimReplay(w) BY <1>2, <1>5, <2>4 DEF Ledger!ClaimReplay, Ledger!Replayable
  <2>5. CASE Ledger!ClaimRetry(w) BY <1>2, <1>5, <2>5 DEF Ledger!ClaimRetry
  <2>6. CASE Ledger!ClaimBlocked(w) BY <1>2, <1>5, <2>6 DEF Ledger!ClaimBlocked
  <2>7. CASE Ledger!CheckCapacity(w) BY <1>2, <1>5, <2>7 DEF Ledger!CheckCapacity
  <2>8. CASE Ledger!Simulate(w) BY <2>8 DEF Ledger!Simulate
  <2>9. CASE Ledger!ProviderAccepts(w) BY <1>2, <1>5, <2>9 DEF Ledger!ProviderAccepts
  <2>10. CASE Ledger!ProviderFails(w) BY <1>2, <1>5, <2>10 DEF Ledger!ProviderFails
  <2>11. CASE Ledger!MarkSent(w) BY <1>2, <1>5, <2>11 DEF Ledger!MarkSent
  <2>12. CASE Ledger!MarkSentFails(w) BY <1>2, <1>5, <2>12 DEF Ledger!MarkSentFails
  <2>13. CASE Ledger!MarkFailure(w) BY <1>2, <1>5, <2>13 DEF Ledger!MarkFailure, Ledger!FailureStatus
  <2>14. CASE Ledger!MarkFailureFails(w) BY <1>2, <1>5, <2>14 DEF Ledger!MarkFailureFails
  <2> QED
    BY <2>1, <2>2, <2>3, <2>4, <2>5, <2>6, <2>7, <2>8, <2>9, <2>10, <2>11, <2>12, <2>13, <2>14
       DEF Deliver, Ledger!Deliver
<1>7. Truthful(r)' BY <1>2, <1>4, <1>6 DEF Truthful
<1>8. CallTruthful(w)' BY <1>1, <1>2, <1>6 DEF CallTruthful, Clean
<1> QED BY <1>2, <1>4, <1>6, <1>7, <1>8, OutcomesRun

LEMMA OutcomesStep ==
  ASSUME CampaignAssumption, Typed, HoldersOnly, LedgerTyped, Outcomes, [Next]_vars
  PROVE  Outcomes'
<1>1. CASE UNCHANGED vars
  BY <1>1, OutcomesOutside
     DEF vars, campaignVars, runnerVars, ledgerVars, history, OutsideMove
<1>2. ASSUME NEW w \in Runners, Run(w) \/ RunnerEnds(w) PROVE Outcomes'
  BY <1>2, OutcomesMailbox, OutcomesLedger, OutcomesDeliver DEF Run
<1>3. CASE Plan \/ Operate \/ \E r \in Rows : Due(r) \/ DayPasses(r)
  BY <1>3, OutsideSteps, OutcomesOutside DEF Outside
<1>4. CASE Listen BY <1>4, OutsideListen, OutcomesOutside
<1> QED BY <1>1, <1>2, <1>3, <1>4, OutcomesClaim DEF Next

LEMMA LedgerTypedAlways == Spec => []LedgerTyped
<1>1. Proved!Spec => []Proved!TypeOK BY SameAssumption, Proved!DeliveryTypeCorrect
<1>2. Proved!TypeOK => LedgerTyped
  BY DEF Proved!TypeOK, LedgerTyped, Proved!Status, Ledger!Status, Proved!Phase, Ledger!Phase,
     Proved!Result, Ledger!Result
<1> QED BY <1>1, <1>2, SameLedger, PTL

LEMMA OutcomesAlways == Spec => []Outcomes
<1>1. Init => Outcomes
  BY DEF Init, Ledger!Init, Outcomes, Truthful, CallTruthful, Clean
<1>2. Typed /\ HoldersOnly /\ LedgerTyped /\ Outcomes /\ [Next]_vars => Outcomes'
  BY CampaignAssumption, OutcomesStep
<1> QED BY <1>1, <1>2, TypedAlways, HoldersAlways, LedgerTypedAlways, PTL DEF Spec

(* A step booked as failed, which operators may retry and the member moves *)
(* past, was never taken by the provider, unless a human had an unknown    *)
(* outcome retried.                                                        *)
THEOREM CampaignFailuresUnsent == Spec => []KnownFailureIsUnsent
<1>1. Outcomes => KnownFailureIsUnsent
  BY DEF Outcomes, Truthful, Clean, KnownFailureIsUnsent
<1> QED BY <1>1, OutcomesAlways, PTL

(* A step booked as sent was taken by the provider once, or a human who    *)
(* looked said it was sent.                                                *)
THEOREM CampaignSentAccepted == Spec => []SentIsAccepted
<1>1. Outcomes /\ LedgerTyped /\ StepEmailedOnce => SentIsAccepted
  BY DEF Outcomes, LedgerTyped, StepEmailedOnce, Truthful, SentIsAccepted
<1> QED BY <1>1, OutcomesAlways, LedgerTypedAlways, CampaignEmailsOnce, PTL

-----------------------------------------------------------------------------
(* The planner writes what it read before: the outcome it saw still stands,*)
(* and the cursor has not fallen behind.                                   *)
PlanStillTrue ==
    plan.phase # "idle" =>
        /\ plan.step <= cursor[plan.member]
        /\ plan.phase = "write" /\ plan.seen \in {"sent", "failed"} =>
              rowStatus[<<plan.member, plan.step>>] \in {"sent", "failed"}
        /\ plan.phase = "write" /\ plan.seen = "no address" => plan.member \notin Addressed
Unattended == Enabled \subseteq {"linkedin"} /\ move = NoMove /\ verdicts = {}
KnownStay == \A r \in Rows : rowStatus[r] \in {"sent", "failed"} => rowStatus'[r] \in {"sent", "failed"}

LEMMA UnattendedStep == ASSUME Unattended, [Next]_vars PROVE Unattended'
<1>1. NoMove.kind = "none" BY DEF NoMove
<1> QED
  BY <1>1 DEF Unattended, Next, vars, campaignVars, processVars, ClaimNext, Run, RunnerEnds, RunnerDies, SettleThrows, LeaveRow,
     MailboxClosed, Recheck, RetireStaleClaim, CallThrows, EmailIncomplete, ExecuteEmail, Deliver, SettleSuccess, SettleFailed,
     SettleUnknown, Plan, PlanMember, PlanLook, PlanWrite, Operate, Pause, Start, Stop, SkipStep,
     ResumeAtStep, PauseMember, EndMember, MoveRead, ResolveRead, Decides, ResolveRetry, ResolveSent,
     ResolveSkip, RetryFailed, Listen, SuppressRecipient, StopMember, LinkedInReply, FilingEnds, RecordEvent,
     Due, DayPasses

LEMMA KnownOutcomesStay ==
  ASSUME Typed, HoldersOnly, Unattended, [Next]_vars
  PROVE  KnownStay
<1>1. CASE UNCHANGED rowStatus BY <1>1 DEF KnownStay
<1>2. ASSUME NEW w \in Runners, Run(w) \/ RunnerEnds(w) PROVE KnownStay
  <2>1. phase[w] # "idle"
    BY <1>2 DEF Run, MailboxClosed, Recheck, RetireStaleClaim, CallThrows, EmailIncomplete, ExecuteEmail, Deliver,
       SettleSuccess, SettleFailed, SettleUnknown, RunnerEnds, RunnerDies, SettleThrows, LeaveRow
  <2> QED BY <1>2, <2>1, RunWritesItsRow, OnlyHolder DEF KnownStay
<1>3. ASSUME NEW w \in Runners, ClaimNext(w) PROVE KnownStay
  BY <1>3, SetOutside DEF ClaimNext, Claimable, RowStatus, KnownStay
<1>4. CASE Plan
  BY <1>4 DEF Plan, PlanMember, PlanLook, PlanWrite, PlannedRows, KnownStay, Typed, TypeOK
<1>5. CASE Operate
  BY <1>5 DEF Unattended, NoMove, Operate, Pause, Start, Stop, SkipStep, ResumeAtStep,
     PauseMember, EndMember, MoveRead, ResolveRead, Decides, ResolveRetry, ResolveSent, ResolveSkip,
     RetryFailed, KnownStay
<1>6. CASE Listen
  <2>1. ASSUME NEW m \in Members, StopMember(m) PROVE KnownStay
    BY <2>1 DEF StopMember, SkipRows, PlannedStatus, KnownStay
  <2> QED
    BY <1>1, <1>6, <2>1 DEF Listen, SuppressRecipient, LinkedInReply, FilingEnds, RecordEvent
<1>7. ASSUME NEW r \in Rows, Due(r) \/ DayPasses(r) PROVE KnownStay
  <2>1. CASE Due(r) BY <2>1, SetOutside DEF Due, RowStatus, KnownStay
  <2> QED BY <1>1, <1>7, <2>1 DEF DayPasses, campaignVars
<1> QED
  BY <1>1, <1>2, <1>3, <1>4, <1>5, <1>6, <1>7 DEF Next, vars, campaignVars

(* Unattended, the cursor moves by the planner's write or past a row whose *)
(* outcome was just settled.                                               *)
CursorMoves ==
    \/ UNCHANGED cursor
    \/ PlanWrite
    \/ \E r \in Rows : /\ rowStatus'[r] \in {"sent", "failed"} /\ cursor[r[1]] = r[2]
                       /\ cursor' = [cursor EXCEPT ![r[1]] = r[2] + 1]

LEMMA CursorMovesSo ==
  ASSUME Typed, Unattended, [Next]_vars
  PROVE  CursorMoves /\ (~Plan => UNCHANGED plan)
<1> USE DEF memberVars, processVars
<1>1. CASE UNCHANGED vars BY <1>1 DEF vars, campaignVars, CursorMoves
<1>2. ASSUME NEW w \in Runners, ClaimNext(w) \/ Run(w) \/ RunnerEnds(w)
      PROVE  CursorMoves /\ UNCHANGED plan
  <2>1. CASE SettleSuccess(w) \/ SettleFailed(w) \/ EmailIncomplete(w)
    <3>1. row[w] \in Rows BY <2>1 DEF SettleSuccess, SettleFailed, EmailIncomplete, Typed, TypeOK
    <3>2. rowStatus'[row[w]] \in {"sent", "failed"}
      BY <2>1, <3>1, SetOutside DEF SettleSuccess, SettleFailed, EmailIncomplete, RowStatus
    <3>3. Advance(row[w]) /\ UNCHANGED plan
      BY <2>1 DEF SettleSuccess, SettleFailed, EmailIncomplete
    <3> QED BY <3>1, <3>2, <3>3 DEF Advance, Place, CursorMoves
  <2> QED
    BY <1>2, <2>1 DEF ClaimNext, Run, RunnerEnds, RunnerDies, SettleThrows, LeaveRow,
       MailboxClosed, Recheck, RetireStaleClaim, CallThrows, ExecuteEmail, Deliver, SettleUnknown, campaignVars, CursorMoves
<1>3. CASE Plan BY <1>3 DEF Plan, PlanMember, PlanLook, CursorMoves
<1>4. CASE Operate
  BY <1>4 DEF Unattended, NoMove, Operate, Pause, Start, Stop, SkipStep, ResumeAtStep,
     PauseMember, EndMember, MoveRead, ResolveRead, Decides, ResolveRetry, ResolveSent, ResolveSkip,
     RetryFailed
<1>5. CASE Listen
  BY <1>5 DEF Listen, SuppressRecipient, StopMember, LinkedInReply, FilingEnds, RecordEvent, CursorMoves
<1>6. ASSUME NEW r \in Rows, Due(r) \/ DayPasses(r) PROVE CursorMoves /\ UNCHANGED plan
  BY <1>6 DEF Due, DayPasses, campaignVars, CursorMoves
<1> QED BY <1>1, <1>2, <1>3, <1>4, <1>5, <1>6 DEF Next

LEMMA PlanStillTrueStep ==
  ASSUME CampaignAssumption, Typed, HoldersOnly, Unattended, PlanStillTrue, [Next]_vars
  PROVE  PlanStillTrue'
<1>0. CursorMoves /\ (~Plan => UNCHANGED plan) /\ KnownStay BY CursorMovesSo, KnownOutcomesStay
<1>1. CASE PlanWrite BY <1>1 DEF PlanWrite, NoPlan, PlanStillTrue
<1>2. ASSUME NEW m \in Members, PlanMember(m) PROVE PlanStillTrue'
  BY <1>2 DEF PlanMember, memberVars, PlanStillTrue, Typed, TypeOK
<1>3. CASE PlanLook
  <2>1. /\ plan'.phase = "write" /\ plan'.member = plan.member /\ plan'.step = plan.step
        /\ plan'.seen \in {"sent", "failed"} =>
              rowStatus[<<plan.member, plan.step>>] \in {"sent", "failed"}
    BY <1>3 DEF PlanLook, Typed, PlanTyped
  <2>2. plan'.seen = "no address" => plan.member \notin Addressed
    <3>1. plan.member \in Members /\ plan.step \in 1..(Last + 1)
      BY <1>3 DEF PlanLook, Typed, PlanTyped
    <3>2. ~(plan.step > Last) => <<plan.member, plan.step>> \in Rows
      BY <3>1 DEF Rows, CampaignAssumption
    <3>3. ~(plan.step > Last) => rowStatus[<<plan.member, plan.step>>] # "no address"
      BY <3>2 DEF Typed, TypeOK, RowStatus
    <3>4. plan'.seen = IF plan.step > Last THEN "no step"
                       ELSE IF plan.member \in answered THEN "replied"
                       ELSE IF HasNoAddress(plan.member, plan.step) THEN "no address"
                       ELSE rowStatus[<<plan.member, plan.step>>]
      BY <1>3 DEF PlanLook, Typed, PlanTyped
    <3> QED BY <3>3, <3>4 DEF HasNoAddress
  <2> QED BY <1>3, <2>1, <2>2 DEF PlanLook, memberVars, PlanStillTrue
<1>4. CASE ~Plan /\ plan.phase # "idle"
  <2>1. UNCHANGED plan /\ ~PlanWrite BY <1>0, <1>4 DEF Plan
  <2>2. plan.member \in Members /\ plan.step \in 1..(Last + 1)
    BY <1>4 DEF Typed, PlanTyped
  <2>3. plan.step <= cursor'[plan.member]
    <3>1. CASE UNCHANGED cursor BY <1>4, <3>1 DEF PlanStillTrue
    <3>2. ASSUME NEW r \in Rows, cursor[r[1]] = r[2],
                 cursor' = [cursor EXCEPT ![r[1]] = r[2] + 1]
          PROVE  plan.step <= cursor'[plan.member]
      <4>1. plan.step <= cursor[plan.member] BY <1>4 DEF PlanStillTrue
      <4>2. cursor \in [Members -> 1..(Last + 1)] /\ Last \in Nat
        BY DEF Typed, TypeOK, CampaignAssumption
      <4>3. r[1] \in Members /\ r[2] \in 1..Last BY DEF Rows
      <4>4. CASE r[1] = plan.member BY <2>2, <3>2, <4>1, <4>2, <4>3, <4>4
      <4>5. CASE r[1] # plan.member BY <2>2, <3>2, <4>1, <4>2, <4>3, <4>5
      <4> QED BY <4>4, <4>5
    <3> QED BY <1>0, <2>1, <3>1, <3>2 DEF CursorMoves
  <2>4. plan.phase = "write" /\ plan.seen \in {"sent", "failed"} => <<plan.member, plan.step>> \in Rows
    BY <2>2 DEF Typed, PlanTyped, RowStatus, Rows
  <2> QED BY <1>0, <1>4, <2>1, <2>3, <2>4 DEF KnownStay, PlanStillTrue
<1>5. CASE ~Plan /\ plan.phase = "idle" BY <1>0, <1>5 DEF PlanStillTrue
<1> QED BY <1>1, <1>2, <1>3, <1>4, <1>5 DEF Plan

LEMMA CursorStep ==
  ASSUME CampaignAssumption, Typed, HoldersOnly, Unattended, PlanStillTrue, [Next]_vars,
         NEW m \in Members, cursor'[m] > cursor[m], memberStatus'[m] \in {"waiting", "completed"}
  PROVE  rowStatus'[<<m, cursor[m]>>] \in {"sent", "failed"} \/ m \notin Addressed
<1>0. CursorMoves /\ KnownStay BY CursorMovesSo, KnownOutcomesStay
<1>1. cursor[m] \in 1..(Last + 1) /\ cursor \in [Members -> 1..(Last + 1)]
      /\ memberStatus \in [Members -> MemberStatus]
  BY DEF Typed, TypeOK
<1>2. ASSUME NEW r \in Rows, rowStatus'[r] \in {"sent", "failed"}, cursor[r[1]] = r[2],
             cursor' = [cursor EXCEPT ![r[1]] = r[2] + 1]
      PROVE  rowStatus'[<<m, cursor[m]>>] \in {"sent", "failed"}
  <2>1. r[1] = m BY <1>1, <1>2 DEF CampaignAssumption
  <2>2. r = <<m, cursor[m]>> BY <1>2, <2>1 DEF Rows
  <2> QED BY <1>2, <2>2
<1>3. CASE PlanWrite
  <2>1. plan.phase = "write" /\ plan.step <= cursor[plan.member]
    BY <1>3 DEF PlanWrite, PlanStillTrue
  <2>2. plan.member \in Members /\ plan.step \in 1..(Last + 1)
    BY <2>1 DEF Typed, PlanTyped
  <2>3. m = plan.member
    <3>1. \A t : \A p \in Members, i \in Nat : Place(p, i, t) /\ p # m => cursor'[m] = cursor[m]
      BY <1>1 DEF Place
    <3>2. plan.step \in Nat /\ plan.step + 1 \in Nat /\ Last + 1 \in Nat /\ cursor'[m] # cursor[m]
      BY <1>1, <2>2 DEF CampaignAssumption
    <3> QED BY <1>3, <2>2, <3>1, <3>2 DEF PlanWrite, memberVars
  <2>4. plan.seen # "replied"
    <3>1. SUFFICES ASSUME plan.seen = "replied" PROVE FALSE OBVIOUS
    <3>2. memberStatus'[m] = "replied" BY <1>1, <1>3, <2>3, <3>1 DEF PlanWrite, Place
    <3> QED BY <3>2
  <2>5. plan.seen \in {"sent", "failed", "no address"} /\ cursor'[m] = plan.step + 1
    <3>1. \A t : \A i \in Nat : Place(m, i, t) => cursor'[m] = i BY <1>1 DEF Place
    <3>2. plan.step \in Nat /\ cursor'[m] # plan.step /\ cursor'[m] # cursor[m]
      BY <1>1, <2>1, <2>2, <2>3 DEF CampaignAssumption
    <3>3. /\ plan.seen \in {"sent", "failed", "no address"}
          /\ Place(m, plan.step + 1, StatusAt(plan.step + 1))
      <4>1. ~Place(m, plan.step, "completed") /\ ~Place(m, plan.step, "waiting")
            /\ ~UNCHANGED memberVars
        BY <3>1, <3>2 DEF memberVars
      <4>2. CASE plan.seen \in {"sent", "failed", "no address"}
        BY <1>3, <2>3, <4>2 DEF PlanWrite
      <4>3. CASE plan.seen \notin {"sent", "failed", "no address"}
        BY <1>3, <2>3, <2>4, <4>1, <4>3 DEF PlanWrite
      <4> QED BY <4>2, <4>3
    <3>4. plan.step + 1 \in Nat BY <3>2
    <3> QED BY <3>1, <3>3, <3>4
  <2>6. cursor[m] = plan.step
    <3>1. cursor[m] \in Nat /\ plan.step \in Nat BY <1>1, <2>2 DEF CampaignAssumption
    <3>2. plan.step <= cursor[m] /\ plan.step + 1 > cursor[m] BY <2>1, <2>3, <2>5
    <3> QED BY <3>1, <3>2
  <2>7. CASE plan.seen = "no address" BY <2>1, <2>3, <2>7 DEF PlanStillTrue
  <2>8. CASE plan.seen \in {"sent", "failed"}
    <3>1. <<m, cursor[m]>> \in Rows /\ rowStatus[<<m, cursor[m]>>] \in {"sent", "failed"}
      BY <2>1, <2>2, <2>3, <2>4, <2>6, <2>8 DEF PlanStillTrue, Typed, PlanTyped,
         RowStatus, Rows
    <3> QED BY <1>0, <3>1 DEF KnownStay
  <2> QED BY <2>5, <2>7, <2>8
<1> QED BY <1>0, <1>1, <1>2, <1>3 DEF CursorMoves, CampaignAssumption

(* As long as no operator intervenes, the cursor of a member with an email *)
(* address leaves a step only when its email has a known outcome, although *)
(* the planner writes what it read two statements earlier, and replies     *)
(* arrive in the meantime.                                                 *)
THEOREM CampaignCursorWaits ==
  ASSUME Enabled \subseteq {"linkedin"}
  PROVE  Spec => CursorWaitsForOutcome
<1>1. Init => Unattended /\ PlanStillTrue
  BY DEF Init, Unattended, PlanStillTrue, NoPlan
<1>2. Typed /\ HoldersOnly /\ Unattended /\ PlanStillTrue /\ [Next]_vars
        => Unattended' /\ PlanStillTrue'
  BY CampaignAssumption, UnattendedStep, PlanStillTrueStep
<1>3. Typed /\ HoldersOnly /\ Unattended /\ PlanStillTrue /\ [Next]_vars =>
        [\A m \in Members :
           cursor'[m] > cursor[m] /\ memberStatus'[m] \in {"waiting", "completed"} =>
             rowStatus'[<<m, cursor[m]>>] \in {"sent", "failed"} \/ m \notin Addressed]_vars
  BY CampaignAssumption, CursorStep
<1> QED BY <1>1, <1>2, <1>3, TypedAlways, HoldersAlways, PTL DEF Spec, CursorWaitsForOutcome
=============================================================================
