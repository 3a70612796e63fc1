------------------------ MODULE ApprovedEmailProofs ------------------------
(***************************************************************************)
(* The engine and the ledger together: each is used by its own protocol, so*)
(* everything proved of each holds of both, and from the two follows what  *)
(* neither says alone: what is emailed was approved, and what counts as    *)
(* done was emailed.                                                       *)
(***************************************************************************)
EXTENDS ApprovedEmail, PlaybookAttemptsProofs

(* What is proved of the ledger, with the approved payloads for its keys.  *)
Proved == INSTANCE EmailDeliveryProofs WITH
    Keys <- Emails, Workers <- Advancers,
    status <- delivery, pc <- mail, MaxLeft <- MaxFaults

LedgerStep == [Ledger!Next]_(Ledger!deliveryVars)

(* Every step of the two is a step of the engine, or none of its own.      *)
LEMMA EngineSteps == ASSUME [SystemNext]_systemVars PROVE [Next]_vars
<1>1. CASE UNCHANGED systemVars BY <1>1 DEF systemVars
<1>2. CASE EngineWorks BY <1>2 DEF EngineWorks, Next, Advance
<1>3. CASE Elsewhere BY <1>3 DEF Elsewhere
<1>4. ASSUME NEW a \in Advancers,
             RefusePayload(a) \/ SendEmail(a) \/ Deliver(a) \/ EmailReturns(a) \/ CallDies(a)
      PROVE  [Next]_vars
  BY <1>4 DEF RefusePayload, SendEmail, Deliver, EmailReturns, CallDies, Next, Advance
<1> QED BY <1>1, <1>2, <1>3, <1>4 DEF SystemNext

(* A step of the system that is none of the ledger's.                      *)
LEMMA LedgerRests == ASSUME UNCHANGED emailVars PROVE LedgerStep
BY DEF LedgerStep, emailVars, Ledger!deliveryVars, Ledger!rowVars, Ledger!callVars

LEMMA LedgerSteps == ASSUME TypeOK, [SystemNext]_systemVars PROVE LedgerStep
<1>1. CASE UNCHANGED systemVars BY <1>1, LedgerRests DEF systemVars
<1>2. CASE EngineWorks BY <1>2, LedgerRests DEF EngineWorks
<1>3. CASE Elsewhere BY <1>3 DEF Elsewhere, LedgerStep, Ledger!Next, Ledger!Environment
<1>4. ASSUME NEW a \in Advancers, RefusePayload(a) PROVE LedgerStep
  BY <1>4, LedgerRests DEF RefusePayload
<1>5. ASSUME NEW a \in Advancers, SendEmail(a) PROVE LedgerStep
  <2>1. PayloadHash(payload[a]) \in Emails
    BY <1>5 DEF SendEmail, TypeOK, CallsOK, Content, Emails
  <2> QED BY <1>5, <2>1 DEF SendEmail, LedgerStep, Ledger!Next
<1>6. ASSUME NEW a \in Advancers, Deliver(a) \/ EmailReturns(a) PROVE LedgerStep
  BY <1>6 DEF Deliver, EmailReturns, LedgerStep, Ledger!Next
<1>7. ASSUME NEW a \in Advancers, CallDies(a) PROVE LedgerStep
  BY <1>7, LedgerRests DEF CallDies, LedgerStep, Ledger!Next, Ledger!Environment
<1> QED BY <1>1, <1>2, <1>3, <1>4, <1>5, <1>6, <1>7 DEF SystemNext

(* The engine is used by its protocol: what is proved of PlaybookEngine    *)
(* holds while its provider calls take as long as the ledger's do.         *)
THEOREM SystemUsesTheEngine == SystemSpec => UsesTheEngine
<1>1. SystemInit => Init BY DEF SystemInit
<1>2. [SystemNext]_systemVars => [Next]_vars BY EngineSteps
<1> QED BY <1>1, <1>2, PTL DEF SystemSpec, UsesTheEngine, Spec

(* The ledger is used by its protocol, whatever leases, founders and       *)
(* crashes do to the callers.                                              *)
THEOREM SystemUsesTheLedger == SystemSpec => UsesTheLedger
<1>1. SystemInit => Ledger!Init BY DEF SystemInit
<1>2. TypeOK /\ [SystemNext]_systemVars => [Ledger!Next]_(Ledger!deliveryVars)
  BY LedgerSteps DEF LedgerStep
<1>3. SystemSpec => []TypeOK
  BY SystemUsesTheEngine, PlaybookTypeCorrect DEF UsesTheEngine
<1> QED BY <1>1, <1>2, <1>3, PTL DEF SystemSpec, UsesTheLedger, Ledger!Spec

-----------------------------------------------------------------------------
(* The two instances of the ledger are one specification.                  *)
LEMMA SameLeave ==
  ASSUME NEW w \in Advancers, Ledger!LeaveClaim(w)
  PROVE  Proved!LeaveClaim(w)
<1>1. \A S : Ledger!Cardinality(S) = Proved!Cardinality(S)
  BY Zenon DEF Ledger!Cardinality, Proved!Cardinality
<1> QED BY <1>1 DEF Ledger!LeaveClaim, Proved!LeaveClaim

LEMMA SameDelivery ==
  ASSUME NEW w \in Advancers, Ledger!Deliver(w)
  PROVE  Proved!Deliver(w)
<1> USE DEF Ledger!Goto, Proved!Goto, Ledger!End, Proved!End, Ledger!Finish, Proved!Finish,
   Ledger!Fail, Proved!Fail, Ledger!Continue, Proved!Continue, Ledger!SetStatus,
   Proved!SetStatus, Ledger!Claimable, Proved!Claimable, Ledger!SameContext, Proved!SameContext,
   Ledger!Replayable, Proved!Replayable, Ledger!Retryable, Proved!Retryable, Ledger!rowVars,
   Proved!rowVars, Ledger!callVars, Proved!callVars, Ledger!SourceIsFree, Proved!SourceIsFree
<1>1. Ledger!NoMailbox(w) => Proved!NoMailbox(w) BY DEF Ledger!NoMailbox, Proved!NoMailbox
<1>2. Ledger!PickMailbox(w) => Proved!PickMailbox(w)
  BY DEF Ledger!PickMailbox, Proved!PickMailbox
<1>3. Ledger!ClaimFresh(w) => Proved!ClaimFresh(w) BY DEF Ledger!ClaimFresh, Proved!ClaimFresh
<1>4. Ledger!ClaimReplay(w) => Proved!ClaimReplay(w)
  BY DEF Ledger!ClaimReplay, Proved!ClaimReplay
<1>5. Ledger!ClaimRetry(w) => Proved!ClaimRetry(w) BY DEF Ledger!ClaimRetry, Proved!ClaimRetry
<1>6. Ledger!ClaimBlocked(w) => Proved!ClaimBlocked(w)
  BY DEF Ledger!ClaimBlocked, Proved!ClaimBlocked
<1>7. Ledger!CheckCapacity(w) => Proved!CheckCapacity(w)
  <2>1. \A c : Ledger!SentToday(c) = Proved!SentToday(c)
    BY DEF Ledger!SentToday, Proved!SentToday
  <2>2. \A S : Ledger!Cardinality(S) = Proved!Cardinality(S)
    BY Zenon DEF Ledger!Cardinality, Proved!Cardinality
  <2>3. Ledger!CapReached(w) <=> Proved!CapReached(w)
    BY <2>1, <2>2 DEF Ledger!CapReached, Proved!CapReached
  <2> QED BY <2>3 DEF Ledger!CheckCapacity, Proved!CheckCapacity
<1>8. Ledger!Simulate(w) => Proved!Simulate(w) BY DEF Ledger!Simulate, Proved!Simulate
<1>9. Ledger!ProviderAccepts(w) => Proved!ProviderAccepts(w)
  BY DEF Ledger!ProviderAccepts, Proved!ProviderAccepts
<1>10. Ledger!ProviderFails(w) => Proved!ProviderFails(w)
  BY DEF Ledger!ProviderFails, Proved!ProviderFails
<1>11. Ledger!MarkSent(w) => Proved!MarkSent(w) BY DEF Ledger!MarkSent, Proved!MarkSent
<1>12. Ledger!MarkSentFails(w) => Proved!MarkSentFails(w)
  BY SameLeave DEF Ledger!MarkSentFails, Proved!MarkSentFails
<1>13. Ledger!MarkFailure(w) => Proved!MarkFailure(w)
  BY DEF Ledger!MarkFailure, Proved!MarkFailure, Ledger!FailureStatus, Proved!FailureStatus
<1>14. Ledger!MarkFailureFails(w) => Proved!MarkFailureFails(w)
  BY SameLeave DEF Ledger!MarkFailureFails, Proved!MarkFailureFails
<1> QED
  BY <1>1, <1>2, <1>3, <1>4, <1>5, <1>6, <1>7, <1>8, <1>9, <1>10, <1>11, <1>12, <1>13, <1>14
     DEF Ledger!Deliver, Proved!Deliver

LEMMA SameStep == ASSUME LedgerStep PROVE [Proved!Next]_(Proved!deliveryVars)
<1> USE DEF Ledger!rowVars, Proved!rowVars, Ledger!callVars, Proved!callVars
<1>1. CASE UNCHANGED Ledger!deliveryVars BY <1>1 DEF Ledger!deliveryVars, Proved!deliveryVars
<1>2. ASSUME NEW w \in Advancers, Ledger!Deliver(w) PROVE Proved!Next
  BY <1>2, SameDelivery DEF Proved!Next
<1>3. ASSUME NEW w \in Advancers, Ledger!Return(w) PROVE Proved!Next
  <2>1. Proved!Return(w)
    BY <1>3 DEF Ledger!Return, Proved!Return, Ledger!Forget, Proved!Forget
  <2> QED BY <2>1 DEF Proved!Next
<1>4. ASSUME NEW w \in Advancers, NEW k \in Emails, Ledger!Begin(w, k) PROVE Proved!Next
  <2>1. Proved!Begin(w, k)
    BY <1>4 DEF Ledger!Begin, Proved!Begin, Ledger!End, Proved!End, Ledger!Goto, Proved!Goto
  <2> QED BY <2>1 DEF Proved!Next
<1>5. ASSUME NEW k \in Emails, Ledger!Suppress(k) PROVE Proved!Next
  <2>1. Proved!Suppress(k) BY <1>5 DEF Ledger!Suppress, Proved!Suppress
  <2> QED BY <2>1 DEF Proved!Next, Proved!Environment
<1>6. ASSUME NEW k \in Emails, Ledger!DayPasses(k) PROVE Proved!Next
  <2>1. Proved!DayPasses(k) BY <1>6 DEF Ledger!DayPasses, Proved!DayPasses
  <2> QED BY <2>1 DEF Proved!Next, Proved!Environment
<1>7. ASSUME NEW w \in Advancers, Ledger!Crash(w) PROVE Proved!Next
  <2>1. Proved!Crash(w)
    BY <1>7, SameLeave DEF Ledger!Crash, Proved!Crash, Ledger!Forget, Proved!Forget,
       Ledger!Owning, Proved!Owning
  <2> QED BY <2>1 DEF Proved!Next, Proved!Environment
<1> QED
  BY <1>1, <1>2, <1>3, <1>4, <1>5, <1>6, <1>7 DEF LedgerStep, Ledger!Next, Ledger!Environment

LEMMA SameLedger == SystemSpec => Proved!Spec
<1>1. Ledger!Init => Proved!Init BY DEF Ledger!Init, Proved!Init
<1>2. [Ledger!Next]_(Ledger!deliveryVars) => [Proved!Next]_(Proved!deliveryVars)
  BY SameStep DEF LedgerStep
<1> QED
  BY <1>1, <1>2, SystemUsesTheLedger, PTL DEF UsesTheLedger, Ledger!Spec, Proved!Spec

LEMMA SameAssumption == Proved!DeliveryAssumption
BY EmailAssumption DEF Ledger!DeliveryAssumption, Proved!DeliveryAssumption
-----------------------------------------------------------------------------
(* What engine and ledger know of each other.  A caller inside the ledger  *)
(* asks for the very payload its step was authorised for; a caller that    *)
(* goes on to complete its step, and a completed action, sent theirs.      *)
AsksForItsPayload == \A a \in Advancers : mail[a] # "idle" =>
    pc[a] = "call" /\ payload[a] \in Payloads /\ key[a] = PayloadHash(payload[a])
FinishesTold == \A a \in Advancers : pc[a] = "finish" =>
    payload[a] \in Payloads /\ PayloadHash(payload[a]) \in told
CompletedTold == \A s \in Steps, n \in Attempts :
    Kind[s] = "action" /\ status[s][n] = "completed" =>
        data[s][n] \in Payloads /\ PayloadHash(data[s][n]) \in told
ActionsNeverWait == \A s \in Steps, n \in Attempts :
    status[s][n] = "waiting_approval" => Kind[s] # "action"
OnlyApprovalsArePlaced == \A a \in Advancers : pc[a] = "place" => Kind[step[a]] = "approval"

Between ==
    /\ AsksForItsPayload /\ FinishesTold /\ CompletedTold /\ ActionsNeverWait
    /\ OnlyApprovalsArePlaced
    /\ EmailedHashes \subseteq ApprovedHashes

(* The two inductive invariants this one stands on.                        *)
Parts == BoundaryInv /\ Proved!DeliveryInv /\ Proved!AnswersAreTold

LEMMA PartsAlways == SystemSpec => []Parts
<1>1. SystemSpec => []BoundaryInv
  BY SystemUsesTheEngine, BoundaryHolds DEF UsesTheEngine
<1>2. Proved!Spec => []Proved!DeliveryInv BY SameAssumption, Proved!Invariance
<1>3. Proved!Spec => []Proved!AnswersAreTold BY SameAssumption, Proved!DeliveryAnswersAreTold
<1> QED BY <1>1, <1>2, <1>3, SameLedger, PTL DEF Parts

(* Decisions are never taken back.                                         *)
LEMMA ApprovalsStay ==
  ASSUME TypeOK, [Next]_vars
  PROVE  approvals \subseteq approvals' /\ ApprovedHashes \subseteq ApprovedHashes'
<1>1. approvals \subseteq approvals' BY NewDecisions
<1> QED BY <1>1 DEF ApprovedHashes

(* What a step of the engine does to the rows of actions.                  *)
Keeps(s, n) ==
    /\ status'[s][n] = "waiting_approval" => status[s][n] = "waiting_approval" \/ Kind[s] # "action"
    /\ Kind[s] = "action" /\ status'[s][n] = "completed" =>
          \/ status[s][n] = "completed" /\ data'[s][n] = data[s][n]
          \/ \E a \in Advancers : pc[a] = "finish" /\ data'[s][n] = payload[a]

LEMMA ActionRows ==
  ASSUME BoundaryInv, ActionsNeverWait, OnlyApprovalsArePlaced, [Next]_vars,
         NEW s \in Steps, NEW n \in Attempts
  PROVE  Keeps(s, n)
<1>0. TypeOK /\ PhaseFitsKind BY DEF BoundaryInv, Boundary
<1>r. /\ status \in [Steps -> [Attempts -> StepStatus]]
      /\ data \in [Steps -> [Attempts -> Content]]
  BY <1>0 DEF TypeOK, RowsOK
<1>s. ASSUME status'[s][n] = status[s][n] \/ status'[s][n] \notin {"waiting_approval", "completed"},
             data'[s][n] = data[s][n]
      PROVE  Keeps(s, n)
  BY <1>s DEF Keeps
<1>k. ASSUME Kind[s] # "action" PROVE Keeps(s, n) BY <1>k DEF Keeps
<1>1. CASE UNCHANGED <<status, data>> BY <1>1, <1>s
<1>2. ASSUME NEW a \in Advancers, NEW st, st \notin {"waiting_approval", "completed"},
             Mark(step[a], attempt[a], st), UNCHANGED data
      PROVE  Keeps(s, n)
  <2>1. status'[s][n] = status[s][n] \/ status'[s][n] = st BY <1>2, <1>r DEF Mark
  <2> QED BY <2>1, <1>2, <1>s
<1>3. ASSUME NEW a \in Advancers, Kind[step[a]] # "action",
             UNCHANGED status \/ \E st : Mark(step[a], attempt[a], st),
             UNCHANGED data \/ \E p : data' = [data EXCEPT ![step[a]][attempt[a]] = p]
      PROVE  Keeps(s, n)
  <2>1. CASE s = step[a] BY <2>1, <1>3, <1>k
  <2>2. CASE s # step[a]
    <3>1. status'[s] = status[s] BY <2>2, <1>3, <1>r DEF Mark
    <3>2. data'[s] = data[s] BY <2>2, <1>3, <1>r
    <3> QED BY <3>1, <3>2, <1>s
  <2> QED BY <2>1, <2>2
<1>4. ASSUME NEW a \in Advancers, pc[a] \in OnStep
      PROVE  step[a] \in Steps /\ attempt[a] \in Attempts
  BY <1>0, <1>4 DEF TypeOK, CallsOK
<1>5. ASSUME NEW a \in Advancers, ScheduleRetry(a) PROVE Keeps(s, n)
  <2>1. \/ status'[s][n] = status[s][n]
        \/ status'[s][n] \in {"failed", "delayed", "pending"}
    BY <1>5, <1>r DEF ScheduleRetry, PlaceRetry, RetryAborts, RetryStatus, stepVars
  <2> QED BY <2>1, <1>5, <1>s DEF ScheduleRetry, PlaceRetry, RetryAborts, stepVars
<1>6. ASSUME NEW a \in Advancers, Work(a) PROVE Keeps(s, n)
  <2> USE DEF stepVars
  <2>1. CASE RecoverStaleSteps(a)
    <3>1. status'[s][n] = status[s][n] \/ status'[s][n] = "pending" BY <2>1 DEF RecoverStaleSteps
    <3> QED BY <3>1, <2>1, <1>s DEF RecoverStaleSteps
  <2>2. CASE ClaimStep(a) BY <1>2, <2>2 DEF ClaimStep
  <2>3. CASE WaitForApproval(a)
    <3>1. Kind[step[a]] # "action" BY <2>3 DEF WaitForApproval, OnlyApprovalsArePlaced
    <3> QED BY <3>1, <2>3, <1>3 DEF WaitForApproval, PlaceBehindApproval
  <2>4. CASE SkillBehindApproval(a) \/ SkillCompletes(a)
    <3>1. Kind[step[a]] # "action"
      BY <1>0, <2>4 DEF SkillBehindApproval, SkillCompletes, PhaseFitsKind
    <3>2. /\ \E st : Mark(step[a], attempt[a], st)
          /\ \E p : data' = [data EXCEPT ![step[a]][attempt[a]] = p]
      BY <2>4 DEF SkillBehindApproval, SkillCompletes, PlaceBehindApproval, CompleteStep
    <3> QED BY <3>1, <3>2, <1>3
  <2>5. CASE SkillRetries(a) \/ ActionRetries(a) BY <1>5, <2>5 DEF SkillRetries, ActionRetries
  <2>6. CASE SkillFails(a) \/ ActionRefused(a) \/ ActionFails(a)
    BY <1>2, <2>6 DEF SkillFails, ActionRefused, ActionFails, FailStep
  <2>7. CASE ActionCompletes(a)
    <3>1. pc[a] = "finish" /\ step[a] \in Steps /\ attempt[a] \in Attempts
      BY <1>4, <2>7 DEF ActionCompletes, OnStep, Working
    <3>2. CASE s = step[a] /\ n = attempt[a]
      <4>1. data'[s][n] = payload[a] /\ status'[s][n] = "completed"
        BY <2>7, <3>2, <1>r DEF ActionCompletes, CompleteStep, Mark
      <4> QED BY <4>1, <3>1 DEF Keeps
    <3>3. CASE ~(s = step[a] /\ n = attempt[a])
      <4>1. data'[s][n] = data[s][n] /\ status'[s][n] = status[s][n]
        BY <2>7, <3>3, <1>r DEF ActionCompletes, CompleteStep, Mark
      <4> QED BY <4>1, <1>s
    <3> QED BY <3>2, <3>3
  <2> QED
    BY <1>1, <1>6, <2>1, <2>2, <2>3, <2>4, <2>5, <2>6, <2>7 DEF Work, ReadRun, SeeWaiting, SeeFailed,
       SeeReady, SeeNoneReady, SetWaiting, SetQueued, FailRun, CompleteRun, ClaimLost, SetRunning,
       RefreshSkill, RefreshApproval, RefreshAction, ActionAuthorised
<1>7. ASSUME NEW a \in Advancers, Founder(a) PROVE Keeps(s, n)
  <2>1. CASE Approve(a) \/ Reject(a) \/ EditBody(a)
    <3>1. status[step[a]][attempt[a]] = "waiting_approval" /\ pc[a] = "decide"
      BY <2>1 DEF Approve, Reject, EditBody, Undisturbed
    <3>2. Kind[step[a]] # "action" BY <3>1, <1>4 DEF ActionsNeverWait, OnStep
    <3>3. UNCHANGED status \/ \E st : Mark(step[a], attempt[a], st)
      BY <2>1 DEF Approve, Reject, EditBody
    <3>4. UNCHANGED data \/ \E p : data' = [data EXCEPT ![step[a]][attempt[a]] = p]
      BY <2>1 DEF Approve, Reject, EditBody, Decide
    <3> QED BY <1>3, <3>2, <3>3, <3>4
  <2> QED BY <1>1, <1>7, <2>1 DEF Founder, Answer, DecideRead, DecideConflict, stepVars
<1>8. ASSUME NEW a \in Advancers, StartRun(a) \/ Sweep(a) \/ Crash(a) \/ CallProvider(a)
      PROVE  Keeps(s, n)
  <2>1. CASE StartRun(a)
    <3>1. status'[s][n] = status[s][n] \/ status'[s][n] = "pending"
      BY <2>1, <1>r DEF StartRun
    <3> QED BY <3>1, <2>1, <1>s DEF StartRun
  <2> QED BY <1>1, <1>8, <2>1 DEF Sweep, Crash, CallProvider, stepVars
<1>9. CASE Time
  <2>1. status'[s][n] = status[s][n] \/ status'[s][n] \in {"pending", "expired"}
    BY <1>9, <1>r DEF Time, LeaseExpires, RetryDue, Mark
  <2> QED BY <2>1, <1>9, <1>s DEF Time, LeaseExpires, RetryDue
<1> QED BY <1>1, <1>6, <1>7, <1>8, <1>9 DEF Next, Advance, vars, stepVars

(* What a step of the engine does to a caller: nobody but the provider's   *)
(* answer, or death, takes it out of its call.                             *)
SameCall(a) == pc'[a] = pc[a] /\ payload'[a] = payload[a] /\ step'[a] = step[a]
Follows(a) ==
    /\ pc[a] = "call" => SameCall(a)
    /\ pc'[a] = "finish" => SameCall(a)
    /\ pc'[a] = "place" => SameCall(a) \/ Kind[step'[a]] = "approval"

LEMMA Bystanders ==
  ASSUME TypeOK, NEW b \in Advancers,
         StartRun(b) \/ Sweep(b) \/ Advance(b) \/ Founder(b) \/ Crash(b),
         NEW a \in Advancers, a # b
  PROVE  SameCall(a)
<1> USE DEF TypeOK, CallsOK, SameCall, Goto, Enter, Take, Return, Loop, memory, History, Bounds
<1>1. CASE StartRun(b) \/ Sweep(b) \/ Crash(b) BY <1>1 DEF StartRun, Sweep, Crash
<1>2. CASE Founder(b)
  BY <1>2 DEF Founder, Answer, DecideRead, Approve, Reject, EditBody, DecideConflict
<1>3. CASE CallProvider(b) BY <1>3 DEF CallProvider
<1>4. CASE RecoverStaleSteps(b) \/ ReadRun(b) \/ SeeWaiting(b) \/ SeeFailed(b) \/ SeeReady(b)
           \/ SeeNoneReady(b)
  BY <1>4 DEF RecoverStaleSteps, ReadRun, SeeWaiting, SeeFailed, SeeReady, SeeNoneReady
<1>5. CASE SetWaiting(b) \/ SetQueued(b) \/ FailRun(b) \/ CompleteRun(b) \/ ClaimStep(b)
           \/ ClaimLost(b) \/ SetRunning(b)
  BY <1>5 DEF SetWaiting, SetQueued, FailRun, CompleteRun, ClaimStep, ClaimLost, SetRunning
<1>6. CASE RefreshSkill(b) \/ RefreshApproval(b) \/ RefreshAction(b) \/ ActionAuthorised(b)
  BY <1>6 DEF RefreshSkill, RefreshApproval, RefreshAction, ActionAuthorised, ResolvePayload
<1>7. CASE WaitForApproval(b) \/ SkillBehindApproval(b) \/ SkillCompletes(b) \/ ActionCompletes(b)
  BY <1>7 DEF WaitForApproval, SkillBehindApproval, SkillCompletes, ActionCompletes,
     PlaceBehindApproval, CompleteStep
<1>8. CASE SkillRetries(b) \/ ActionRetries(b) \/ SkillFails(b) \/ ActionRefused(b) \/ ActionFails(b)
  BY <1>8 DEF SkillRetries, ActionRetries, SkillFails, ActionRefused, ActionFails, FailStep,
     ScheduleRetry, PlaceRetry, RetryAborts
<1> QED BY <1>1, <1>2, <1>3, <1>4, <1>5, <1>6, <1>7, <1>8 DEF Advance, Work

LEMMA CallersFollow ==
  ASSUME TypeOK, Time \/ \E b \in Advancers : StartRun(b) \/ Sweep(b) \/ Work(b) \/ Founder(b),
         NEW a \in Advancers
  PROVE  Follows(a)
<1>0. SameCall(a) => Follows(a) BY DEF Follows, SameCall
<1>1. CASE Time BY <1>0, <1>1 DEF Time, LeaseExpires, RetryDue, memory, SameCall
<1>2. ASSUME NEW b \in Advancers, StartRun(b) \/ Sweep(b) \/ Work(b) \/ Founder(b) PROVE Follows(a)
  <2>1. CASE a # b BY <1>0, <1>2, <2>1, Bystanders DEF Advance
  <2>2. CASE a = b
    <3> USE <2>2 DEF TypeOK, CallsOK, Follows, Goto, Enter, Take, Return, Loop, memory, History, Bounds
    <3>1. CASE StartRun(b) \/ Sweep(b) BY <3>1 DEF StartRun, Sweep
    <3>2. CASE Founder(b)
      BY <3>2 DEF Founder, Answer, DecideRead, Approve, Reject, EditBody, DecideConflict
    <3>3. CASE RecoverStaleSteps(b) \/ ReadRun(b) \/ SeeWaiting(b) \/ SeeFailed(b) \/ SeeReady(b)
               \/ SeeNoneReady(b)
      BY <3>3 DEF RecoverStaleSteps, ReadRun, SeeWaiting, SeeFailed, SeeReady, SeeNoneReady
    <3>4. CASE SetWaiting(b) \/ SetQueued(b) \/ FailRun(b) \/ CompleteRun(b) \/ ClaimStep(b)
               \/ ClaimLost(b) \/ SetRunning(b)
      BY <3>4 DEF SetWaiting, SetQueued, FailRun, CompleteRun, ClaimStep, ClaimLost, SetRunning
    <3>5. CASE RefreshSkill(b) \/ RefreshAction(b) \/ ActionAuthorised(b)
      BY <3>5 DEF RefreshSkill, RefreshAction, ActionAuthorised
    <3>6. CASE RefreshApproval(b) BY <3>6 DEF RefreshApproval
    <3>7. CASE WaitForApproval(b) \/ SkillBehindApproval(b) \/ SkillCompletes(b) \/ ActionCompletes(b)
      BY <3>7 DEF WaitForApproval, SkillBehindApproval, SkillCompletes, ActionCompletes,
         PlaceBehindApproval, CompleteStep
    <3>8. CASE SkillRetries(b) \/ ActionRetries(b) \/ SkillFails(b) \/ ActionRefused(b) \/ ActionFails(b)
      BY <3>8 DEF SkillRetries, ActionRetries, SkillFails, ActionRefused, ActionFails, FailStep,
         ScheduleRetry, PlaceRetry, RetryAborts
    <3> QED BY <1>2, <3>1, <3>2, <3>3, <3>4, <3>5, <3>6, <3>7, <3>8 DEF Work
  <2> QED BY <2>1, <2>2
<1> QED BY <1>1, <1>2

(* Only a caller inside its provider call adds to what was accepted.       *)
LEMMA NewlyEmailed ==
  ASSUME Proved!TypeOK, [Proved!Next]_(Proved!deliveryVars), NEW k \in Emails,
         accepted'[k] > 0, ~(accepted[k] > 0)
  PROVE  \E w \in Advancers : mail[w] = "call" /\ key[w] = k
<1> USE DEF Proved!TypeOK, Proved!rowVars, Proved!callVars, Proved!deliveryVars
<1>1. PICK w \in Advancers : Proved!ProviderAccepts(w)
  BY DEF Proved!Next, Proved!Environment, Proved!Deliver, Proved!Begin, Proved!Return, Proved!NoMailbox,
     Proved!PickMailbox, Proved!ClaimFresh, Proved!ClaimReplay, Proved!ClaimRetry, Proved!ClaimBlocked,
     Proved!CheckCapacity, Proved!Simulate, Proved!ProviderFails, Proved!MarkSent,
     Proved!MarkSentFails, Proved!MarkFailure, Proved!MarkFailureFails, Proved!Suppress, Proved!DayPasses, Proved!Crash
<1> QED BY <1>1 DEF Proved!ProviderAccepts

(* The parts of Between, one by one.                                       *)
LEMMA RowsStep ==
  ASSUME Parts, Between, [SystemNext]_systemVars, told \subseteq told'
  PROVE  CompletedTold' /\ ActionsNeverWait'
<1>1. \A s \in Steps, n \in Attempts : Keeps(s, n)
  BY EngineSteps, ActionRows DEF Parts, Between
<1>2. ActionsNeverWait' BY <1>1 DEF Keeps, Between, ActionsNeverWait
<1>3. ASSUME NEW s \in Steps, NEW n \in Attempts, Kind[s] = "action", status'[s][n] = "completed"
      PROVE  data'[s][n] \in Payloads /\ PayloadHash(data'[s][n]) \in told'
  <2>1. CASE status[s][n] = "completed" /\ data'[s][n] = data[s][n]
    BY <2>1, <1>3 DEF Between, CompletedTold
  <2>2. CASE \E a \in Advancers : pc[a] = "finish" /\ data'[s][n] = payload[a]
    BY <2>2 DEF Between, FinishesTold
  <2> QED BY <1>1, <1>3, <2>1, <2>2 DEF Keeps
<1>4. CompletedTold' BY <1>3 DEF CompletedTold, PayloadHash
<1> QED BY <1>2, <1>4

LEMMA EmailedStep ==
  ASSUME Parts, Between, [SystemNext]_systemVars
  PROVE  EmailedHashes' \subseteq ApprovedHashes'
<1> USE DEF Parts, BoundaryInv, Between
<1>0. ApprovedHashes \subseteq ApprovedHashes' BY EngineSteps, ApprovalsStay
<1> SUFFICES ASSUME NEW k \in Emails, accepted'[k] > 0 PROVE k \in ApprovedHashes'
  BY DEF EmailedHashes
<1>1. CASE accepted[k] > 0 BY <1>0, <1>1 DEF EmailedHashes
<1>2. CASE ~(accepted[k] > 0)
  <2>1. PICK w \in Advancers : mail[w] = "call" /\ key[w] = k
    BY <1>2, LedgerSteps, SameStep, NewlyEmailed DEF Proved!DeliveryInv
  <2>2. pc[w] = "call" /\ k = PayloadHash(payload[w]) BY <2>1 DEF AsksForItsPayload
  <2> DEFINE r == [step |-> ApprovalOf[step[w]], attempt |-> approvalAttempt[w],
                   hash |-> PayloadHash(payload[w]), decision |-> "approve"]
  <2>3. r \in approvals BY <2>2 DEF Boundary, CallIsApproved
  <2>4. r.hash = k /\ r.decision = "approve" BY <2>2
  <2> HIDE DEF r
  <2>5. k \in ApprovedHashes BY <2>3, <2>4 DEF ApprovedHashes
  <2> QED BY <1>0, <2>5
<1> QED BY <1>1, <1>2

LEMMA CallersStep ==
  ASSUME Parts, Between, [SystemNext]_systemVars, told \subseteq told'
  PROVE  AsksForItsPayload' /\ FinishesTold' /\ OnlyApprovalsArePlaced'
<1> DEFINE Goal == AsksForItsPayload' /\ FinishesTold' /\ OnlyApprovalsArePlaced'
<1> USE DEF AsksForItsPayload, FinishesTold, OnlyApprovalsArePlaced
<1>0. TypeOK /\ Proved!TypeOK BY DEF Parts, BoundaryInv, Proved!DeliveryInv
<1>b. AsksForItsPayload /\ FinishesTold /\ OnlyApprovalsArePlaced BY DEF Between
<1>h. \A p : PayloadHash(p)' = PayloadHash(p) BY DEF PayloadHash
<1>1. CASE UNCHANGED systemVars
  BY <1>1, <1>b DEF systemVars, vars, memory, emailVars, PayloadHash
<1>2. CASE EngineWorks
  <2>1. \A a \in Advancers : Follows(a) BY <1>0, <1>2, CallersFollow DEF EngineWorks
  <2>2. UNCHANGED <<mail, key, told>> BY <1>2 DEF EngineWorks, emailVars
  <2> QED BY <1>b, <2>1, <2>2 DEF Follows, SameCall, PayloadHash
<1>3. CASE Elsewhere
  <2>1. UNCHANGED <<pc, payload, step>> BY <1>3 DEF Elsewhere, vars, memory
  <2>2. UNCHANGED <<mail, key>>
    BY <1>3 DEF Elsewhere, Ledger!Suppress, Ledger!DayPasses, Ledger!callVars
  <2> QED BY <1>b, <2>1, <2>2 DEF PayloadHash
<1>4. ASSUME NEW b \in Advancers, RefusePayload(b) PROVE Goal
  <2>1. \A a \in Advancers \ {b} : SameCall(a)
    BY <1>0, <1>4, Bystanders DEF RefusePayload, Advance
  <2>2. UNCHANGED <<mail, key, told>> BY <1>4 DEF RefusePayload, emailVars
  <2>3. pc'[b] = "catch" BY <1>4 DEF RefusePayload
  <2>4. mail[b] = "idle" BY <1>b, <1>4, PlaybookAssumption DEF RefusePayload, PlaybookAssumption
  <2> QED BY <1>b, <2>1, <2>2, <2>3, <2>4 DEF SameCall, PayloadHash
<1>5. ASSUME NEW b \in Advancers, SendEmail(b) PROVE Goal
  <2>1. UNCHANGED <<pc, payload, step>> BY <1>5 DEF SendEmail, vars, memory
  <2>2. \A a \in Advancers \ {b} : mail'[a] = mail[a] /\ key'[a] = key[a]
    BY <1>0, <1>5 DEF SendEmail, Ledger!Begin, Ledger!End, Ledger!Goto, Proved!TypeOK
  <2>3. key'[b] = PayloadHash(payload[b]) /\ pc[b] = "call"
    BY <1>0, <1>5 DEF SendEmail, Ledger!Begin, Proved!TypeOK
  <2>4. payload[b] \in Payloads BY <1>0, <1>5 DEF SendEmail, TypeOK, CallsOK, Content
  <2> QED BY <1>b, <2>1, <2>2, <2>3, <2>4 DEF PayloadHash
<1>6. ASSUME NEW b \in Advancers, Deliver(b) PROVE Goal
  <2>1. UNCHANGED <<pc, payload, step>> BY <1>6 DEF Deliver, vars, memory
  <2>2. UNCHANGED key /\ mail[b] # "idle" /\ \A a \in Advancers \ {b} : mail'[a] = mail[a]
    <3>1. Proved!Deliver(b) BY <1>6, SameDelivery DEF Deliver
    <3> QED
      BY <1>0, <3>1 DEF Proved!TypeOK, Proved!Deliver, Proved!NoMailbox, Proved!PickMailbox,
         Proved!ClaimFresh, Proved!ClaimReplay, Proved!ClaimRetry, Proved!ClaimBlocked,
         Proved!CheckCapacity, Proved!Simulate, Proved!ProviderAccepts, Proved!ProviderFails,
         Proved!MarkSent, Proved!MarkSentFails, Proved!MarkFailure, Proved!MarkFailureFails, Proved!Claimable,
         Proved!Finish, Proved!Fail, Proved!Continue, Proved!End, Proved!Goto
  <2> QED BY <1>b, <2>1, <2>2 DEF PayloadHash
<1>7. ASSUME NEW b \in Advancers, EmailReturns(b) PROVE Goal
  <2>1. \A a \in Advancers \ {b} : SameCall(a)
    BY <1>0, <1>7, Bystanders DEF EmailReturns, Advance
  <2>2. /\ pc'[b] \in {"finish", "catch"} /\ payload'[b] = payload[b]
        /\ pc'[b] = "finish" => result[b] = "ok"
    BY <1>0, <1>7 DEF EmailReturns, Answered, CallProvider, Goto, memory, TypeOK, CallsOK
  <2>3. /\ mail'[b] = "idle" /\ UNCHANGED told
        /\ \A a \in Advancers \ {b} : mail'[a] = mail[a] /\ key'[a] = key[a]
    BY <1>0, <1>7 DEF EmailReturns, Ledger!Return, Ledger!Forget, Proved!TypeOK
  <2>4. pc'[b] = "finish" => payload[b] \in Payloads /\ PayloadHash(payload[b]) \in told
    BY <1>b, <1>7, <2>2 DEF EmailReturns, Parts, Proved!AnswersAreTold
  <2> QED BY <1>b, <2>1, <2>2, <2>3, <2>4 DEF SameCall, PayloadHash
<1>8. ASSUME NEW b \in Advancers, CallDies(b) PROVE Goal
  <2>1. \A a \in Advancers \ {b} : SameCall(a) BY <1>0, <1>8, Bystanders DEF CallDies
  <2>2. pc'[b] = "idle" BY <1>0, <1>8 DEF CallDies, Crash, Return, Enter, TypeOK, CallsOK
  <2>3. /\ mail'[b] = "idle" /\ UNCHANGED told
        /\ \A a \in Advancers \ {b} : mail'[a] = mail[a] /\ key'[a] = key[a]
    BY <1>0, <1>8 DEF CallDies, Ledger!Crash, Ledger!Forget, Proved!TypeOK, emailVars
  <2> QED BY <1>b, <2>1, <2>2, <2>3 DEF SameCall, PayloadHash
<1> QED BY <1>1, <1>2, <1>3, <1>4, <1>5, <1>6, <1>7, <1>8 DEF SystemNext

LEMMA BetweenStep ==
  ASSUME Parts, Between, [SystemNext]_systemVars
  PROVE  Between'
<1>1. told \subseteq told'
  <2>1. TypeOK /\ Proved!TypeOK /\ Proved!AnswersAreTold BY DEF Parts, BoundaryInv, Proved!DeliveryInv
  <2>2. [Proved!Next]_(Proved!deliveryVars) BY <2>1, LedgerSteps, SameStep
  <2> QED BY <2>1, <2>2, SameAssumption, Proved!AnswersStep
<1> QED BY <1>1, RowsStep, EmailedStep, CallersStep DEF Between

LEMMA BetweenAlways == SystemSpec => []Between
<1>1. SystemInit => Between
  BY DEF SystemInit, Init, Ledger!Init, Between, AsksForItsPayload, FinishesTold, CompletedTold,
     ActionsNeverWait, OnlyApprovalsArePlaced, EmailedHashes
<1>2. Parts /\ Between /\ [SystemNext]_systemVars => Between' BY BetweenStep
<1> QED BY <1>1, <1>2, PartsAlways, PTL DEF SystemSpec

-----------------------------------------------------------------------------
(* What the ledger told a caller is so.                                    *)
LEMMA ToldWasSent == ASSUME Parts, NEW k \in told PROVE WasSent(k)
BY DEF Parts, Proved!DeliveryInv, Proved!TypeOK, Proved!RowKnows, WasSent

(* A completed action sent its email: the caller that completed the step   *)
(* held the ledger's answer for that payload, and what the ledger told it  *)
(* is so.                                                                  *)
THEOREM SystemCompletedMeansSent == SystemSpec => []CompletedMeansSent
<1>1. Parts /\ Between => CompletedMeansSent
  BY ToldWasSent DEF Between, CompletedTold, CompletedMeansSent
<1> QED BY <1>1, PartsAlways, BetweenAlways, PTL

(* Of a completed run every action sent its email, until a live call       *)
(* outlasts its lease.                                                     *)
THEOREM SystemCompletedRunWasSent == SystemSpec => []CompletedRunWasSent
<1>1. CompletedRunIsFinished /\ CompletedMeansSent => CompletedRunWasSent
  BY DEF CompletedRunIsFinished, AllCompleted, Completed, InStatus, CompletedMeansSent,
     CompletedRunWasSent
<1>2. Spec => []CompletedRunIsFinished BY PlaybookCompletedFinished
<1> QED BY <1>1, <1>2, SystemUsesTheEngine, SystemCompletedMeansSent, PTL DEF UsesTheEngine

(* No email goes out twice, and none beside another of the same source.    *)
THEOREM SystemEmailedOnce == SystemSpec => []EmailedOnce
<1>1. Proved!Spec => []Proved!AtMostOnce BY SameAssumption, Proved!DeliveryAtMostOnce
<1>2. Proved!Spec => []Proved!OnePayloadPerSource
  BY SameAssumption, Proved!DeliveryOnePayloadPerSource
<1>3. Proved!AtMostOnce /\ Proved!OnePayloadPerSource => EmailedOnce
  BY DEF EmailedOnce, Ledger!AtMostOnce, Ledger!OnePayloadPerSource, Proved!AtMostOnce,
     Proved!OnePayloadPerSource
<1> QED BY <1>1, <1>2, <1>3, SameLedger, PTL

(* Whoever opted out hears no more from a run, once the call that was under*)
(* way has ended: no later attempt, retry or approval reaches them.        *)
THEOREM SystemSuppressionSettles == SystemSpec => Proved!SuppressionSettles
<1>1. Proved!Spec => Proved!SuppressionSettles
  BY SameAssumption, Proved!DeliverySuppressionSettles
<1> QED BY <1>1, SameLedger, PTL

(* A delivery stays in flight only while its caller is at it, unless that  *)
(* call's process died or the UPDATE that settles the delivery threw: no   *)
(* other attempt of a step leaves one behind.                              *)
THEOREM SystemNoOrphans == SystemSpec => []Proved!NoOrphans
<1>1. Proved!Spec => []Proved!NoOrphans BY SameAssumption, Proved!DeliveryNoOrphans
<1> QED BY <1>1, SameLedger, PTL

(* The number of calls an action makes is bounded although each may now    *)
(* take any time, and be taken over while it lasts.                        *)
THEOREM SystemCallsBounded == ASSUME IsFiniteSet(Advancers) PROVE SystemSpec => []CallsBounded
BY SystemUsesTheEngine, PlaybookCallsBounded, PTL DEF UsesTheEngine

-----------------------------------------------------------------------------
(* Refinement: the two together do what ApprovedExecution promises.  A     *)
(* decision to approve is a step of the engine alone, an email a step of   *)
(* the ledger alone.                                                       *)
LEMMA EmailSteps ==
  ASSUME Parts, Between, [SystemNext]_systemVars, accepted' # accepted
  PROVE  \E k \in ApprovedHashes : /\ EmailedHashes' = EmailedHashes \cup {k}
                                   /\ k \in Emails /\ UNCHANGED vars
<1> USE DEF Parts, BoundaryInv, Proved!DeliveryInv, Proved!TypeOK
<1>1. PICK w \in Advancers : Deliver(w)
  <2>1. ~UNCHANGED emailVars BY DEF emailVars
  <2>2. \A w \in Advancers : ~RefusePayload(w) BY <2>1 DEF RefusePayload
  <2>3. \A w \in Advancers : ~SendEmail(w) BY DEF SendEmail, Ledger!Begin
  <2>4. \A w \in Advancers : ~EmailReturns(w) BY DEF EmailReturns, Ledger!Return
  <2>5. \A w \in Advancers : ~CallDies(w) BY <2>1 DEF CallDies, Ledger!Crash
  <2>6. ~Elsewhere BY DEF Elsewhere, Ledger!Suppress, Ledger!DayPasses
  <2> QED BY <2>1, <2>2, <2>3, <2>4, <2>5, <2>6 DEF SystemNext, EngineWorks, systemVars
<1>2. Proved!ProviderAccepts(w)
  <2>1. Proved!Deliver(w) BY <1>1, SameDelivery DEF Deliver
  <2> QED
    BY <2>1 DEF Proved!Deliver, Proved!NoMailbox, Proved!PickMailbox, Proved!ClaimFresh,
       Proved!ClaimReplay, Proved!ClaimRetry, Proved!ClaimBlocked, Proved!CheckCapacity,
       Proved!Simulate, Proved!ProviderFails, Proved!MarkSent, Proved!MarkSentFails,
       Proved!MarkFailure, Proved!MarkFailureFails
<1> DEFINE k == key[w]
<1>3. /\ k \in Emails /\ mail[w] = "call"
      /\ accepted' = [accepted EXCEPT ![k] = accepted[k] + 1]
  BY <1>2 DEF Proved!ProviderAccepts
<1>4. EmailedHashes' = EmailedHashes \cup {k} BY <1>3 DEF EmailedHashes, Emails, PayloadHash
<1>5. k \in ApprovedHashes
  <2>1. EmailedHashes' \subseteq ApprovedHashes' BY EmailedStep
  <2>2. UNCHANGED approvals BY <1>1 DEF Deliver, vars, History
  <2> QED BY <1>4, <2>1, <2>2 DEF ApprovedHashes
<1> HIDE DEF k
<1> QED BY <1>1, <1>3, <1>4, <1>5 DEF Deliver

(* Engine and ledger together keep the promise of the approval boundary:   *)
(* what a provider accepts was approved before, payload by payload.        *)
THEOREM SystemRefines == SystemSpec => EmailImplementsApprovedExecution
<1>1. SystemInit => Promise!Init
  BY DEF SystemInit, Init, Ledger!Init, Promise!Init, ApprovedHashes, EmailedHashes
<1>2. Parts /\ Between /\ [SystemNext]_systemVars => [Promise!Next]_(Promise!vars)
  <2> SUFFICES ASSUME Parts, Between, [SystemNext]_systemVars PROVE [Promise!Next]_(Promise!vars)
    OBVIOUS
  <2>1. CASE accepted' = accepted
    <3>1. EmailedHashes' = EmailedHashes BY <2>1 DEF EmailedHashes, Emails, PayloadHash
    <3>2. [Abstract!Next]_(Abstract!vars) BY EngineSteps, BoundaryAbstractStep DEF Parts
    <3>3. \/ ApprovedHashes' = ApprovedHashes
          \/ \E h \in Hashes : ApprovedHashes' = ApprovedHashes \cup {h}
      BY <3>2 DEF Abstract!Next, Abstract!vars, Abstract!Approve, Abstract!Execute, ApprovedHashes
    <3> QED BY <3>1, <3>3 DEF Promise!Next, Promise!vars, Promise!Approve
  <2>2. CASE accepted' # accepted
    <3>1. PICK k \in ApprovedHashes : /\ EmailedHashes' = EmailedHashes \cup {k}
                                      /\ k \in Emails /\ UNCHANGED vars
      BY <2>2, EmailSteps
    <3>2. k \in Hashes BY <3>1 DEF Emails, Hashes, Content
    <3>3. ApprovedHashes' = ApprovedHashes BY <3>1 DEF vars, History, ApprovedHashes
    <3> QED BY <3>1, <3>2, <3>3 DEF Promise!Next, Promise!Execute
  <2> QED BY <2>1, <2>2
<1> QED
  BY <1>1, <1>2, PartsAlways, BetweenAlways, PTL
     DEF SystemSpec, EmailImplementsApprovedExecution, Promise!Spec
=============================================================================
