------------------------ MODULE PlaybookEngineProofs -----------------------
(***************************************************************************)
(* Proofs about PlaybookEngine, for every playbook the registry accepts    *)
(* and any number of concurrent calls, leases that are overrun included.   *)
(***************************************************************************)
EXTENDS PlaybookEngine, TLAPS

(* What the operators the actions are built from do to the types.          *)
Resting == Phase \ OnStep

LEMMA SetRunKeeps ==
  ASSUME NEW st \in RunStatus, NEW s \in Steps \cup {NoStep}, NEW e \in {"none", "step", "blocked"},
         SetRun(st, s, e)
  PROVE  RunOK'
BY DEF SetRun, RunOK, RunRow

LEMMA MarkKeeps ==
  ASSUME RowsOK, NEW s \in Steps, NEW n \in Attempts, NEW st \in StepStatus, Mark(s, n, st)
  PROVE  status' \in [Steps -> [Attempts -> StepStatus]]
BY DEF RowsOK, Mark

LEMMA GotoKeeps ==
  ASSUME CallsOK, NEW a \in Advancers, NEW phase \in Phase,
         phase \in OnStep => step[a] \in Steps, Goto(a, phase)
  PROVE  CallsOK'
BY DEF CallsOK, Goto, memory

LEMMA EnterKeeps ==
  ASSUME PlaybookAssumption, CallsOK, NEW a \in Advancers, NEW phase \in Resting, Enter(a, phase)
  PROVE  CallsOK'
<1>1. NoRun \in RunRow /\ 1 \in Attempts /\ NoPayload \in Content /\ phase \in Phase
  BY DEF NoRun, RunRow, RunStatus, Attempts, PlaybookAssumption, Content, Resting
<1> QED BY <1>1 DEF CallsOK, Enter, Resting

LEMMA TakeKeeps ==
  ASSUME CallsOK, NEW a \in Advancers, NEW phase \in Phase, NEW s \in Steps, NEW n \in Attempts,
         NEW h \in Hashes \cup {NoHash}, Take(a, phase, s, n),
         readHash' = [readHash EXCEPT ![a] = h]
  PROVE  CallsOK'
BY DEF CallsOK, Take

LEMMA RestingPhases == {"idle", "begin", "readRun", "readSteps", "failRun", "failBlocked",
                        "setQueued", "complete"} \subseteq Resting
BY DEF Resting, Phase, OnStep, Working

LEMMA PlacingKeeps ==
  ASSUME PlaybookAssumption, TypeOK, NEW a \in Advancers, step[a] \in Steps,
         attempt[a] \in Attempts, NEW p \in Content, PlaceBehindApproval(a, p)
  PROVE  TypeOK'
<1> USE DEF PlaceBehindApproval, TypeOK, Return
<1>1. RunOK' BY SetRunKeeps DEF RunOK, RunRow, RunStatus
<1>2. RowsOK' BY MarkKeeps DEF RowsOK, StepStatus, Hashes
<1>3. CallsOK' BY EnterKeeps, RestingPhases
<1> QED BY <1>1, <1>2, <1>3 DEF HistoryOK, History, Bounds

LEMMA CompletingKeeps ==
  ASSUME PlaybookAssumption, TypeOK, NEW a \in Advancers, step[a] \in Steps,
         attempt[a] \in Attempts, NEW p \in Content, CompleteStep(a, p)
  PROVE  TypeOK'
<1> USE DEF CompleteStep, TypeOK, Loop
<1>1. RowsOK' BY MarkKeeps DEF RowsOK, StepStatus
<1>2. CallsOK' BY EnterKeeps, RestingPhases
<1> QED BY <1>1, <1>2 DEF RunOK, HistoryOK, History, Bounds

LEMMA FailingKeeps ==
  ASSUME PlaybookAssumption, TypeOK, NEW a \in Advancers, step[a] \in Steps,
         attempt[a] \in Attempts, FailStep(a)
  PROVE  TypeOK'
<1> USE DEF FailStep, TypeOK, Loop
<1>1. RunOK' BY SetRunKeeps DEF RunStatus
<1>2. RowsOK' BY MarkKeeps DEF RowsOK, StepStatus
<1>3. CallsOK' BY EnterKeeps, RestingPhases
<1> QED BY <1>1, <1>2, <1>3 DEF HistoryOK, History, Bounds

LEMMA RetryingKeeps ==
  ASSUME PlaybookAssumption, TypeOK, NEW a \in Advancers, step[a] \in Steps,
         attempt[a] \in Attempts, ScheduleRetry(a)
  PROVE  TypeOK'
<1> USE DEF ScheduleRetry, PlaceRetry, RetryAborts, TypeOK, Loop, Return
<1>1. RunOK' BY SetRunKeeps DEF RunStatus, RunOK
<1>2. attempt[a] + 1 \in Attempts BY DEF PlaybookAssumption, Attempts
<1>3. RowsOK'
  <2>1. CASE RetryAborts(a) BY <2>1 DEF RowsOK, stepVars
  <2>2. CASE PlaceRetry(a)
    <3>1. status' \in [Steps -> [Attempts -> StepStatus]]
      BY <1>2, <2>2 DEF RowsOK, StepStatus, RetryStatus
    <3> QED BY <2>2, <3>1 DEF RowsOK
  <2> QED BY <2>1, <2>2
<1>4. CallsOK'
  <2>1. Enter(a, "idle") \/ Enter(a, "readRun") OBVIOUS
  <2> QED BY <2>1, EnterKeeps, RestingPhases
<1> QED BY <1>1, <1>3, <1>4 DEF HistoryOK, History, Bounds

LEMMA TypeInitial == ASSUME PlaybookAssumption, Init PROVE TypeOK
BY DEF PlaybookAssumption, Init, TypeOK, RunOK, RowsOK, CallsOK, HistoryOK, RunRow, RunStatus,
   NoRun, StepStatus, Phase, OnStep, Working, Content, Attempts, Hashes

LEMMA TypeStep == ASSUME PlaybookAssumption, TypeOK, [Next]_vars PROVE TypeOK'
<1> USE DEF TypeOK, stepVars, memory, History, Bounds, Return, Loop
<1>0. RunOK /\ RowsOK /\ CallsOK /\ HistoryOK OBVIOUS
<1>1. CASE UNCHANGED vars
  BY <1>1 DEF vars, RunOK, RowsOK, CallsOK, HistoryOK
<1>2. ASSUME NEW a \in Advancers, StartRun(a) \/ Sweep(a) \/ Crash(a) PROVE TypeOK'
  <2>1. CASE StartRun(a)
    <3>1. RunOK' BY <2>1, SetRunKeeps DEF StartRun, RunStatus
    <3>2. RowsOK'
      BY <2>1 DEF StartRun, RowsOK, StepStatus, Attempts
    <3>3. CallsOK' BY <2>1, GotoKeeps DEF StartRun, Phase, OnStep, Working
    <3> QED BY <2>1, <3>1, <3>2, <3>3 DEF StartRun, HistoryOK
  <2>2. CASE Sweep(a)
    BY <2>2, GotoKeeps DEF Sweep, RunOK, RowsOK, HistoryOK, Phase, OnStep, Working
  <2>3. CASE Crash(a)
    BY <2>3, EnterKeeps, RestingPhases DEF Crash, RunOK, RowsOK, HistoryOK
  <2> QED BY <1>2, <2>1, <2>2, <2>3
<1>3. ASSUME NEW a \in Advancers, Advance(a) PROVE TypeOK'
  <2>1. CASE RecoverStaleSteps(a)
    <3>1. RowsOK' BY <2>1 DEF RecoverStaleSteps, RowsOK, StepStatus
    <3>2. CallsOK' BY <2>1, GotoKeeps DEF RecoverStaleSteps, Phase, OnStep, Working
    <3> QED BY <2>1, <3>1, <3>2 DEF RecoverStaleSteps, RunOK, HistoryOK
  <2>2. CASE ReadRun(a)
    <3>1. CallsOK'
      <4>1. CASE Return(a) BY <4>1, EnterKeeps, RestingPhases
      <4>2. CASE seen' = [seen EXCEPT ![a] = run] /\ pc' = [pc EXCEPT ![a] = "readSteps"]
        BY <2>2, <4>2 DEF ReadRun, CallsOK, RunOK, Enter, Phase, OnStep, Working
      <4> QED BY <2>2, <4>1, <4>2 DEF ReadRun
    <3> QED BY <2>2, <3>1 DEF ReadRun, RunOK, RowsOK, HistoryOK
  <2>3. CASE SeeWaiting(a)
    BY <2>3 DEF SeeWaiting, Take, CallsOK, RunOK, RowsOK, HistoryOK, Attempts,
       PlaybookAssumption, Phase, OnStep, Working
  <2>4. CASE SeeFailed(a)
    <3>1. CallsOK' BY <2>4, GotoKeeps DEF SeeFailed, CallsOK, Phase, OnStep, Working
    <3> QED BY <2>4, <3>1 DEF SeeFailed, RunOK, RowsOK, HistoryOK
  <2>5. CASE SeeReady(a)
    BY <2>5 DEF SeeReady, Take, CallsOK, RunOK, RowsOK, HistoryOK, Attempts,
       PlaybookAssumption, Phase, OnStep, Working
  <2>6. CASE SeeNoneReady(a)
    <3>1. CallsOK' BY <2>6, GotoKeeps DEF SeeNoneReady, CallsOK, Phase, OnStep, Working
    <3> QED BY <2>6, <3>1 DEF SeeNoneReady, RunOK, RowsOK, HistoryOK
  <2>7. CASE SetWaiting(a)
    <3>1. RunOK'
      BY <2>7, SetRunKeeps DEF SetWaiting, SetRunStatus, RunOK, CallsOK, RunRow, RunStatus, OnStep
    <3>2. CallsOK' BY <2>7, EnterKeeps, RestingPhases DEF SetWaiting
    <3> QED BY <2>7, <3>1, <3>2 DEF SetWaiting, RowsOK, HistoryOK
  <2>8. CASE SetQueued(a)
    <3>1. RunOK'
      BY <2>8, SetRunKeeps DEF SetQueued, SetRunStatus, RunOK, CallsOK, RunRow, RunStatus, OnStep
    <3>2. CallsOK' BY <2>8, EnterKeeps, RestingPhases DEF SetQueued
    <3> QED BY <2>8, <3>1, <3>2 DEF SetQueued, RowsOK, HistoryOK
  <2>9. CASE FailRun(a)
    <3>1. RunOK' BY <2>9, SetRunKeeps DEF FailRun, RunOK, RunRow, RunStatus
    <3>2. CallsOK' BY <2>9, EnterKeeps, RestingPhases DEF FailRun
    <3> QED BY <2>9, <3>1, <3>2 DEF FailRun, RowsOK, HistoryOK
  <2>10. CASE CompleteRun(a)
    <3>1. RunOK' BY <2>10, SetRunKeeps DEF CompleteRun, RunOK, RunRow, RunStatus
    <3>2. CallsOK' BY <2>10, EnterKeeps, RestingPhases DEF CompleteRun
    <3> QED BY <2>10, <3>1, <3>2 DEF CompleteRun, RowsOK, HistoryOK
  <2>11. CASE ClaimStep(a)
    <3>1. RowsOK'
      BY <2>11, MarkKeeps DEF ClaimStep, Claimable, RowsOK, CallsOK, OnStep, StepStatus
    <3>2. CallsOK' BY <2>11, GotoKeeps DEF ClaimStep, CallsOK, Phase, OnStep, Working
    <3> QED BY <2>11, <3>1, <3>2 DEF ClaimStep, RunOK, HistoryOK
  <2>12. CASE ClaimLost(a)
    <3>1. CallsOK' BY <2>12, EnterKeeps, RestingPhases DEF ClaimLost
    <3> QED BY <2>12, <3>1 DEF ClaimLost, RunOK, RowsOK, HistoryOK
  <2>13. CASE SetRunning(a)
    <3>1. RunOK'
      BY <2>13, SetRunKeeps DEF SetRunning, SetRunStatus, RunOK, CallsOK, RunStatus, OnStep, Working
    <3>2. NoRun \in RunRow
      BY PlaybookAssumption DEF NoRun, RunRow, RunStatus, Steps, NoStep
    <3>3. CallsOK' BY <2>13, <3>2 DEF SetRunning, CallsOK, Phase, OnStep, Working
    <3> QED BY <2>13, <3>1, <3>3 DEF SetRunning, RowsOK, HistoryOK
  <2>14. CASE RefreshSkill(a)
    <3>1. CallsOK' BY <2>14, GotoKeeps DEF RefreshSkill, CallsOK, Phase, OnStep, Working
    <3> QED BY <2>14, <3>1 DEF RefreshSkill, RunOK, RowsOK, HistoryOK
  <2>15. CASE RefreshApproval(a)
    BY <2>15 DEF RefreshApproval, ResolvePayload, PlaybookAssumption, CallsOK,
       RunOK, RowsOK, HistoryOK, Phase, OnStep, Working
  <2>16. CASE RefreshAction(a)
    BY <2>16 DEF RefreshAction, ResolvePayload, PlaybookAssumption, CallsOK,
       RunOK, RowsOK, HistoryOK, Phase, OnStep, Working
  <2>17. CASE WaitForApproval(a)
    <3>1. step[a] \in Steps /\ attempt[a] \in Attempts /\ payload[a] \in Content
      BY <2>17 DEF WaitForApproval, CallsOK, OnStep, Working
    <3>2. TypeOK' BY <2>17, <3>1, PlacingKeeps DEF WaitForApproval, PlaybookAssumption, Content
    <3> QED BY <3>2
  <2>18. CASE SkillBehindApproval(a)
    <3>1. step[a] \in Steps /\ attempt[a] \in Attempts /\ payload[a] \in Content
      BY <2>18 DEF SkillBehindApproval, CallsOK, OnStep, Working
    <3>2. TypeOK' BY <2>18, <3>1, PlacingKeeps DEF SkillBehindApproval, PlaybookAssumption, Content
    <3> QED BY <3>2
  <2>19. CASE SkillCompletes(a)
    <3>1. step[a] \in Steps /\ attempt[a] \in Attempts /\ payload[a] \in Content
      BY <2>19 DEF SkillCompletes, CallsOK, OnStep, Working
    <3> QED BY <2>19, <3>1, CompletingKeeps DEF SkillCompletes, Content, PlaybookAssumption
  <2>20. CASE SkillRetries(a)
    <3>1. step[a] \in Steps /\ attempt[a] \in Attempts
      BY <2>20 DEF SkillRetries, CallsOK, OnStep, Working
    <3> QED BY <2>20, <3>1, RetryingKeeps DEF SkillRetries
  <2>21. CASE SkillFails(a)
    <3>1. step[a] \in Steps /\ attempt[a] \in Attempts
      BY <2>21 DEF SkillFails, CallsOK, OnStep, Working
    <3> QED BY <2>21, <3>1, FailingKeeps DEF SkillFails
  <2>22. CASE ActionRefused(a)
    <3>1. step[a] \in Steps /\ attempt[a] \in Attempts
      BY <2>22 DEF ActionRefused, CallsOK, OnStep, Working
    <3> QED BY <2>22, <3>1, FailingKeeps DEF ActionRefused
  <2>23. CASE ActionAuthorised(a)
    <3>1. CallsOK' BY <2>23, GotoKeeps DEF ActionAuthorised, CallsOK, Phase, OnStep, Working
    <3> QED BY <2>23, <3>1 DEF ActionAuthorised, RunOK, RowsOK, HistoryOK
  <2>24. CASE CallProvider(a)
    <3>1. step[a] \in Steps /\ approvalAttempt[a] \in Attempts /\ payload[a] \in Content
      BY <2>24 DEF CallProvider, CallsOK, OnStep, Working
    <3>2. CallsOK' BY <2>24, <3>1, GotoKeeps DEF CallProvider, Phase, OnStep, Working
    <3>3. HistoryOK' BY <2>24, <3>1 DEF CallProvider, HistoryOK, Call, Hashes
    <3> QED BY <2>24, <3>2, <3>3 DEF CallProvider, RunOK, RowsOK
  <2>25. CASE ActionCompletes(a)
    <3>1. step[a] \in Steps /\ attempt[a] \in Attempts /\ payload[a] \in Content
      BY <2>25 DEF ActionCompletes, CallsOK, OnStep, Working
    <3> QED BY <2>25, <3>1, CompletingKeeps DEF ActionCompletes, Content
  <2>26. CASE ActionRetries(a)
    <3>1. step[a] \in Steps /\ attempt[a] \in Attempts
      BY <2>26 DEF ActionRetries, CallsOK, OnStep, Working
    <3> QED BY <2>26, <3>1, RetryingKeeps DEF ActionRetries
  <2>27. CASE ActionFails(a)
    <3>1. step[a] \in Steps /\ attempt[a] \in Attempts
      BY <2>27 DEF ActionFails, CallsOK, OnStep, Working
    <3> QED BY <2>27, <3>1, FailingKeeps DEF ActionFails
  <2> QED
    BY <1>3, <2>1, <2>2, <2>3, <2>4, <2>5, <2>6, <2>7, <2>8, <2>9, <2>10,
       <2>11, <2>12, <2>13, <2>14, <2>15, <2>16, <2>17, <2>18, <2>19, <2>20,
       <2>21, <2>22, <2>23, <2>24, <2>25, <2>26, <2>27 DEF Advance, Work
<1>4. ASSUME NEW a \in Advancers, Founder(a) PROVE TypeOK'
  <2>1. CASE DecideRead(a)
    <3>1. PICK s \in Steps, n \in Attempts :
             /\ Take(a, "decide", s, n)
             /\ readHash' = [readHash EXCEPT ![a] = hash[s][n]]
      BY <2>1 DEF DecideRead
    <3>2. hash[s][n] \in Hashes \cup {NoHash} BY DEF RowsOK
    <3>3. CallsOK' BY <3>1, <3>2, TakeKeeps DEF Phase, OnStep
    <3> QED BY <2>1, <3>3 DEF DecideRead, RunOK, RowsOK, HistoryOK
  <2>2. CASE Approve(a) \/ Reject(a)
    <3>1. /\ step[a] \in Steps /\ attempt[a] \in Attempts
          /\ readHash[a] \in Hashes \cup {NoHash}
      BY <2>2 DEF Approve, Reject, CallsOK, OnStep
    <3>2. RowsOK'
      BY <2>2, <3>1, MarkKeeps DEF Approve, Reject, Decide, RowsOK, StepStatus
    <3>3. RunOK' BY <2>2, SetRunKeeps DEF Approve, Reject, RunOK, RunRow, RunStatus
    <3>4. CallsOK' BY <2>2, EnterKeeps, RestingPhases DEF Approve, Reject
    <3>6. HistoryOK' BY <2>2, <3>1 DEF Approve, Reject, Decide, HistoryOK, Approval
    <3> QED BY <3>2, <3>3, <3>4, <3>6
  <2>3. CASE EditBody(a)
    <3>1. step[a] \in Steps /\ attempt[a] \in Attempts
      BY <2>3 DEF EditBody, CallsOK, OnStep
    <3>2. RowsOK' BY <2>3, <3>1 DEF EditBody, RowsOK, Content, Hashes
    <3>3. CallsOK' BY <2>3, EnterKeeps, RestingPhases DEF EditBody
    <3> QED BY <2>3, <3>2, <3>3 DEF EditBody, RunOK, HistoryOK
  <2>4. CASE DecideConflict(a)
    BY <2>4, EnterKeeps, RestingPhases DEF DecideConflict, RunOK, RowsOK, HistoryOK
  <2> QED BY <1>4, <2>1, <2>2, <2>3, <2>4 DEF Founder, Answer
<1>5. ASSUME NEW s \in Steps, NEW n \in Attempts, LeaseExpires(s, n) \/ RetryDue(s, n)
      PROVE  TypeOK'
  <2>1. RowsOK' BY <1>5, MarkKeeps DEF LeaseExpires, RetryDue, RowsOK, StepStatus
  <2> QED BY <1>5, <2>1 DEF LeaseExpires, RetryDue, RunOK, CallsOK, HistoryOK
<1> QED BY <1>1, <1>2, <1>3, <1>4, <1>5 DEF Next, Time

(* Type correctness of every reachable state.                              *)
THEOREM PlaybookTypeCorrect == Spec => []TypeOK
<1>1. Init => TypeOK BY PlaybookAssumption, TypeInitial
<1>2. TypeOK /\ [Next]_vars => TypeOK' BY PlaybookAssumption, TypeStep
<1> QED BY <1>1, <1>2, PTL DEF Spec

-----------------------------------------------------------------------------
(* The inductive invariant of the approval boundary.  ExactApproval speaks *)
(* of calls already made; what keeps it is that a call about to be made has*)
(* its approval on record, and that approvals are never taken back.        *)
PhaseFitsKind == \A a \in Advancers :
    /\ pc[a] = "skill" => Kind[step[a]] = "skill"
    /\ pc[a] \in {"check", "call", "finish", "catch"} => Kind[step[a]] = "action"
CallIsApproved == \A a \in Advancers : pc[a] = "call" =>
    [step |-> ApprovalOf[step[a]], attempt |-> approvalAttempt[a],
     hash |-> PayloadHash(payload[a]), decision |-> "approve"] \in approvals
WaitingShowsHash == \A s \in Steps, n \in Attempts :
    status[s][n] = "waiting_approval" => hash[s][n] \in Hashes

Boundary == /\ PhaseFitsKind /\ CallIsApproved /\ WaitingShowsHash
            /\ ExactApproval /\ GrantedStepHasDecision
BoundaryInv == TypeOK /\ Boundary

LEMMA BoundaryInitial == ASSUME PlaybookAssumption, Init PROVE BoundaryInv
<1>1. TypeOK BY TypeInitial
<1> QED
  BY <1>1 DEF Init, BoundaryInv, Boundary, PhaseFitsKind, CallIsApproved, WaitingShowsHash,
     ExactApproval, GrantedStepHasDecision

(* A call that starts, ends or turns back leaves the others as they were.  *)
LEMMA EnterIsSafe ==
  ASSUME CallsOK, PhaseFitsKind, CallIsApproved, NEW a \in Advancers, NEW phase \in Resting,
         Enter(a, phase), UNCHANGED approvals
  PROVE  PhaseFitsKind' /\ CallIsApproved'
BY DEF CallsOK, PhaseFitsKind, CallIsApproved, Enter, Resting, OnStep, Working

LEMMA BoundaryStep == ASSUME PlaybookAssumption, BoundaryInv, [Next]_vars PROVE BoundaryInv'
<1>0. TypeOK' BY TypeStep DEF BoundaryInv
<1> SUFFICES Boundary' BY <1>0 DEF BoundaryInv
<1> USE DEF BoundaryInv, Boundary, PhaseFitsKind, CallIsApproved, WaitingShowsHash, ExactApproval,
      GrantedStepHasDecision, TypeOK, RowsOK, CallsOK, OnStep, Working, stepVars, memory, History,
      Bounds, Goto, Enter, Return, Loop, Mark
<1>1. CASE UNCHANGED vars
  BY <1>1 DEF vars
<1>2. ASSUME NEW a \in Advancers, StartRun(a) \/ Sweep(a) \/ Crash(a) PROVE Boundary'
  <2>1. CASE StartRun(a) BY <2>1 DEF StartRun
  <2>2. CASE Sweep(a) BY <2>2 DEF Sweep
  <2>3. CASE Crash(a) BY <2>3 DEF Crash
  <2> QED BY <1>2, <2>1, <2>2, <2>3
<1>3. ASSUME NEW a \in Advancers, Advance(a) PROVE Boundary'
  <2>1. CASE RecoverStaleSteps(a) BY <2>1 DEF RecoverStaleSteps
  <2>2. CASE ReadRun(a)
    <3>1. CASE Return(a)
      <4>1. PhaseFitsKind' /\ CallIsApproved'
        BY <2>2, <3>1, EnterIsSafe, RestingPhases DEF ReadRun
      <4> QED BY <2>2, <4>1 DEF ReadRun
    <3>2. CASE pc' = [pc EXCEPT ![a] = "readSteps"] /\ run.status \notin TerminalRun
      <4>1. PhaseFitsKind' /\ CallIsApproved' BY <2>2, <3>2 DEF ReadRun
      <4> QED BY <2>2, <4>1 DEF ReadRun
    <3> QED BY <2>2, <3>1, <3>2 DEF ReadRun
  <2>3. CASE SeeWaiting(a) BY <2>3 DEF SeeWaiting, Take
  <2>4. CASE SeeFailed(a) BY <2>4 DEF SeeFailed
  <2>5. CASE SeeReady(a) BY <2>5 DEF SeeReady, Take
  <2>6. CASE SeeNoneReady(a) BY <2>6 DEF SeeNoneReady
  <2>7. CASE SetWaiting(a) BY <2>7 DEF SetWaiting
  <2>8. CASE SetQueued(a) BY <2>8 DEF SetQueued
  <2>9. CASE FailRun(a) BY <2>9 DEF FailRun
  <2>10. CASE CompleteRun(a) BY <2>10 DEF CompleteRun
  <2>11. CASE ClaimStep(a) BY <2>11 DEF ClaimStep
  <2>12. CASE ClaimLost(a)
    <3>1. PhaseFitsKind' /\ CallIsApproved'
      BY <2>12, EnterIsSafe, RestingPhases DEF ClaimLost
    <3> QED BY <2>12, <3>1 DEF ClaimLost
  <2>13. CASE SetRunning(a) BY <2>13 DEF SetRunning
  <2>14. CASE RefreshSkill(a) BY <2>14 DEF RefreshSkill
  <2>15. CASE RefreshApproval(a) BY <2>15 DEF RefreshApproval, ResolvePayload
  <2>16. CASE RefreshAction(a) BY <2>16 DEF RefreshAction, ResolvePayload
  <2>17. CASE WaitForApproval(a)
    <3>1. step[a] \in Steps /\ attempt[a] \in Attempts /\ NoPayload \in Content
          /\ payload[a] \in Content
      BY <2>17 DEF WaitForApproval, Content
    <3>2. PhaseFitsKind' /\ CallIsApproved'
      BY <2>17, EnterIsSafe, RestingPhases DEF WaitForApproval, PlaceBehindApproval
    <3>3. WaitingShowsHash' BY <2>17, <3>1 DEF WaitForApproval, PlaceBehindApproval, Hashes
    <3>4. GrantedStepHasDecision' BY <2>17, <3>1 DEF WaitForApproval, PlaceBehindApproval
    <3> QED BY <2>17, <3>2, <3>3, <3>4 DEF WaitForApproval, PlaceBehindApproval
  <2>18. CASE SkillBehindApproval(a)
    <3>1. step[a] \in Steps /\ attempt[a] \in Attempts /\ NoPayload \in Content
          /\ payload[a] \in Content
      BY <2>18 DEF SkillBehindApproval, Content
    <3>2. PhaseFitsKind' /\ CallIsApproved'
      BY <2>18, EnterIsSafe, RestingPhases DEF SkillBehindApproval, PlaceBehindApproval
    <3>3. WaitingShowsHash' BY <2>18, <3>1 DEF SkillBehindApproval, PlaceBehindApproval, Hashes
    <3>4. GrantedStepHasDecision' BY <2>18, <3>1 DEF SkillBehindApproval, PlaceBehindApproval
    <3> QED BY <2>18, <3>2, <3>3, <3>4 DEF SkillBehindApproval, PlaceBehindApproval
  <2>19. CASE SkillCompletes(a) BY <2>19 DEF SkillCompletes, CompleteStep
  <2>20. CASE SkillRetries(a)
    <3>1. step[a] \in Steps /\ attempt[a] \in Attempts /\ attempt[a] + 1 \in Attempts
      BY <2>20 DEF SkillRetries, ScheduleRetry, PlaybookAssumption, Attempts
    <3>2. PhaseFitsKind' /\ CallIsApproved'
      BY <2>20, EnterIsSafe, RestingPhases DEF SkillRetries, ScheduleRetry, PlaceRetry, RetryAborts
    <3>3. WaitingShowsHash' /\ GrantedStepHasDecision'
      <4>1. CASE RetryAborts(a) BY <4>1 DEF RetryAborts
      <4>2. CASE PlaceRetry(a) BY <3>1, <4>2 DEF PlaceRetry, RetryStatus
      <4> QED BY <2>20, <4>1, <4>2 DEF SkillRetries, ScheduleRetry
    <3> QED BY <2>20, <3>2, <3>3 DEF SkillRetries, ScheduleRetry, PlaceRetry, RetryAborts
  <2>21. CASE SkillFails(a) BY <2>21 DEF SkillFails, FailStep
  <2>22. CASE ActionRefused(a) BY <2>22 DEF ActionRefused, FailStep
  <2>23. CASE ActionAuthorised(a) BY <2>23 DEF ActionAuthorised, Authorised
  <2>24. CASE CallProvider(a) BY <2>24 DEF CallProvider
  <2>25. CASE ActionCompletes(a) BY <2>25 DEF ActionCompletes, CompleteStep
  <2>26. CASE ActionRetries(a)
    <3>1. step[a] \in Steps /\ attempt[a] \in Attempts /\ attempt[a] + 1 \in Attempts
      BY <2>26 DEF ActionRetries, ScheduleRetry, PlaybookAssumption, Attempts
    <3>2. PhaseFitsKind' /\ CallIsApproved'
      BY <2>26, EnterIsSafe, RestingPhases DEF ActionRetries, ScheduleRetry, PlaceRetry, RetryAborts
    <3>3. WaitingShowsHash' /\ GrantedStepHasDecision'
      <4>1. CASE RetryAborts(a) BY <4>1 DEF RetryAborts
      <4>2. CASE PlaceRetry(a) BY <3>1, <4>2 DEF PlaceRetry, RetryStatus
      <4> QED BY <2>26, <4>1, <4>2 DEF ActionRetries, ScheduleRetry
    <3> QED BY <2>26, <3>2, <3>3 DEF ActionRetries, ScheduleRetry, PlaceRetry, RetryAborts
  <2>27. CASE ActionFails(a) BY <2>27 DEF ActionFails, FailStep
  <2> QED
    BY <1>3, <2>1, <2>2, <2>3, <2>4, <2>5, <2>6, <2>7, <2>8, <2>9, <2>10,
       <2>11, <2>12, <2>13, <2>14, <2>15, <2>16, <2>17, <2>18, <2>19, <2>20,
       <2>21, <2>22, <2>23, <2>24, <2>25, <2>26, <2>27 DEF Advance, Work
<1>4. ASSUME NEW a \in Advancers, Founder(a) PROVE Boundary'
  <2>1. CASE DecideRead(a) BY <2>1 DEF DecideRead, Take
  <2>2. CASE Approve(a) BY <2>2 DEF Approve, Undisturbed, Decide
  <2>3. CASE Reject(a) BY <2>3 DEF Reject, Undisturbed, Decide
  <2>4. CASE EditBody(a) BY <2>4 DEF EditBody, Undisturbed, Hashes, Content
  <2>5. CASE DecideConflict(a) BY <2>5 DEF DecideConflict
  <2> QED BY <1>4, <2>1, <2>2, <2>3, <2>4, <2>5 DEF Founder, Answer
<1>5. ASSUME NEW s \in Steps, NEW n \in Attempts, LeaseExpires(s, n) \/ RetryDue(s, n)
      PROVE  Boundary'
  <2>1. PhaseFitsKind' /\ CallIsApproved' BY <1>5 DEF LeaseExpires, RetryDue
  <2>2. \A t \in Steps, m \in Attempts : status'[t][m] \in {"waiting_approval", "completed"} =>
           status'[t][m] = status[t][m]
    <3>1. CASE LeaseExpires(s, n) BY <3>1 DEF LeaseExpires
    <3>2. CASE RetryDue(s, n) BY <3>2 DEF RetryDue
    <3> QED BY <1>5, <3>1, <3>2
  <2>3. UNCHANGED <<hash, approvals>> BY <1>5 DEF LeaseExpires, RetryDue
  <2>4. WaitingShowsHash' /\ GrantedStepHasDecision' BY <2>2, <2>3
  <2> QED BY <1>5, <2>1, <2>4 DEF LeaseExpires, RetryDue
<1> QED BY <1>1, <1>2, <1>3, <1>4, <1>5 DEF Next, Time

LEMMA BoundaryHolds == Spec => []BoundaryInv
<1>1. Init => BoundaryInv BY PlaybookAssumption, BoundaryInitial
<1>2. BoundaryInv /\ [Next]_vars => BoundaryInv' BY PlaybookAssumption, BoundaryStep
<1> QED BY <1>1, <1>2, PTL DEF Spec

(* A provider is only ever handed a payload a founder approved under its   *)
(* exact hash, for every playbook, any number of concurrent calls, and     *)
(* leases that expire under a living worker.                               *)
THEOREM PlaybookExactApproval == Spec => []ExactApproval
BY BoundaryHolds, PTL DEF BoundaryInv, Boundary

(* A completed approval step has its decision on record.                   *)
THEOREM PlaybookGrantedStepHasDecision == Spec => []GrantedStepHasDecision
BY BoundaryHolds, PTL DEF BoundaryInv, Boundary

-----------------------------------------------------------------------------
(* Refinement: a decision to approve and a call to a provider are the only *)
(* steps the approval boundary sees.                                       *)
LEMMA ImageOfOneMore ==
  ASSUME NEW S, NEW T, NEW x, T = S \cup {x}
  PROVE  {q.hash : q \in T} = {q.hash : q \in S} \cup {x.hash}
OBVIOUS

LEMMA BoundaryAbstractInitial == ASSUME Init PROVE Abstract!Init
BY DEF Init, Abstract!Init

LEMMA BoundaryAbstractStep ==
  ASSUME BoundaryInv, [Next]_vars
  PROVE  [Abstract!Next]_(Abstract!vars)
<1> DEFINE Promised == [Abstract!Next]_(Abstract!vars)
<1>0. UNCHANGED <<approvals, calls>> => Promised BY DEF Abstract!vars
<1> USE DEF History
<1>1. CASE UNCHANGED vars
  BY <1>0, <1>1 DEF vars
<1>2. ASSUME NEW a \in Advancers, StartRun(a) \/ Sweep(a) \/ Crash(a) PROVE Promised
  BY <1>0, <1>2 DEF StartRun, Sweep, Crash
<1>3. ASSUME NEW a \in Advancers, Advance(a) PROVE Promised
  <2>1. CallProvider(a) => Promised
    <3> SUFFICES ASSUME CallProvider(a) PROVE Promised OBVIOUS
    <3> DEFINE h == PayloadHash(payload[a])
               c == [step |-> step[a], approvalAttempt |-> approvalAttempt[a], hash |-> h]
               r == [step |-> ApprovalOf[step[a]], attempt |-> approvalAttempt[a],
                     hash |-> h, decision |-> "approve"]
    <3>1. h \in Hashes BY DEF BoundaryInv, TypeOK, CallsOK, Hashes
    <3>2. h \in {q.hash : q \in {q \in approvals : q.decision = "approve"}}
      <4>1. r \in approvals BY DEF CallProvider, BoundaryInv, Boundary, CallIsApproved
      <4>2. r.hash = h /\ r.decision = "approve" OBVIOUS
      <4> HIDE DEF h, r
      <4> QED BY <4>1, <4>2
    <3>3. {d.hash : d \in calls'} = {d.hash : d \in calls} \cup {h}
      <4>1. calls' = calls \cup {c} BY DEF CallProvider
      <4>2. c.hash = h OBVIOUS
      <4> HIDE DEF c, h
      <4> QED BY <4>1, <4>2, ImageOfOneMore
    <3> HIDE DEF h
    <3>4. Abstract!Execute(h)
      BY <3>2, <3>3 DEF Abstract!Execute, CallProvider
    <3> QED BY <3>1, <3>4 DEF Abstract!Next, Abstract!Execute
  <2>2. Advance(a) /\ ~CallProvider(a) => UNCHANGED <<approvals, calls>>
    BY DEF Advance, Work, RecoverStaleSteps, ReadRun, SeeWaiting, SeeFailed,
       SeeReady, SeeNoneReady, SetWaiting, SetQueued, FailRun, CompleteRun,
       ClaimStep, ClaimLost, SetRunning, RefreshSkill, RefreshApproval,
       RefreshAction, WaitForApproval, PlaceBehindApproval,
       SkillBehindApproval, SkillCompletes, SkillRetries, SkillFails,
       ActionRefused, ActionAuthorised, ActionCompletes, ActionRetries,
       ActionFails, CompleteStep, FailStep, ScheduleRetry, PlaceRetry, RetryAborts
  <2> QED BY <1>0, <1>3, <2>1, <2>2
<1>4. ASSUME NEW a \in Advancers, Founder(a) PROVE Promised
  <2>1. Approve(a) => Promised
    <3> SUFFICES ASSUME Approve(a) PROVE Promised OBVIOUS
    <3>1. readHash[a] \in Hashes
      BY DEF Approve, Undisturbed, BoundaryInv, Boundary, WaitingShowsHash, TypeOK, CallsOK, OnStep
    <3> DEFINE Approving(S) == {q \in S : q.decision = "approve"}
               d == [step |-> step[a], attempt |-> attempt[a], hash |-> readHash[a],
                     decision |-> "approve"]
    <3>2. {q.hash : q \in Approving(approvals')}
            = {q.hash : q \in Approving(approvals)} \cup {readHash[a]}
      <4>1. approvals' = approvals \cup {d} BY DEF Approve, Decide
      <4>2. d.hash = readHash[a] /\ d.decision = "approve" OBVIOUS
      <4> HIDE DEF d
      <4>3. Approving(approvals') = Approving(approvals) \cup {d} BY <4>1, <4>2
      <4> HIDE DEF Approving
      <4> QED BY <4>2, <4>3, ImageOfOneMore
    <3>3. Abstract!Approve(readHash[a]) BY <3>2 DEF Approve, Decide, Abstract!Approve
    <3> QED BY <3>1, <3>3 DEF Abstract!Next, Abstract!Approve
  <2>2. Reject(a) => Promised
    <3> SUFFICES ASSUME Reject(a) PROVE Promised OBVIOUS
    <3>1. {q \in approvals' : q.decision = "approve"} = {q \in approvals : q.decision = "approve"}
      BY DEF Reject, Decide
    <3> QED BY <3>1 DEF Reject, Decide, Abstract!vars
  <2> QED BY <1>0, <1>4, <2>1, <2>2 DEF Founder, Answer, DecideRead, EditBody, DecideConflict
<1>5. ASSUME NEW s \in Steps, NEW n \in Attempts, LeaseExpires(s, n) \/ RetryDue(s, n)
      PROVE  Promised
  BY <1>0, <1>5 DEF LeaseExpires, RetryDue
<1> QED BY <1>1, <1>2, <1>3, <1>4, <1>5 DEF Next, Time

(* The engine implements the approval boundary: only an approved hash is   *)
(* ever executed, and neither a decision nor an execution is taken back.   *)
THEOREM PlaybookRefines == Spec => ImplementsApprovedExecution
<1>1. Init => Abstract!Init BY BoundaryAbstractInitial
<1>2. BoundaryInv /\ [Next]_vars => [Abstract!Next]_(Abstract!vars)
  BY BoundaryAbstractStep
<1> QED BY <1>1, <1>2, BoundaryHolds, PTL DEF Spec, ImplementsApprovedExecution, Abstract!Spec
=============================================================================
