----------------------- MODULE PlaybookAttemptsProofs -----------------------
(***************************************************************************)
(* The attempts of a run's steps, for every playbook and any number of     *)
(* concurrent calls: who works on an attempt, what a settled step and a    *)
(* completed run keep, and how often a provider is called.                 *)
(***************************************************************************)
EXTENDS PlaybookEngineProofs, FiniteSetTheorems

(* What a step does to the attempts and to the call that takes it.  The    *)
(* actions of PlaybookEngine are of these ten kinds.                       *)
PreCall == Working \ {"finish", "catch"}
Settled == {"waiting_approval", "completed", "failed"}
Alone(a) ==
    /\ \A b \in Advancers \ {a} :
          pc'[b] = pc[b] /\ step'[b] = step[b] /\ attempt'[b] = attempt[b]
    /\ UNCHANGED expiries
Leaves(a) == Alone(a) /\ pc'[a] \notin Working /\ UNCHANGED ncalls
OnRow(a) == pc[a] \in OnStep /\ step[a] \in Steps /\ attempt[a] \in Attempts

Quiet(a) ==
    /\ Alone(a) /\ UNCHANGED <<status, ncalls>>
    /\ pc'[a] \in Working =>
          pc[a] \in Working /\ step'[a] = step[a] /\ attempt'[a] = attempt[a]
    /\ pc'[a] \in PreCall => pc[a] \in PreCall
Calls(a) ==
    /\ Alone(a) /\ UNCHANGED <<status, step, attempt>> /\ OnRow(a)
    /\ pc[a] = "call" /\ pc'[a] \in {"finish", "catch"}
    /\ ncalls' = [ncalls EXCEPT ![step[a]] = @ + 1]
Claims(a) ==
    /\ Alone(a) /\ UNCHANGED <<step, attempt, ncalls>> /\ OnRow(a)
    /\ pc[a] = "claim" /\ pc'[a] = "setRunning"
    /\ Claimable(a) /\ Mark(step[a], attempt[a], "running")
Settles(a) ==
    /\ Leaves(a) /\ OnRow(a) /\ pc[a] \in Working
    /\ \E st \in Settled : Mark(step[a], attempt[a], st)
Retries(a) ==
    /\ Leaves(a) /\ OnRow(a) /\ pc[a] \in Working
    /\ attempt[a] < MaxAttempts[step[a]] /\ ~NextAttemptExists(a)
    /\ status' = [status EXCEPT ![step[a]] = [@ EXCEPT
          ![attempt[a]] = "failed", ![attempt[a] + 1] = RetryStatus(step[a])]]
Rules(a, st) ==
    /\ Leaves(a) /\ OnRow(a) /\ pc[a] = "decide"
    /\ status[step[a]][attempt[a]] = "waiting_approval"
    /\ Mark(step[a], attempt[a], st)
Recovers(a) ==
    /\ Leaves(a) /\ pc[a] = "begin"
    /\ status' = [s \in Steps |-> [n \in Attempts |->
                    IF status[s][n] = "expired" THEN "pending" ELSE status[s][n]]]
Starts(a) ==
    /\ Leaves(a) /\ ~Started
    /\ status' = [s \in Steps |-> [status[s] EXCEPT ![1] = "pending"]]
Kinds(a) ==
    \/ Quiet(a) \/ Calls(a) \/ Claims(a) \/ Settles(a) \/ Retries(a)
    \/ Rules(a, "completed") \/ Rules(a, "failed") \/ Recovers(a) \/ Starts(a)
Ticks ==
    /\ UNCHANGED <<pc, step, attempt, ncalls>>
    /\ \/ UNCHANGED <<status, expiries>>
       \/ \E s \in Steps, n \in Attempts : LeaseExpires(s, n) \/ (RetryDue(s, n) /\ UNCHANGED expiries)

LEMMA EnterIsAlone ==
  ASSUME CallsOK, NEW a \in Advancers, NEW phase, Enter(a, phase), UNCHANGED expiries
  PROVE  Alone(a) /\ pc'[a] = phase
BY DEF CallsOK, Enter, Alone

LEMMA GotoIsAlone ==
  ASSUME CallsOK, NEW a \in Advancers, NEW phase, Goto(a, phase), UNCHANGED expiries
  PROVE  Alone(a) /\ pc'[a] = phase /\ UNCHANGED <<step, attempt>>
BY DEF CallsOK, Goto, memory, Alone

LEMMA StepKinds ==
  ASSUME TypeOK, NEW a \in Advancers, StartRun(a) \/ Sweep(a) \/ Crash(a) \/ Founder(a)
  PROVE  Kinds(a)
<1> USE DEF TypeOK, Return, Loop, Bounds, History, stepVars, Working, PreCall, Quiet, Kinds
<1>1. CASE StartRun(a) BY <1>1, GotoIsAlone DEF StartRun, Starts, Leaves
<1>2. CASE Sweep(a) BY <1>2, GotoIsAlone DEF Sweep
<1>3. CASE Crash(a) BY <1>3, EnterIsAlone DEF Crash
<1>4. CASE DecideRead(a) BY <1>4 DEF DecideRead, Take, Alone, CallsOK
<1>5. CASE Approve(a) BY <1>5, EnterIsAlone DEF Approve, Undisturbed, Decide, Rules, Leaves, OnRow, OnStep, CallsOK
<1>6. CASE Reject(a) BY <1>6, EnterIsAlone DEF Reject, Undisturbed, Decide, Rules, Leaves, OnRow, OnStep, CallsOK
<1>7. CASE EditBody(a) BY <1>7, EnterIsAlone DEF EditBody
<1>8. CASE DecideConflict(a) BY <1>8, EnterIsAlone DEF DecideConflict
<1> QED BY <1>1, <1>2, <1>3, <1>4, <1>5, <1>6, <1>7, <1>8 DEF Founder, Answer

LEMMA AdvanceKinds ==
  ASSUME TypeOK, NEW a \in Advancers, Advance(a)
  PROVE  Kinds(a)
<1> USE DEF TypeOK, Return, Loop, Bounds, History, stepVars, Working, PreCall, Quiet, Kinds, Leaves
<1>1. CASE RecoverStaleSteps(a) BY <1>1, GotoIsAlone DEF RecoverStaleSteps, Recovers
<1>2. CASE ReadRun(a)
  <2>1. CASE Return(a) BY <1>2, <2>1, EnterIsAlone DEF ReadRun
  <2>2. CASE ~(Return(a)) BY <1>2, <2>2 DEF ReadRun, Alone, CallsOK
  <2> QED BY <2>1, <2>2
<1>3. CASE SeeWaiting(a) \/ SeeReady(a) BY <1>3 DEF SeeWaiting, SeeReady, Take, Alone, CallsOK
<1>4. CASE SeeFailed(a) \/ SeeNoneReady(a) BY <1>4, GotoIsAlone DEF SeeFailed, SeeNoneReady
<1>5. CASE SetWaiting(a) \/ SetQueued(a) \/ FailRun(a) \/ CompleteRun(a) \/ ClaimLost(a)
  BY <1>5, EnterIsAlone DEF SetWaiting, SetQueued, FailRun, CompleteRun, ClaimLost
<1>6. CASE ClaimStep(a) BY <1>6, GotoIsAlone DEF ClaimStep, Claims, OnRow, OnStep, CallsOK
<1>7. CASE RefreshSkill(a) \/ ActionAuthorised(a)
  BY <1>7, GotoIsAlone DEF RefreshSkill, ActionAuthorised
<1>18. CASE SetRunning(a) BY <1>18 DEF SetRunning, Alone, CallsOK
<1>8. CASE RefreshApproval(a) \/ RefreshAction(a)
  BY <1>8 DEF RefreshApproval, RefreshAction, Alone, CallsOK
<1>9. ASSUME NEW p, PlaceBehindApproval(a, p), pc[a] \in Working PROVE Kinds(a)
  BY <1>9, EnterIsAlone DEF PlaceBehindApproval, Settles, Settled, OnRow, OnStep, CallsOK
<1>10. ASSUME NEW p, CompleteStep(a, p), pc[a] \in Working PROVE Kinds(a)
  BY <1>10, EnterIsAlone DEF CompleteStep, Settles, Settled, OnRow, OnStep, CallsOK
<1>11. ASSUME FailStep(a), pc[a] \in Working PROVE Kinds(a)
  BY <1>11, EnterIsAlone DEF FailStep, Settles, Settled, OnRow, OnStep, CallsOK
<1>12. ASSUME ScheduleRetry(a), pc[a] \in Working PROVE Kinds(a)
  <2>1. CASE RetryAborts(a) BY <2>1, EnterIsAlone DEF RetryAborts
  <2>2. CASE ~NextAttemptExists(a) /\ PlaceRetry(a)
    BY <1>12, <2>2, EnterIsAlone DEF ScheduleRetry, PlaceRetry, Retries, OnRow, OnStep, CallsOK
  <2> QED BY <1>12, <2>1, <2>2 DEF ScheduleRetry
<1>13. CASE CallProvider(a) BY <1>13, GotoIsAlone DEF CallProvider, Calls, OnRow, OnStep, CallsOK
<1>14. CASE WaitForApproval(a) \/ SkillBehindApproval(a)
  BY <1>9, <1>14 DEF WaitForApproval, SkillBehindApproval
<1>15. CASE SkillCompletes(a) \/ ActionCompletes(a)
  BY <1>10, <1>15 DEF SkillCompletes, ActionCompletes
<1>16. CASE SkillFails(a) \/ ActionRefused(a) \/ ActionFails(a)
  BY <1>11, <1>16 DEF SkillFails, ActionRefused, ActionFails
<1>17. CASE SkillRetries(a) \/ ActionRetries(a) BY <1>12, <1>17 DEF SkillRetries, ActionRetries
<1> QED
  BY <1>1, <1>2, <1>3, <1>4, <1>5, <1>6, <1>7, <1>8, <1>13, <1>14, <1>15, <1>16, <1>17, <1>18
     DEF Advance, Work

LEMMA NextKinds ==
  ASSUME TypeOK, [Next]_vars
  PROVE  (\E a \in Advancers : Kinds(a)) \/ Ticks
<1>1. CASE UNCHANGED vars BY <1>1 DEF vars, stepVars, memory, History, Bounds, Ticks
<1>2. CASE Time BY <1>2 DEF Time, LeaseExpires, RetryDue, memory, History, Bounds, Ticks
<1> QED BY <1>1, <1>2, StepKinds, AdvanceKinds DEF Next
-----------------------------------------------------------------------------
(* Before the run exists no call is under way and no attempt is there.     *)
Fresh == ~Started =>
    /\ \A a \in Advancers : pc[a] = "idle"
    /\ \A s \in Steps, n \in Attempts : status[s][n] = "absent"
(* Only the latest attempt of a step is still to be worked on or decided.  *)
Live == {"pending", "delayed", "running", "expired", "waiting_approval"}
LiveIsLatest == \A s \in Steps, n \in Attempts :
    status[s][n] \in Live => \A m \in Attempts : m > n => status[s][m] = "absent"
(* ClaimIsExclusive, of every state.                                       *)
Exclusive == \A a \in Advancers, s \in Steps, n \in Attempts :
    Holds(a, s, n) =>
        /\ status[s][n] = "running"
        /\ \A b \in Advancers : Holds(b, s, n) => a = b
AttemptsInv == TypeOK /\ Fresh /\ Exclusive /\ LiveIsLatest

LEMMA StaysStarted == ASSUME TypeOK, Started, [Next]_vars PROVE Started'
<1> USE DEF Started, SetRun, History, Bounds, stepVars
<1>1. CASE UNCHANGED run BY <1>1
<1>2. ASSUME NEW a \in Advancers, Advance(a) PROVE Started'
  <2>1. CASE SetWaiting(a) \/ SetQueued(a) \/ FailRun(a) \/ CompleteRun(a) \/ SetRunning(a)
    BY <2>1 DEF SetWaiting, SetQueued, FailRun, CompleteRun, SetRunning, SetRunStatus
  <2>2. CASE WaitForApproval(a) \/ SkillBehindApproval(a)
    BY <2>2 DEF WaitForApproval, SkillBehindApproval, PlaceBehindApproval
  <2>3. CASE FailStep(a) \/ ScheduleRetry(a) BY <2>3 DEF FailStep, ScheduleRetry, PlaceRetry, RetryAborts
  <2>4. CASE SkillCompletes(a) \/ ActionCompletes(a)
    BY <2>4 DEF SkillCompletes, ActionCompletes, CompleteStep
  <2>5. CASE UNCHANGED run BY <2>5
  <2> QED
    BY <1>2, <2>1, <2>2, <2>3, <2>4, <2>5 DEF Advance, Work, RecoverStaleSteps, ReadRun, SeeWaiting, SeeFailed,
       SeeReady, SeeNoneReady, ClaimStep, ClaimLost, RefreshSkill, RefreshApproval, RefreshAction,
       SkillRetries, SkillFails, ActionRefused, ActionAuthorised, CallProvider, ActionRetries,
       ActionFails
<1>3. ASSUME NEW a \in Advancers, StartRun(a) \/ Sweep(a) \/ Crash(a) \/ Founder(a) PROVE Started'
  BY <1>1, <1>3 DEF StartRun, Sweep, Crash, Founder, Answer, DecideRead, Approve, Reject, EditBody, DecideConflict
<1> QED
  BY <1>1, <1>2, <1>3 DEF Next, Time, LeaseExpires, RetryDue, vars

LEMMA FreshStep == ASSUME TypeOK, Fresh, [Next]_vars PROVE Fresh'
<1> SUFFICES ASSUME ~Started' PROVE Fresh' BY DEF Fresh
<1>0. ~Started BY StaysStarted
<1>1. /\ \A a \in Advancers : pc[a] = "idle"
      /\ \A s \in Steps, n \in Attempts : status[s][n] = "absent"
  BY <1>0 DEF Fresh
<1>2. CASE UNCHANGED <<pc, status>> BY <1>1, <1>2 DEF Fresh
<1>3. ASSUME NEW a \in Advancers PROVE ~StartRun(a) /\ ~Sweep(a) /\ ~Crash(a) /\ ~Founder(a) /\ ~Advance(a)
  <2>1. ~StartRun(a) BY DEF StartRun, SetRun, Started
  <2>2. ~Sweep(a) BY <1>0 DEF Sweep, Started
  <2>3. ~Crash(a) BY <1>1 DEF Crash
  <2>4. ~Founder(a) BY <1>1 DEF Founder, Answer, DecideRead, Approve, Reject, EditBody, DecideConflict
  <2>5. ~Advance(a)
    BY <1>1 DEF Advance, Work, RecoverStaleSteps, ReadRun, SeeWaiting, SeeFailed, SeeReady, SeeNoneReady,
       SetWaiting, SetQueued, FailRun, CompleteRun, ClaimStep, ClaimLost, SetRunning, RefreshSkill,
       RefreshApproval, RefreshAction, WaitForApproval, SkillBehindApproval, SkillCompletes,
       SkillRetries, SkillFails, ActionRefused, ActionAuthorised, CallProvider, ActionCompletes,
       ActionRetries, ActionFails
  <2> QED BY <2>1, <2>2, <2>3, <2>4, <2>5
<1>4. ~Time BY <1>1 DEF Time, LeaseExpires, RetryDue
<1> QED BY <1>2, <1>3, <1>4 DEF Next, vars, stepVars

(* What a holder's step may do to the rows, and keep the others' claims.   *)
KeepsClaims(a) == \A b \in Advancers, s \in Steps, n \in Attempts :
    Holds(b, s, n) /\ (b # a \/ pc'[a] \in Working) => status'[s][n] = "running"
KeepsHolding(a) == pc'[a] \in Working =>
    pc[a] \in Working /\ step'[a] = step[a] /\ attempt'[a] = attempt[a]
LEMMA ClaimsKept ==
  ASSUME Exclusive, NEW a \in Advancers, Alone(a), KeepsHolding(a), KeepsClaims(a)
  PROVE  Exclusive'
BY DEF Exclusive, Holds, Alone, KeepsHolding, KeepsClaims

LEMMA AttemptsKind ==
  ASSUME PlaybookAssumption, AttemptsInv, NEW a \in Advancers, Kinds(a)
  PROVE  Exclusive' /\ LiveIsLatest'
<1> USE DEF AttemptsInv
<1>0. status \in [Steps -> [Attempts -> StepStatus]] BY DEF TypeOK, RowsOK
<1>1. CASE Quiet(a)
  <2>0. KeepsClaims(a) /\ KeepsHolding(a)
    BY <1>1 DEF Quiet, Exclusive, KeepsClaims, KeepsHolding
  <2>1. Exclusive' BY <1>1, <2>0, ClaimsKept DEF Quiet
  <2> QED BY <1>1, <2>1 DEF Quiet, LiveIsLatest
<1>2. CASE Calls(a)
  <2>0. KeepsClaims(a) /\ KeepsHolding(a)
    BY <1>2 DEF Calls, Working, Exclusive, KeepsClaims, KeepsHolding
  <2>1. Exclusive' BY <1>2, <2>0, ClaimsKept DEF Calls
  <2> QED BY <1>2, <2>1 DEF Calls, LiveIsLatest
<1>3. CASE Claims(a)
  <2>1. /\ status[step[a]][attempt[a]] = "pending" /\ step[a] \in Steps /\ attempt[a] \in Attempts
        /\ status' = [status EXCEPT ![step[a]][attempt[a]] = "running"]
    BY <1>3 DEF Claims, Claimable, Mark, OnRow
  <2>2. Exclusive'
    <3>1. /\ step' = step /\ attempt' = attempt /\ pc'[a] \in Working
          /\ \A b \in Advancers \ {a} : pc'[b] = pc[b]
      BY <1>3 DEF Claims, Alone, Working
    <3>2. \A b \in Advancers : ~Holds(b, step[a], attempt[a]) BY <2>1 DEF Exclusive
    <3>3. \A t \in Steps, m \in Attempts : status'[t][m] =
             IF t = step[a] /\ m = attempt[a] THEN "running" ELSE status[t][m]
      BY <1>0, <2>1
    <3>4. ASSUME NEW b \in Advancers, NEW t \in Steps, NEW m \in Attempts, Holds(b, t, m)'
          PROVE  /\ status'[t][m] = "running"
                 /\ \A c \in Advancers : Holds(c, t, m)' => b = c
      <4>1. CASE b = a BY <3>1, <3>2, <3>3, <3>4, <4>1 DEF Holds
      <4>2. CASE b # a
        <5>1. Holds(b, t, m) /\ ~(t = step[a] /\ m = attempt[a])
          BY <3>1, <3>2, <3>4, <4>2 DEF Holds
        <5>2. \A c \in Advancers : Holds(c, t, m)' => Holds(c, t, m)
          BY <3>1, <5>1 DEF Holds
        <5>3. status[t][m] = "running" /\ \A c \in Advancers : Holds(c, t, m) => b = c
          BY <5>1 DEF Exclusive
        <5> QED BY <3>3, <5>1, <5>2, <5>3
      <4> QED BY <4>1, <4>2
    <3> QED BY <3>4 DEF Exclusive
  <2>3. LiveIsLatest' BY <1>0, <2>1 DEF LiveIsLatest, Live, Attempts
  <2> QED BY <2>2, <2>3
<1>4. ASSUME NEW st \in Settled, Alone(a), pc'[a] \notin Working,
             step[a] \in Steps, attempt[a] \in Attempts, Mark(step[a], attempt[a], st),
             status[step[a]][attempt[a]] \in Live,
             \A b \in Advancers \ {a} : ~Holds(b, step[a], attempt[a])
      PROVE  Exclusive' /\ LiveIsLatest'
  <2>0. KeepsClaims(a) /\ KeepsHolding(a)
    BY <1>0, <1>4 DEF Mark, Exclusive, Holds, KeepsClaims, KeepsHolding
  <2>1. Exclusive' BY <1>4, <2>0, ClaimsKept
  <2>2. LiveIsLatest' BY <1>0, <1>4 DEF Mark, LiveIsLatest, Live, Settled, Attempts
  <2> QED BY <2>1, <2>2
<1>5. CASE Settles(a)
  <2>1. Holds(a, step[a], attempt[a]) BY <1>5 DEF Settles, Holds
  <2>2. /\ status[step[a]][attempt[a]] = "running"
        /\ \A b \in Advancers \ {a} : ~Holds(b, step[a], attempt[a])
    BY <1>5, <2>1 DEF Settles, OnRow, Exclusive
  <2> QED BY <1>4, <1>5, <2>2 DEF Settles, Leaves, OnRow, Live
<1>6. CASE Retries(a)
  <2> DEFINE s == step[a]
             n == attempt[a]
  <2>0. s \in Steps /\ n \in Attempts /\ n + 1 \in Attempts
    BY <1>6 DEF Retries, OnRow, PlaybookAssumption, Attempts
  <2>1. Holds(a, s, n) BY <1>6 DEF Retries, Holds
  <2>2. status[s][n] = "running" /\ \A b \in Advancers \ {a} : ~Holds(b, s, n)
    BY <2>0, <2>1 DEF Exclusive
  <2>3. status[s][n + 1] = "absent" BY <1>6 DEF Retries, NextAttemptExists
  <2>4. /\ \A t \in Steps \ {s} : status'[t] = status[t]
        /\ \A m \in Attempts \ {n, n + 1} : status'[s][m] = status[s][m]
        /\ status'[s][n] = "failed" /\ status'[s][n + 1] \in {"delayed", "pending"}
    BY <1>0, <1>6, <2>0 DEF Retries, RetryStatus, Attempts
  <2>5. Exclusive'
    <3>1. \A b \in Advancers \ {a} : ~Holds(b, s, n + 1) BY <2>0, <2>3 DEF Exclusive
    <3>2. \A b \in Advancers \ {a}, t \in Steps, m \in Attempts :
             Holds(b, t, m) => status[t][m] = "running" /\ (t # s \/ m \notin {n, n + 1})
      BY <2>2, <3>1 DEF Exclusive
    <3>3. pc'[a] \notin Working BY <1>6 DEF Retries, Leaves
    <3>4. \A t \in Steps, m \in Attempts : t # s \/ m \notin {n, n + 1} =>
             status'[t][m] = status[t][m]
      BY <2>4
    <3>5. KeepsHolding(a) BY <3>3 DEF KeepsHolding
    <3>6. ASSUME NEW b \in Advancers, NEW t \in Steps, NEW m \in Attempts, Holds(b, t, m), b # a
          PROVE  status'[t][m] = "running"
      <4>1. status[t][m] = "running" /\ (t # s \/ m \notin {n, n + 1}) BY <3>2, <3>6
      <4>2. status'[t][m] = status[t][m] BY <3>4, <4>1
      <4> QED BY <4>1, <4>2
    <3>7. KeepsClaims(a)
      <4> SUFFICES ASSUME NEW b \in Advancers, NEW t \in Steps, NEW m \in Attempts,
                          Holds(b, t, m) /\ (b # a \/ pc'[a] \in Working)
                   PROVE  status'[t][m] = "running"
        BY DEF KeepsClaims
      <4> QED BY <3>3, <3>6
    <3> QED BY <1>6, <3>5, <3>7, ClaimsKept DEF Retries, Leaves
  <2>6. ASSUME NEW t \in Steps, NEW m \in Attempts, status'[t][m] \in Live,
               NEW k \in Attempts, k > m
        PROVE  status'[t][k] = "absent"
    <3>1. CASE t # s
      <4>1. status'[t] = status[t] BY <2>4, <3>1
      <4> QED BY <2>6, <4>1 DEF LiveIsLatest, Attempts
    <3>2. CASE t = s
      <4>1. /\ \A j \in Attempts : j > n => status[s][j] = "absent"
            /\ \A j \in Attempts : j < n => status[s][j] \notin Live
        BY <2>0, <2>2 DEF LiveIsLatest, Live
      <4>2. m = n + 1
        <5>1. m # n BY <2>4, <2>6, <3>2 DEF Live
        <5>2. m # n + 1 => status'[s][m] = status[s][m] BY <2>4, <5>1
        <5>3. m > n => status[s][m] \notin Live BY <4>1 DEF Live
        <5>4. m < n => status[s][m] \notin Live BY <4>1
        <5>5. m \in Int /\ n \in Int BY <2>0 DEF Attempts
        <5>6. status'[s][m] \in Live BY <2>6, <3>2
        <5> QED BY <5>1, <5>2, <5>3, <5>4, <5>5, <5>6
      <4>3. k > n /\ k \notin {n, n + 1} BY <2>0, <2>6, <4>2 DEF Attempts
      <4>4. status'[s][k] = status[s][k] BY <2>4, <4>3
      <4> QED BY <3>2, <4>1, <4>3, <4>4
    <3> QED BY <3>1, <3>2
  <2> QED BY <2>5, <2>6 DEF LiveIsLatest
<1>7. ASSUME NEW st \in {"completed", "failed"}, Rules(a, st) PROVE Exclusive' /\ LiveIsLatest'
  <2>1. /\ status[step[a]][attempt[a]] = "waiting_approval"
        /\ \A b \in Advancers : ~Holds(b, step[a], attempt[a])
    BY <1>7 DEF Rules, OnRow, Exclusive
  <2> QED BY <1>4, <1>7, <2>1 DEF Rules, Leaves, OnRow, Live, Settled
<1>8. CASE Recovers(a)
  <2>0. KeepsClaims(a) /\ KeepsHolding(a)
    BY <1>0, <1>8 DEF Recovers, Leaves, Exclusive, KeepsClaims, KeepsHolding
  <2>1. Exclusive' BY <1>8, <2>0, ClaimsKept DEF Recovers, Leaves
  <2>2. LiveIsLatest' BY <1>0, <1>8 DEF Recovers, LiveIsLatest, Live
  <2> QED BY <2>1, <2>2
<1>9. CASE Starts(a)
  <2>1. /\ \A b \in Advancers : pc[b] = "idle"
        /\ \A s \in Steps, n \in Attempts : status[s][n] = "absent"
    BY <1>9 DEF Starts, Fresh
  <2>2. Exclusive' BY <1>9, <2>1 DEF Starts, Leaves, Alone, Exclusive, Holds, Working
  <2>3. \A s \in Steps, n \in Attempts \ {1} : status'[s][n] = "absent"
    BY <1>0, <1>9, <2>1 DEF Starts
  <2>4. LiveIsLatest' BY <2>3 DEF LiveIsLatest, Live, Attempts
  <2> QED BY <2>2, <2>4
<1> QED BY <1>1, <1>2, <1>3, <1>5, <1>6, <1>7, <1>8, <1>9 DEF Kinds

LEMMA AttemptsTick ==
  ASSUME AttemptsInv, overruns' = 0, Ticks
  PROVE  Exclusive' /\ LiveIsLatest'
<1> USE DEF AttemptsInv
<1>0. status \in [Steps -> [Attempts -> StepStatus]] /\ UNCHANGED <<pc, step, attempt>>
  BY DEF TypeOK, RowsOK, Ticks
<1>1. CASE UNCHANGED status
  BY <1>0, <1>1 DEF Exclusive, Holds, LiveIsLatest
<1>2. ASSUME NEW s \in Steps, NEW n \in Attempts, NEW st \in {"expired", "pending"},
             status[s][n] \in Live, Mark(s, n, st),
             \A a \in Advancers : ~Holds(a, s, n)
      PROVE  Exclusive' /\ LiveIsLatest'
  <2>1. \A t \in Steps, m \in Attempts :
           status'[t][m] = IF t = s /\ m = n THEN st ELSE status[t][m]
    BY <1>0, <1>2 DEF Mark
  <2>2. Exclusive' BY <1>0, <1>2, <2>1 DEF Exclusive, Holds
  <2>3. LiveIsLatest' BY <1>2, <2>1 DEF LiveIsLatest, Live, Attempts
  <2> QED BY <2>2, <2>3
<1>3. ASSUME NEW s \in Steps, NEW n \in Attempts, LeaseExpires(s, n)
      PROVE  Exclusive' /\ LiveIsLatest'
  <2>1. overruns \in Nat BY DEF TypeOK, HistoryOK
  <2>2. \A a \in Advancers : ~Holds(a, s, n) BY <1>3, <2>1 DEF LeaseExpires
  <2> QED BY <1>2, <1>3, <2>2 DEF LeaseExpires, Live
<1>4. ASSUME NEW s \in Steps, NEW n \in Attempts, RetryDue(s, n)
      PROVE  Exclusive' /\ LiveIsLatest'
  <2>1. \A a \in Advancers : ~Holds(a, s, n) BY <1>4 DEF RetryDue, Exclusive
  <2> QED BY <1>2, <1>4, <2>1 DEF RetryDue, Live
<1> QED BY <1>1, <1>3, <1>4 DEF Ticks

LEMMA AttemptsStep ==
  ASSUME PlaybookAssumption, overruns' = 0, AttemptsInv, [Next]_vars
  PROVE  AttemptsInv'
<1>1. TypeOK' BY TypeStep DEF AttemptsInv
<1>2. Fresh' BY FreshStep DEF AttemptsInv
<1> QED BY <1>1, <1>2, NextKinds, AttemptsKind, AttemptsTick DEF AttemptsInv

(* That a live call outlasted its lease is never forgotten.                *)
LEMMA OverrunStays ==
  ASSUME TypeOK, [Next]_vars, overruns' = 0
  PROVE  overruns = 0
<1> USE DEF Bounds
<1>1. CASE UNCHANGED overruns BY <1>1
<1>2. CASE UNCHANGED vars BY <1>2 DEF vars
<1>3. ASSUME NEW a \in Advancers, Advance(a) PROVE UNCHANGED overruns
  BY <1>3 DEF Advance, Work, RecoverStaleSteps, ReadRun, SeeWaiting, SeeFailed, SeeReady, SeeNoneReady,
     SetWaiting, SetQueued, FailRun, CompleteRun, ClaimStep, ClaimLost, SetRunning, RefreshSkill,
     RefreshApproval, RefreshAction, WaitForApproval, SkillBehindApproval, SkillCompletes,
     SkillRetries, SkillFails, ActionRefused, ActionAuthorised, CallProvider, ActionCompletes,
     ActionRetries, ActionFails, PlaceBehindApproval, CompleteStep, FailStep, ScheduleRetry, PlaceRetry,
     RetryAborts
<1>4. ASSUME NEW a \in Advancers, StartRun(a) \/ Sweep(a) \/ Crash(a) \/ Founder(a)
      PROVE  UNCHANGED overruns
  BY <1>4 DEF StartRun, Sweep, Crash, Founder, Answer, DecideRead, Approve, Reject, Decide, EditBody,
     DecideConflict
<1>5. CASE Time BY <1>5 DEF Time, LeaseExpires, RetryDue, TypeOK, HistoryOK
<1> QED BY <1>1, <1>2, <1>3, <1>4, <1>5 DEF Next

(* The attempts are in order until a live call outlasts its lease.         *)
Orderly == TypeOK /\ (overruns = 0 => AttemptsInv)

LEMMA OrderlyStep ==
  ASSUME PlaybookAssumption, Orderly, [Next]_vars
  PROVE  Orderly' /\ (overruns' = 0 => overruns = 0 /\ AttemptsInv)
<1>1. TypeOK /\ TypeOK' BY TypeStep DEF Orderly
<1>2. overruns' = 0 => overruns = 0 BY <1>1, OverrunStays
<1> QED BY <1>1, <1>2, AttemptsStep DEF Orderly

LEMMA AttemptsAlways == Spec => []Orderly
<1>1. Init => Orderly
  BY PlaybookAssumption, TypeInitial
     DEF Init, Orderly, AttemptsInv, Fresh, Exclusive, Holds, Working, LiveIsLatest, Live
<1>2. Orderly /\ [Next]_vars => Orderly' BY PlaybookAssumption, OrderlyStep
<1> QED BY <1>1, <1>2, PTL DEF Spec

(* Until a live worker outlasts its lease, one call at most works on an    *)
(* attempt, whoever sweeps, starts, approves, retries, crashes.            *)
THEOREM PlaybookClaimsExclusive == Spec => []ClaimIsExclusive
<1>1. Orderly => ClaimIsExclusive BY DEF Orderly, AttemptsInv, Exclusive, ClaimIsExclusive
<1> QED BY <1>1, AttemptsAlways, PTL

-----------------------------------------------------------------------------
(* A step none of whose attempts is still live keeps all of them.          *)
Frozen(s) == \A n \in Attempts : status[s][n] \notin Live

LEMMA FrozenStays ==
  ASSUME PlaybookAssumption, AttemptsInv, Started, [Next]_vars, NEW s \in Steps, Frozen(s)
  PROVE  status'[s] = status[s]
<1> USE DEF AttemptsInv
<1>0. status \in [Steps -> [Attempts -> StepStatus]] BY DEF TypeOK, RowsOK
<1>1. ASSUME NEW a \in Advancers, Kinds(a) PROVE status'[s] = status[s]
  <2>1. CASE Quiet(a) \/ Calls(a) BY <2>1 DEF Quiet, Calls
  <2>2. CASE Claims(a)
    <3>1. step[a] # s BY <2>2 DEF Claims, Claimable, OnRow, Frozen, Live
    <3> QED BY <1>0, <2>2, <3>1 DEF Claims, Mark
  <2>3. CASE Settles(a) \/ Retries(a)
    <3>1. Holds(a, step[a], attempt[a]) /\ step[a] \in Steps /\ attempt[a] \in Attempts
      BY <2>3 DEF Settles, Retries, OnRow, Holds
    <3>2. step[a] # s
      <4>1. status[step[a]][attempt[a]] = "running" BY <3>1 DEF Exclusive
      <4> QED BY <3>1, <4>1 DEF Frozen, Live
    <3>3. CASE Settles(a) BY <1>0, <3>1, <3>2, <3>3 DEF Settles, Mark
    <3>4. CASE Retries(a) BY <1>0, <3>1, <3>2, <3>4 DEF Retries
    <3> QED BY <2>3, <3>3, <3>4
  <2>4. CASE Rules(a, "completed") \/ Rules(a, "failed")
    <3>1. step[a] # s BY <2>4 DEF Rules, OnRow, Frozen, Live
    <3> QED BY <1>0, <2>4, <3>1 DEF Rules, Mark
  <2>5. CASE Recovers(a)
    <3>1. \A n \in Attempts : status'[s][n] = status[s][n] BY <2>5 DEF Recovers, Frozen, Live
    <3>2. DOMAIN status'[s] = Attempts /\ DOMAIN status[s] = Attempts /\ status'[s] \in [Attempts -> StepStatus]
      BY <1>0, <2>5 DEF Recovers, StepStatus
    <3> QED BY <1>0, <3>1, <3>2
  <2>6. CASE Starts(a) BY <2>6 DEF Starts
  <2> QED BY <1>1, <2>1, <2>2, <2>3, <2>4, <2>5, <2>6 DEF Kinds
<1>2. CASE Ticks
  <2>1. ASSUME NEW t \in Steps, NEW n \in Attempts, LeaseExpires(t, n) \/ RetryDue(t, n)
        PROVE  status'[s] = status[s]
    <3>1. t # s BY <2>1 DEF LeaseExpires, RetryDue, Frozen, Live
    <3> QED BY <1>0, <2>1, <3>1 DEF LeaseExpires, RetryDue, Mark
  <2> QED BY <1>2, <2>1 DEF Ticks
<1> QED BY <1>1, <1>2, NextKinds

(* No step takes a completed attempt back, the first one included.         *)
LEMMA DoneStays ==
  ASSUME PlaybookAssumption, AttemptsInv, [Next]_vars, NEW s \in Steps, NEW n \in Attempts,
         status[s][n] = "completed"
  PROVE  status'[s][n] = "completed"
<1> USE DEF AttemptsInv
<1>0. status \in [Steps -> [Attempts -> StepStatus]] BY DEF TypeOK, RowsOK
<1>1. ASSUME NEW a \in Advancers, Kinds(a) PROVE status'[s][n] = "completed"
  <2>1. CASE Quiet(a) \/ Calls(a) BY <2>1 DEF Quiet, Calls
  <2>2. CASE Claims(a)
    <3>1. step[a] # s \/ attempt[a] # n BY <2>2 DEF Claims, Claimable
    <3> QED BY <1>0, <2>2, <3>1 DEF Claims, OnRow, Mark
  <2>3. CASE Settles(a) \/ Retries(a)
    <3>1. Holds(a, step[a], attempt[a]) /\ step[a] \in Steps /\ attempt[a] \in Attempts
      BY <2>3 DEF Settles, Retries, OnRow, Holds
    <3>2. step[a] # s \/ attempt[a] # n BY <3>1 DEF Exclusive
    <3>3. Retries(a) => step[a] # s \/ attempt[a] + 1 # n BY DEF Retries, NextAttemptExists
    <3>4. CASE Settles(a) BY <1>0, <3>1, <3>2, <3>4 DEF Settles, Mark
    <3>5. CASE Retries(a) BY <1>0, <3>1, <3>2, <3>3, <3>5 DEF Retries
    <3> QED BY <2>3, <3>4, <3>5
  <2>4. CASE Rules(a, "completed") \/ Rules(a, "failed")
    <3>1. step[a] # s \/ attempt[a] # n BY <2>4 DEF Rules
    <3> QED BY <1>0, <2>4, <3>1 DEF Rules, OnRow, Mark
  <2>5. CASE Recovers(a) BY <2>5 DEF Recovers
  <2>6. CASE Starts(a) BY <2>6 DEF Starts, Fresh
  <2> QED BY <1>1, <2>1, <2>2, <2>3, <2>4, <2>5, <2>6 DEF Kinds
<1>2. CASE Ticks
  <2>1. ASSUME NEW t \in Steps, NEW m \in Attempts, LeaseExpires(t, m) \/ RetryDue(t, m)
        PROVE  status'[s][n] = "completed"
    <3>1. t # s \/ m # n BY <2>1 DEF LeaseExpires, RetryDue
    <3> QED BY <1>0, <2>1, <3>1 DEF LeaseExpires, RetryDue, Mark
  <2> QED BY <1>2, <2>1 DEF Ticks
<1> QED BY <1>1, <1>2, NextKinds

(* Every UPDATE is by id alone; still no step takes a completed attempt    *)
(* back, until a live call outlasts its lease.                             *)
THEOREM PlaybookCompletedStays == Spec => CompletedAttemptStays
<1>1. Orderly /\ [Next]_vars =>
        [overruns' = 0 => \A s \in Steps, n \in Attempts :
            status[s][n] = "completed" => status'[s][n] = "completed"]_vars
  BY PlaybookAssumption, OrderlyStep, DoneStays
<1> QED BY <1>1, AttemptsAlways, PTL DEF Spec, CompletedAttemptStays

-----------------------------------------------------------------------------
(* A latest attempt that is completed or failed settles its step.          *)
LEMMA LatestFreezes ==
  ASSUME AttemptsInv, NEW s \in Steps, NEW n \in Attempts, IsLatest(s, n), status[s][n] \notin Live
  PROVE  Frozen(s)
<1> SUFFICES ASSUME NEW m \in Attempts, status[s][m] \in Live PROVE FALSE BY DEF Frozen
<1>1. m # n OBVIOUS
<1>2. CASE m > n BY <1>2 DEF IsLatest, Live
<1>3. CASE n > m BY <1>3 DEF AttemptsInv, LiveIsLatest, IsLatest
<1> QED BY <1>1, <1>2, <1>3 DEF Attempts

LEMMA SettledStepStays ==
  ASSUME PlaybookAssumption, AttemptsInv, [Next]_vars, NEW s \in Steps, NEW n \in Attempts,
         IsLatest(s, n), status[s][n] \notin Live
  PROVE  status'[s] = status[s] /\ IsLatest(s, n)'
<1>1. Frozen(s) BY LatestFreezes
<1>2. Started BY DEF AttemptsInv, Fresh, IsLatest
<1>3. status'[s] = status[s] BY <1>1, <1>2, FrozenStays
<1> QED BY <1>3 DEF IsLatest

(* Where a completed run comes from: a call that saw every step completed. *)
FinishInv == (run.status = "completed" \/ \E a \in Advancers : pc[a] = "complete") => AllCompleted

LEMMA AllCompletedStays ==
  ASSUME PlaybookAssumption, AttemptsInv, [Next]_vars, AllCompleted
  PROVE  AllCompleted'
<1> SUFFICES ASSUME NEW s \in Steps PROVE s \in Completed' BY DEF AllCompleted, Completed, InStatus
<1>1. PICK n \in Attempts : IsLatest(s, n) /\ status[s][n] = "completed"
  BY DEF AllCompleted, Completed, InStatus
<1>2. status'[s] = status[s] /\ IsLatest(s, n)' BY <1>1, SettledStepStays DEF Live
<1> QED BY <1>1, <1>2 DEF Completed, InStatus

LEMMA FinishFrom ==
  ASSUME TypeOK, [Next]_vars, run'.status = "completed" \/ \E a \in Advancers : pc'[a] = "complete"
  PROVE  run.status = "completed" \/ (\E a \in Advancers : pc[a] = "complete") \/ AllCompleted
<1> USE DEF TypeOK, CallsOK, SetRun, Return, Loop, Enter, Goto, memory, stepVars, History, Bounds
<1> DEFINE Came == run.status = "completed" \/ (\E a \in Advancers : pc[a] = "complete") \/ AllCompleted
           Still == run' = run /\ \A a \in Advancers : pc'[a] = "complete" => pc[a] = "complete"
<1>1. CASE Still BY <1>1
<1>2. ASSUME NEW a \in Advancers, Advance(a) PROVE Came
  <2>1. CASE CompleteRun(a) BY <2>1 DEF CompleteRun
  <2>2. CASE SeeNoneReady(a)
    <3>1. AllCompleted \/ Still BY <2>2 DEF SeeNoneReady
    <3> QED BY <1>1, <3>1
  <2>3. CASE SetWaiting(a) \/ SetQueued(a) \/ FailRun(a) \/ SetRunning(a)
    BY <2>3 DEF SetWaiting, SetQueued, FailRun, SetRunning, SetRunStatus
  <2>4. CASE WaitForApproval(a) \/ SkillBehindApproval(a)
    BY <2>4 DEF WaitForApproval, SkillBehindApproval, PlaceBehindApproval
  <2>5. CASE FailStep(a) BY <2>5 DEF FailStep
  <2>6. CASE ScheduleRetry(a) BY <1>1, <2>6 DEF ScheduleRetry, PlaceRetry, RetryAborts
  <2>7. CASE SkillCompletes(a) \/ ActionCompletes(a)
    BY <1>1, <2>7 DEF SkillCompletes, ActionCompletes, CompleteStep
  <2>8. CASE RecoverStaleSteps(a) \/ ReadRun(a) \/ SeeFailed(a) \/ ClaimStep(a) \/ ClaimLost(a)
             \/ RefreshSkill(a) \/ ActionAuthorised(a) \/ CallProvider(a)
    BY <1>1, <2>8 DEF RecoverStaleSteps, ReadRun, SeeFailed, ClaimStep, ClaimLost, RefreshSkill,
       ActionAuthorised, CallProvider
  <2>9. CASE SeeWaiting(a) \/ SeeReady(a) \/ RefreshApproval(a) \/ RefreshAction(a)
    BY <1>1, <2>9 DEF SeeWaiting, SeeReady, RefreshApproval, RefreshAction, Take
  <2> QED
    BY <1>2, <2>1, <2>2, <2>3, <2>4, <2>5, <2>6, <2>7, <2>8, <2>9
       DEF Advance, Work, SkillRetries, SkillFails, ActionRefused, ActionRetries, ActionFails
<1>3. ASSUME NEW a \in Advancers, StartRun(a) \/ Sweep(a) \/ Crash(a) PROVE Came
  BY <1>1, <1>3 DEF StartRun, Sweep, Crash
<1>4. ASSUME NEW a \in Advancers, Founder(a) PROVE Came
  BY <1>1, <1>4 DEF Founder, Answer, DecideRead, Take, Approve, Reject, EditBody, DecideConflict
<1> QED BY <1>1, <1>2, <1>3, <1>4 DEF Next, Time, LeaseExpires, RetryDue, vars

(* completeRun decides on rows it read earlier and writes by id alone; yet *)
(* a completed run has every step completed, until a live call outlasts    *)
(* its lease.                                                              *)
THEOREM PlaybookCompletedFinished == Spec => []CompletedRunIsFinished
<1> DEFINE Inv == overruns = 0 => FinishInv
<1>1. Init => Inv BY DEF Init, NoRun, FinishInv
<1>2. Orderly /\ Inv /\ [Next]_vars => Inv'
  <2>1. ASSUME AttemptsInv, FinishInv, [Next]_vars,
               run'.status = "completed" \/ \E a \in Advancers : pc'[a] = "complete"
        PROVE  AllCompleted'
    BY <2>1, PlaybookAssumption, FinishFrom, AllCompletedStays DEF FinishInv, AttemptsInv
  <2>2. AttemptsInv /\ FinishInv /\ [Next]_vars => FinishInv' BY <2>1 DEF FinishInv
  <2> QED BY <2>2, PlaybookAssumption, OrderlyStep
<1>3. Inv => CompletedRunIsFinished BY DEF FinishInv, CompletedRunIsFinished
<1> HIDE DEF Inv
<1> QED BY <1>1, <1>2, <1>3, AttemptsAlways, PTL DEF Spec

-----------------------------------------------------------------------------
(* Dependencies.  That the needs of a step were completed is read before   *)
(* the step is claimed, and never again: it must still hold of whoever has *)
(* chosen the step, and of every step somebody began.                      *)
Chosen == Working \cup {"claim"}
Begun(s) == ncalls[s] > 0 \/ \E n \in Attempts : status[s][n] \notin {"absent", "pending", "delayed"}
NeedsFirst == \A s \in Steps : Begun(s) => Needs[s] \subseteq Completed
ChosenAreReady == \A a \in Advancers : pc[a] \in Chosen => Needs[step[a]] \subseteq Completed

LEMMA CompletedGrows ==
  ASSUME PlaybookAssumption, AttemptsInv, [Next]_vars
  PROVE  Completed \subseteq Completed'
<1> SUFFICES ASSUME NEW s \in Completed PROVE s \in Completed' OBVIOUS
<1>1. s \in Steps /\ \E n \in Attempts : IsLatest(s, n) /\ status[s][n] = "completed"
  BY DEF Completed, InStatus
<1>2. PICK n \in Attempts : IsLatest(s, n) /\ status[s][n] = "completed" BY <1>1
<1>3. status'[s] = status[s] /\ IsLatest(s, n)' BY <1>1, <1>2, SettledStepStays DEF Live
<1> QED BY <1>1, <1>2, <1>3 DEF Completed, InStatus

(* Who begins a step had chosen it, and who has chosen a step found it     *)
(* ready.                                                                  *)
LEMMA BegunFrom ==
  ASSUME TypeOK, [Next]_vars, NEW s \in Steps, Begun(s)'
  PROVE  Begun(s) \/ \E a \in Advancers : pc[a] \in Chosen /\ step[a] = s
<1> DEFINE Goal == Begun(s) \/ \E a \in Advancers : pc[a] \in Chosen /\ step[a] = s
<1> USE DEF Begun, Chosen
<1>0. status \in [Steps -> [Attempts -> StepStatus]] /\ ncalls \in [Steps -> Nat]
  BY DEF TypeOK, RowsOK, HistoryOK
<1>1. ASSUME NEW a \in Advancers, Kinds(a) PROVE Goal
  <2>1. CASE Quiet(a) BY <2>1 DEF Quiet
  <2>2. CASE Calls(a) BY <1>0, <2>2 DEF Calls, Working
  <2>3. CASE Claims(a) BY <1>0, <2>3 DEF Claims, Mark
  <2>4. CASE Settles(a) BY <1>0, <2>4 DEF Settles, Leaves, OnRow, Mark
  <2>5. CASE Retries(a) BY <1>0, <2>5 DEF Retries, Leaves, OnRow
  <2>6. CASE Rules(a, "completed") \/ Rules(a, "failed")
    BY <1>0, <2>6 DEF Rules, Leaves, OnRow, Mark
  <2>7. CASE Recovers(a) BY <1>0, <2>7 DEF Recovers, Leaves
  <2>8. CASE Starts(a)
    <3>1. ncalls' = ncalls /\ status'[s] = [status[s] EXCEPT ![1] = "pending"]
      BY <1>0, <2>8 DEF Starts, Leaves
    <3>2. status[s] \in [Attempts -> StepStatus] BY <1>0
    <3> QED BY <3>1, <3>2
  <2> QED BY <1>1, <2>1, <2>2, <2>3, <2>4, <2>5, <2>6, <2>7, <2>8 DEF Kinds
<1>2. CASE Ticks BY <1>0, <1>2 DEF Ticks, LeaseExpires, RetryDue, Mark
<1> QED BY <1>1, <1>2, NextKinds

LEMMA ChosenFrom ==
  ASSUME TypeOK, [Next]_vars, NEW b \in Advancers, pc'[b] \in Chosen
  PROVE  (pc[b] \in Chosen /\ step'[b] = step[b]) \/ step'[b] \in Ready
<1> USE DEF TypeOK, CallsOK, Return, Loop, Enter, Goto, memory, Chosen, Working
<1> DEFINE Still == pc[b] \in Chosen /\ step'[b] = step[b]
           Came == Still \/ step'[b] \in Ready
<1>1. CASE UNCHANGED <<pc, step>> BY <1>1
<1>2. ASSUME NEW a \in Advancers, Advance(a) PROVE Came
  <2>1. CASE SeeReady(a)
    <3>1. CASE a = b BY <2>1, <3>1 DEF SeeReady, Take, IsFirst
    <3>2. CASE a # b BY <2>1, <3>2 DEF SeeReady, Take
    <3> QED BY <3>1, <3>2
  <2>2. CASE SeeWaiting(a) BY <2>2 DEF SeeWaiting, Take
  <2>3. CASE RefreshApproval(a) \/ RefreshAction(a) BY <2>3 DEF RefreshApproval, RefreshAction
  <2>4. CASE RecoverStaleSteps(a) \/ ReadRun(a) \/ SeeFailed(a) \/ SeeNoneReady(a)
    BY <2>4 DEF RecoverStaleSteps, ReadRun, SeeFailed, SeeNoneReady
  <2>5. CASE SetWaiting(a) \/ SetQueued(a) \/ FailRun(a) \/ CompleteRun(a)
    BY <2>5 DEF SetWaiting, SetQueued, FailRun, CompleteRun
  <2>6. CASE ClaimStep(a) \/ ClaimLost(a) \/ SetRunning(a) \/ RefreshSkill(a)
    BY <2>6 DEF ClaimStep, ClaimLost, SetRunning, RefreshSkill
  <2>7. CASE ActionAuthorised(a) \/ CallProvider(a) BY <2>7 DEF ActionAuthorised, CallProvider
  <2>8. CASE WaitForApproval(a) \/ SkillBehindApproval(a)
    BY <2>8 DEF WaitForApproval, SkillBehindApproval, PlaceBehindApproval
  <2>9. CASE FailStep(a) BY <2>9 DEF FailStep
  <2>10. CASE ScheduleRetry(a) BY <2>10 DEF ScheduleRetry, PlaceRetry, RetryAborts
  <2>11. CASE SkillCompletes(a) \/ ActionCompletes(a)
    BY <2>11 DEF SkillCompletes, ActionCompletes, CompleteStep
  <2> QED
    BY <1>2, <2>1, <2>2, <2>3, <2>4, <2>5, <2>6, <2>7, <2>8, <2>9, <2>10, <2>11
       DEF Advance, Work, SkillRetries, SkillFails, ActionRefused, ActionRetries, ActionFails
<1>3. ASSUME NEW a \in Advancers, StartRun(a) \/ Sweep(a) \/ Crash(a) PROVE Came
  BY <1>3 DEF StartRun, Sweep, Crash
<1>4. ASSUME NEW a \in Advancers, Founder(a) PROVE Came
  BY <1>4 DEF Founder, Answer, DecideRead, Take, Approve, Reject, EditBody, DecideConflict
<1> QED BY <1>1, <1>2, <1>3, <1>4 DEF Next, Time, LeaseExpires, RetryDue, vars, memory

LEMMA NeedsStep ==
  ASSUME PlaybookAssumption, AttemptsInv, NeedsFirst, ChosenAreReady, [Next]_vars
  PROVE  NeedsFirst' /\ ChosenAreReady'
<1>1. TypeOK /\ Completed \subseteq Completed' BY CompletedGrows DEF AttemptsInv
<1>2. ASSUME NEW s \in Steps, Begun(s)' PROVE Needs[s] \subseteq Completed
  BY <1>1, <1>2, BegunFrom DEF NeedsFirst, ChosenAreReady
<1>3. ASSUME NEW a \in Advancers, pc'[a] \in Chosen PROVE Needs[step'[a]] \subseteq Completed
  BY <1>1, <1>3, ChosenFrom DEF ChosenAreReady, Ready
<1> QED BY <1>1, <1>2, <1>3 DEF NeedsFirst, ChosenAreReady

(* advancePlaybookRun chooses a step from rows it read before: still no    *)
(* step is begun, and no provider called for one, before everything it     *)
(* depends on is completed, and what it depends on stays so, until a live  *)
(* call outlasts its lease.                                                *)
THEOREM PlaybookNeedsFirst == Spec => [](overruns = 0 => NeedsFirst)
<1> DEFINE Inv == overruns = 0 => NeedsFirst /\ ChosenAreReady
<1>1. Init => Inv
  BY DEF Init, NeedsFirst, Begun, ChosenAreReady, Chosen, Working
<1>2. Orderly /\ Inv /\ [Next]_vars => Inv'
  BY PlaybookAssumption, OrderlyStep, NeedsStep
<1>3. Inv => (overruns = 0 => NeedsFirst) OBVIOUS
<1> HIDE DEF Inv
<1> QED BY <1>1, <1>2, <1>3, AttemptsAlways, PTL DEF Spec

-----------------------------------------------------------------------------
(* A decision is on the latest attempt of its step, and stands there.      *)
Verdict(r) == IF r.decision = "approve" THEN "completed" ELSE "failed"
Stands(r) == IsLatest(r.step, r.attempt) /\ status[r.step][r.attempt] = Verdict(r)
DecisionsStand == \A r \in approvals : Stands(r)

LEMMA NewDecisions ==
  ASSUME TypeOK, [Next]_vars
  PROVE  \/ UNCHANGED approvals
         \/ \E a \in Advancers, d \in {"approve", "reject"} :
               /\ approvals' = approvals \cup {[step |-> step[a], attempt |-> attempt[a],
                                                hash |-> readHash[a], decision |-> d]}
               /\ pc[a] = "decide" /\ status[step[a]][attempt[a]] = "waiting_approval"
               /\ Mark(step[a], attempt[a], IF d = "approve" THEN "completed" ELSE "failed")
<1> USE DEF History, Bounds
<1>1. ASSUME NEW a \in Advancers, Advance(a) PROVE UNCHANGED approvals
  BY <1>1 DEF Advance, Work, RecoverStaleSteps, ReadRun, SeeWaiting, SeeFailed, SeeReady, SeeNoneReady,
     SetWaiting, SetQueued, FailRun, CompleteRun, ClaimStep, ClaimLost, SetRunning, RefreshSkill,
     RefreshApproval, RefreshAction, WaitForApproval, SkillBehindApproval, SkillCompletes,
     SkillRetries, SkillFails, ActionRefused, ActionAuthorised, CallProvider, ActionCompletes,
     ActionRetries, ActionFails, PlaceBehindApproval, CompleteStep, FailStep, ScheduleRetry, PlaceRetry,
     RetryAborts
<1>2. ASSUME NEW a \in Advancers, StartRun(a) \/ Sweep(a) \/ Crash(a) \/ DecideRead(a)
             \/ EditBody(a) \/ DecideConflict(a)
      PROVE  UNCHANGED approvals
  BY <1>2 DEF StartRun, Sweep, Crash, DecideRead, EditBody, DecideConflict
<1> QED
  BY <1>1, <1>2 DEF Next, Founder, Answer, Approve, Reject, Decide, Undisturbed, Time, LeaseExpires, RetryDue, vars

LEMMA DecisionsStep ==
  ASSUME PlaybookAssumption, AttemptsInv, DecisionsStand, [Next]_vars
  PROVE  DecisionsStand'
<1> USE DEF AttemptsInv
<1>1. ASSUME NEW r \in approvals PROVE Stands(r)'
  <2>1. r.step \in Steps /\ r.attempt \in Attempts BY DEF TypeOK, HistoryOK, Approval
  <2>2. IsLatest(r.step, r.attempt) /\ status[r.step][r.attempt] = Verdict(r)
    BY DEF DecisionsStand, Stands
  <2>3. status'[r.step] = status[r.step] /\ IsLatest(r.step, r.attempt)'
    BY <2>1, <2>2, SettledStepStays DEF Verdict, Live
  <2> QED BY <2>2, <2>3 DEF Stands, Verdict
<1>2. CASE UNCHANGED approvals BY <1>1, <1>2 DEF DecisionsStand
<1>3. ASSUME NEW a \in Advancers, NEW d \in {"approve", "reject"}, pc[a] = "decide",
             status[step[a]][attempt[a]] = "waiting_approval",
             Mark(step[a], attempt[a], IF d = "approve" THEN "completed" ELSE "failed"),
             NEW r, r = [step |-> step[a], attempt |-> attempt[a], hash |-> readHash[a], decision |-> d]
      PROVE  Stands(r)'
  <2>1. step[a] \in Steps /\ attempt[a] \in Attempts BY <1>3 DEF TypeOK, CallsOK, OnStep
  <2>2. \A m \in Attempts : m > attempt[a] => status[step[a]][m] = "absent"
    BY <1>3, <2>1 DEF LiveIsLatest, Live
  <2>3. /\ status'[step[a]][attempt[a]] = (IF d = "approve" THEN "completed" ELSE "failed")
        /\ \A m \in Attempts : m > attempt[a] => status'[step[a]][m] = status[step[a]][m]
    BY <1>3, <2>1 DEF Mark, TypeOK, RowsOK, Attempts
  <2>4. r.step = step[a] /\ r.attempt = attempt[a] /\ r.decision = d BY <1>3
  <2> QED BY <2>2, <2>3, <2>4 DEF Stands, IsLatest, Verdict
<1> QED BY <1>1, <1>2, <1>3, NewDecisions DEF DecisionsStand

(* Once a founder has rejected an approval step, no action behind it       *)
(* reaches a provider, before or after, until a live call outlasts its     *)
(* lease.                                                                  *)
THEOREM PlaybookRejectionStops == Spec => []RejectionStopsTheAction
<1> DEFINE Inv == overruns = 0 => DecisionsStand
<1>1. Init => Inv BY DEF Init, DecisionsStand
<1>2. Orderly /\ Inv /\ [Next]_vars => Inv'
  BY PlaybookAssumption, OrderlyStep, DecisionsStep
<1>3. Orderly /\ Inv /\ ExactApproval => RejectionStopsTheAction
  <2> SUFFICES ASSUME AttemptsInv, DecisionsStand, ExactApproval, NEW r \in approvals, NEW c \in calls,
                      r.decision = "reject", ApprovalOf[c.step] = r.step
               PROVE  FALSE
    BY DEF RejectionStopsTheAction, Orderly
  <2> DEFINE q == [step |-> ApprovalOf[c.step], attempt |-> c.approvalAttempt,
                   hash |-> c.hash, decision |-> "approve"]
  <2>1. q \in approvals BY DEF ExactApproval
  <2>2. /\ IsLatest(r.step, r.attempt) /\ status[r.step][r.attempt] = "failed"
        /\ IsLatest(r.step, q.attempt) /\ status[r.step][q.attempt] = "completed"
    BY <2>1 DEF DecisionsStand, Stands, Verdict
  <2>3. r.attempt \in Attempts /\ q.attempt \in Attempts
    BY <2>1 DEF AttemptsInv, TypeOK, HistoryOK, Approval
  <2>4. r.attempt = q.attempt BY <2>2, <2>3 DEF IsLatest, Attempts
  <2> QED BY <2>2, <2>4
<1> HIDE DEF Inv
<1> QED BY <1>1, <1>2, <1>3, AttemptsAlways, PlaybookExactApproval, PTL DEF Spec

-----------------------------------------------------------------------------
(* Why a step calls its provider at most MaxAttempts times and once more   *)
(* for each expiry, leases overrun or not: an attempt that can still be    *)
(* claimed, and a caller that has claimed one and not called yet, is a     *)
(* token for one call.  A claim passes the token on, a call spends it, and *)
(* only an expired lease makes a new one.                                  *)
Open(s) == {n \in Attempts :
    \/ status[s][n] \in {"pending", "delayed", "expired"}
    \/ status[s][n] = "absent" /\ n <= MaxAttempts[s]}
Bearers(s) == {a \in Advancers : step[a] = s /\ pc[a] \in PreCall}
CallTokens == \A s \in Steps :
    ncalls[s] + Cardinality(Bearers(s)) + Cardinality(Open(s)) <= MaxAttempts[s] + expiries

Shrinks(s) ==
    /\ Open(s)' \subseteq Open(s) /\ Bearers(s)' \subseteq Bearers(s)
    /\ ncalls'[s] = ncalls[s] /\ expiries' = expiries
Spends(s, a) ==
    /\ a \in Bearers(s) /\ Bearers(s)' \subseteq Bearers(s) \ {a}
    /\ Open(s)' \subseteq Open(s) /\ ncalls'[s] = ncalls[s] + 1 /\ expiries' = expiries
Passes(s, a, n) ==
    /\ Bearers(s)' \subseteq Bearers(s) \cup {a} /\ n \in Open(s) /\ Open(s)' \subseteq Open(s) \ {n}
    /\ ncalls'[s] = ncalls[s] /\ expiries' = expiries
Mints(s, n) ==
    /\ Bearers(s)' \subseteq Bearers(s) /\ Open(s)' \subseteq Open(s) \cup {n}
    /\ ncalls'[s] = ncalls[s] /\ expiries' = expiries + 1

LEMMA TokenKinds ==
  ASSUME PlaybookAssumption, TypeOK, Fresh, [Next]_vars, NEW s \in Steps
  PROVE  \/ Shrinks(s)
         \/ \E a \in Advancers : Spends(s, a)
         \/ \E a \in Advancers, n \in Attempts : Passes(s, a, n)
         \/ \E n \in Attempts : Mints(s, n)
<1> DEFINE Goal == \/ Shrinks(s)
                   \/ \E a \in Advancers : Spends(s, a)
                   \/ \E a \in Advancers, n \in Attempts : Passes(s, a, n)
                   \/ \E n \in Attempts : Mints(s, n)
<1>0. status \in [Steps -> [Attempts -> StepStatus]] /\ ncalls \in [Steps -> Nat]
  BY DEF TypeOK, RowsOK, HistoryOK
(* An attempt that was marked with what cannot be claimed opens nothing.   *)
<1>a. ASSUME NEW t \in Steps, NEW n \in Attempts, NEW st \in Settled \cup {"running"}, Mark(t, n, st)
      PROVE  Open(s)' \subseteq Open(s)
  BY <1>0, <1>a DEF Mark, Open, Settled
<1>b. ASSUME NEW a \in Advancers, Leaves(a)
      PROVE  Bearers(s)' \subseteq Bearers(s) /\ ncalls'[s] = ncalls[s] /\ expiries' = expiries
  BY <1>b DEF Leaves, Alone, Bearers, PreCall
<1>1. ASSUME NEW a \in Advancers, Kinds(a) PROVE Goal
  <2>1. CASE Quiet(a)
    <3>1. Bearers(s)' \subseteq Bearers(s) BY <2>1 DEF Quiet, Alone, Bearers, PreCall
    <3>2. Open(s)' = Open(s) BY <2>1 DEF Quiet, Open
    <3> QED BY <2>1, <3>1, <3>2 DEF Quiet, Alone, Shrinks
  <2>2. CASE Calls(a)
    <3>1. Open(s)' = Open(s) BY <2>2 DEF Calls, Open
    <3>2. Bearers(s)' \subseteq Bearers(s) \ {a} BY <2>2 DEF Calls, Alone, Bearers, PreCall, Working
    <3>3. CASE step[a] = s
      <4>1. a \in Bearers(s) BY <2>2, <3>3 DEF Calls, Bearers, PreCall, Working
      <4> QED BY <1>0, <2>2, <3>1, <3>2, <3>3, <4>1 DEF Calls, Alone, Spends
    <3>4. CASE step[a] # s BY <1>0, <2>2, <3>1, <3>2, <3>4 DEF Calls, Alone, OnRow, Shrinks
    <3> QED BY <3>3, <3>4
  <2>3. CASE Claims(a)
    <3>1. /\ step[a] \in Steps /\ attempt[a] \in Attempts /\ Mark(step[a], attempt[a], "running")
          /\ status[step[a]][attempt[a]] = "pending" /\ UNCHANGED <<step, ncalls, expiries>>
          /\ \A b \in Advancers \ {a} : pc'[b] = pc[b]
      BY <2>3 DEF Claims, OnRow, Claimable, Alone
    <3>2. Open(s)' \subseteq Open(s) BY <1>a, <3>1
    <3>3. CASE step[a] = s
      <4>1. attempt[a] \in Open(s) /\ attempt[a] \notin Open(s)' BY <1>0, <3>1, <3>3 DEF Open, Mark
      <4>2. Bearers(s)' \subseteq Bearers(s) \cup {a} BY <3>1 DEF Bearers
      <4>3. Passes(s, a, attempt[a]) BY <3>1, <3>2, <4>1, <4>2 DEF Passes
      <4> QED BY <3>1, <4>3
    <3>4. CASE step[a] # s
      <4>1. Bearers(s)' \subseteq Bearers(s) BY <3>1, <3>4 DEF Bearers
      <4> QED BY <3>1, <3>2, <4>1 DEF Shrinks
    <3> QED BY <3>3, <3>4
  <2>4. CASE Settles(a)
    <3>1. Open(s)' \subseteq Open(s) BY <1>a, <2>4 DEF Settles, OnRow
    <3> QED BY <1>b, <2>4, <3>1 DEF Settles, Shrinks
  <2>5. CASE Retries(a)
    <3>1. /\ step[a] \in Steps /\ attempt[a] \in Attempts /\ attempt[a] < MaxAttempts[step[a]]
          /\ attempt[a] + 1 \in Attempts
      BY <2>5 DEF Retries, OnRow, PlaybookAssumption, Attempts
    <3>2. /\ status[step[a]][attempt[a] + 1] = "absent"
          /\ status'[step[a]][attempt[a]] = "failed"
          /\ \A m \in Attempts \ {attempt[a], attempt[a] + 1} : status'[step[a]][m] = status[step[a]][m]
          /\ \A t \in Steps \ {step[a]} : status'[t] = status[t]
      BY <1>0, <2>5, <3>1 DEF Retries, NextAttemptExists, Attempts
    <3>3. attempt[a] + 1 <= MaxAttempts[step[a]] BY <3>1 DEF PlaybookAssumption, Attempts
    <3>4. ASSUME NEW n \in Open(s)' PROVE n \in Open(s)
      <4>1. CASE step[a] # s BY <3>2, <3>4, <4>1 DEF Open
      <4>2. CASE step[a] = s
        <5>1. n \in Attempts /\ n # attempt[a] BY <3>2, <3>4, <4>2 DEF Open
        <5>2. CASE n = attempt[a] + 1 BY <3>2, <3>3, <4>2, <5>1, <5>2 DEF Open
        <5>3. CASE n # attempt[a] + 1 BY <3>2, <3>4, <4>2, <5>1, <5>3 DEF Open
        <5> QED BY <5>2, <5>3
      <4> QED BY <4>1, <4>2
    <3> QED BY <1>b, <2>5, <3>4 DEF Retries, Shrinks
  <2>6. CASE Rules(a, "completed") \/ Rules(a, "failed")
    <3>1. Open(s)' \subseteq Open(s) BY <1>a, <2>6 DEF Rules, OnRow, Settled
    <3> QED BY <1>b, <2>6, <3>1 DEF Rules, Shrinks
  <2>7. CASE Recovers(a)
    <3>1. Open(s)' \subseteq Open(s) BY <1>0, <2>7 DEF Recovers, Open
    <3> QED BY <1>b, <2>7, <3>1 DEF Recovers, Shrinks
  <2>8. CASE Starts(a)
    <3>1. \A n \in Attempts : status[s][n] = "absent" BY <2>8 DEF Starts, Fresh
    <3>2. \A n \in Attempts : n # 1 => status'[s][n] = "absent" BY <1>0, <2>8, <3>1 DEF Starts
    <3>3. 1 <= MaxAttempts[s] BY DEF PlaybookAssumption
    <3>4. Open(s)' \subseteq Open(s) BY <3>1, <3>2, <3>3 DEF Open
    <3> QED BY <1>b, <2>8, <3>4 DEF Starts, Shrinks
  <2> QED BY <1>1, <2>1, <2>2, <2>3, <2>4, <2>5, <2>6, <2>7, <2>8 DEF Kinds
<1>2. CASE Ticks
  <2>1. Bearers(s)' = Bearers(s) /\ ncalls'[s] = ncalls[s] BY <1>2 DEF Ticks, Bearers
  <2>2. CASE UNCHANGED <<status, expiries>> BY <2>1, <2>2 DEF Open, Shrinks
  <2>3. ASSUME NEW t \in Steps, NEW n \in Attempts, LeaseExpires(t, n) PROVE Goal
    <3>1. Open(s)' \subseteq Open(s) \cup {n} BY <1>0, <2>3 DEF LeaseExpires, Mark, Open
    <3>2. Mints(s, n) BY <2>1, <2>3, <3>1 DEF LeaseExpires, Mints
    <3> QED BY <3>2
  <2>4. ASSUME NEW t \in Steps, NEW n \in Attempts, RetryDue(t, n), UNCHANGED expiries PROVE Goal
    <3>1. Open(s)' \subseteq Open(s) BY <1>0, <2>4 DEF RetryDue, Mark, Open
    <3> QED BY <2>1, <2>4, <3>1 DEF Shrinks
  <2> QED BY <1>2, <2>2, <2>3, <2>4 DEF Ticks
<1> QED BY <1>1, <1>2, NextKinds

LEMMA TokensFinite ==
  ASSUME PlaybookAssumption, IsFiniteSet(Advancers), NEW S \in SUBSET Advancers, NEW T \in SUBSET Attempts
  PROVE  /\ IsFiniteSet(S) /\ IsFiniteSet(T)
         /\ Cardinality(S) \in Nat /\ Cardinality(T) \in Nat
<1>1. IsFiniteSet(Attempts)
  <2>1. MaxAttempt \in Nat BY DEF PlaybookAssumption
  <2> QED BY <2>1, FS_Interval DEF Attempts
<1> QED BY <1>1, FS_Subset, FS_CardinalityType

LEMMA TokensCounted ==
  ASSUME PlaybookAssumption, IsFiniteSet(Advancers), TypeOK, TypeOK', Fresh, CallTokens, [Next]_vars
  PROVE  CallTokens'
<1> SUFFICES ASSUME NEW s \in Steps
             PROVE  ncalls'[s] + Cardinality(Bearers(s)') + Cardinality(Open(s)') <= MaxAttempts[s] + expiries'
  BY DEF CallTokens
<1> DEFINE B == Bearers(s)  C == Bearers(s)'  O == Open(s)  P == Open(s)'
<1>1. /\ B \subseteq Advancers /\ C \subseteq Advancers /\ O \subseteq Attempts /\ P \subseteq Attempts
      /\ ncalls[s] \in Nat /\ expiries \in Nat /\ MaxAttempts[s] \in Nat
  BY DEF TypeOK, HistoryOK, Bearers, Open, PlaybookAssumption
<1>2. ncalls[s] + Cardinality(B) + Cardinality(O) <= MaxAttempts[s] + expiries BY DEF CallTokens
<1> HIDE DEF B, C, O, P
<1>3. /\ IsFiniteSet(B) /\ IsFiniteSet(O)
      /\ Cardinality(B) \in Nat /\ Cardinality(C) \in Nat
      /\ Cardinality(O) \in Nat /\ Cardinality(P) \in Nat
  BY <1>1, TokensFinite
<1>4. C \subseteq B => Cardinality(C) <= Cardinality(B) BY <1>3, FS_Subset
<1>5. P \subseteq O => Cardinality(P) <= Cardinality(O) BY <1>3, FS_Subset
<1>6. CASE Shrinks(s) BY <1>1, <1>2, <1>3, <1>4, <1>5, <1>6 DEF Shrinks, B, C, O, P
<1>7. ASSUME NEW a \in Advancers, Spends(s, a)
      PROVE  ncalls'[s] + Cardinality(C) + Cardinality(P) <= MaxAttempts[s] + expiries'
  <2>1. /\ a \in B /\ C \subseteq B \ {a} /\ P \subseteq O
        /\ ncalls'[s] = ncalls[s] + 1 /\ expiries' = expiries
    BY <1>7 DEF Spends, B, C, O, P
  <2>2. IsFiniteSet(B \ {a}) /\ Cardinality(B \ {a}) = Cardinality(B) - 1
    BY <1>3, <2>1, FS_RemoveElement
  <2>3. Cardinality(C) <= Cardinality(B) - 1 BY <2>1, <2>2, FS_Subset
  <2>4. Cardinality(P) <= Cardinality(O) BY <1>5, <2>1
  <2>5. ncalls'[s] = ncalls[s] + 1 /\ expiries' = expiries BY <2>1
  <2>6. ncalls[s] + 1 + Cardinality(C) + Cardinality(P) <= ncalls[s] + Cardinality(B) + Cardinality(O)
    BY <1>1, <1>3, <2>3, <2>4
  <2> QED BY <1>1, <1>2, <1>3, <2>5, <2>6
<1>8. ASSUME NEW a \in Advancers, NEW n \in Attempts, Passes(s, a, n)
      PROVE  ncalls'[s] + Cardinality(C) + Cardinality(P) <= MaxAttempts[s] + expiries'
  <2>1. /\ C \subseteq B \cup {a} /\ n \in O /\ P \subseteq O \ {n}
        /\ ncalls'[s] = ncalls[s] /\ expiries' = expiries
    BY <1>8 DEF Passes, B, C, O, P
  <2>2. /\ IsFiniteSet(B \cup {a})
        /\ Cardinality(B \cup {a}) = Cardinality(B) \/ Cardinality(B \cup {a}) = Cardinality(B) + 1
    BY <1>3, FS_AddElement
  <2>3. IsFiniteSet(O \ {n}) /\ Cardinality(O \ {n}) = Cardinality(O) - 1
    BY <1>3, <2>1, FS_RemoveElement
  <2>4. Cardinality(C) <= Cardinality(B \cup {a}) BY <2>1, <2>2, FS_Subset
  <2>5. Cardinality(P) <= Cardinality(O) - 1 BY <2>1, <2>3, FS_Subset
  <2>6. Cardinality(C) <= Cardinality(B) + 1 BY <1>3, <2>2, <2>4
  <2> QED BY <1>1, <1>2, <1>3, <2>1, <2>5, <2>6
<1>9. ASSUME NEW n \in Attempts, Mints(s, n)
      PROVE  ncalls'[s] + Cardinality(C) + Cardinality(P) <= MaxAttempts[s] + expiries'
  <2>1. /\ C \subseteq B /\ P \subseteq O \cup {n}
        /\ ncalls'[s] = ncalls[s] /\ expiries' = expiries + 1
    BY <1>9 DEF Mints, B, C, O, P
  <2>2. /\ IsFiniteSet(O \cup {n})
        /\ Cardinality(O \cup {n}) = Cardinality(O) \/ Cardinality(O \cup {n}) = Cardinality(O) + 1
    BY <1>3, FS_AddElement
  <2>3. Cardinality(P) <= Cardinality(O \cup {n}) BY <2>1, <2>2, FS_Subset
  <2>4. Cardinality(P) <= Cardinality(O) + 1 BY <1>3, <2>2, <2>3
  <2>5. Cardinality(C) <= Cardinality(B) BY <1>4, <2>1
  <2>6. ncalls'[s] = ncalls[s] /\ expiries' = expiries + 1 BY <2>1
  <2> QED BY <1>1, <1>2, <1>3, <2>4, <2>5, <2>6
<1> QED BY <1>6, <1>7, <1>8, <1>9, TokenKinds DEF B, C, O, P

LEMMA TokensInitial ==
  ASSUME PlaybookAssumption, Init
  PROVE  CallTokens
<1> SUFFICES ASSUME NEW s \in Steps
             PROVE  ncalls[s] + Cardinality(Bearers(s)) + Cardinality(Open(s)) <= MaxAttempts[s] + expiries
  BY DEF CallTokens
<1>1. Bearers(s) = {} BY DEF Init, Bearers, PreCall, Working
<1>2. Open(s) = 1..MaxAttempts[s]
  BY DEF Init, Open, Attempts, PlaybookAssumption
<1>3. Cardinality(1..MaxAttempts[s]) = MaxAttempts[s] BY FS_Interval DEF PlaybookAssumption
<1>4. MaxAttempts[s] \in Nat BY DEF PlaybookAssumption
<1>5. ncalls[s] = 0 /\ expiries = 0 BY DEF Init
<1> QED BY <1>1, <1>2, <1>3, <1>4, <1>5, FS_EmptySet

(* Retries and recovery: a step calls its provider once per attempt, and   *)
(* once more for each lease that expired, never more often, however many   *)
(* callers advance the run and however long they outlast their leases.     *)
THEOREM PlaybookCallsBounded == ASSUME IsFiniteSet(Advancers) PROVE Spec => []CallsBounded
<1> DEFINE Inv == TypeOK /\ Fresh /\ CallTokens
<1>1. Init => Inv
  BY PlaybookAssumption, TypeInitial, TokensInitial DEF Init, Fresh
<1>2. Inv /\ [Next]_vars => Inv'
  BY PlaybookAssumption, TypeStep, FreshStep, TokensCounted
<1>3. Inv => CallsBounded
  <2> SUFFICES ASSUME TypeOK, CallTokens, NEW s \in Steps PROVE ncalls[s] <= MaxAttempts[s] + expiries
    BY DEF CallsBounded
  <2>1. Cardinality(Bearers(s)) \in Nat /\ Cardinality(Open(s)) \in Nat
    BY PlaybookAssumption, TokensFinite DEF Bearers, Open
  <2>2. ncalls[s] \in Nat /\ expiries \in Nat /\ MaxAttempts[s] \in Nat
    BY PlaybookAssumption DEF TypeOK, HistoryOK, PlaybookAssumption
  <2>3. ncalls[s] + Cardinality(Bearers(s)) + Cardinality(Open(s)) <= MaxAttempts[s] + expiries
    BY DEF CallTokens
  <2> QED BY <2>1, <2>2, <2>3
<1> QED BY <1>1, <1>2, <1>3, PTL DEF Spec
=============================================================================
