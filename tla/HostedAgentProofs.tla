------------------------- MODULE HostedAgentProofs -------------------------
(***************************************************************************)
(* Proofs about HostedAgent, for any number of runs, months and turns, any *)
(* cap and any step ceiling.                                               *)
(***************************************************************************)
EXTENDS HostedAgent, FiniteSetTheorems, TLAPS

(* A counter kept per run, or per month, stays one when an entry grows, or *)
(* when an entry that is positive shrinks.                                 *)
LEMMA Grows == ASSUME NEW S, NEW f \in [S -> Nat], NEW s \in S
               PROVE [f EXCEPT ![s] = @ + 1] \in [S -> Nat]
OBVIOUS

LEMMA Shrinks == ASSUME NEW S, NEW f \in [S -> Nat], NEW s \in S, f[s] > 0
                 PROVE [f EXCEPT ![s] = @ - 1] \in [S -> Nat]
<1>1. f[s] - 1 \in Nat OBVIOUS
<1> QED BY <1>1

LEMMA Overwrites == ASSUME NEW S, NEW T, NEW f \in [S -> T], NEW s \in S, NEW t \in T
                    PROVE [f EXCEPT ![s] = t] \in [S -> T]
OBVIOUS

(* Rows, budget, locals and histories keep the shapes of their tables.     *)
LEMMA TypeInitial == ASSUME Init PROVE TypeOK
BY AgentAssumption DEF AgentAssumption, Init, TypeOK, Status, Ended, Phase, Switch

LEMMA TypeStep == ASSUME TypeOK, [Next]_agentVars PROVE TypeOK'
<1> USE AgentAssumption DEF AgentAssumption, TypeOK, Status, Ended, Phase, Switch, ledgerVars, budgetVars, seenVars,
      childVars, scheduleVars, loopVars, historyVars, Goto, Leaves, ReadLine
<1>1. CASE UNCHANGED agentVars BY <1>1 DEF agentVars
<1>2. ASSUME NEW r \in Runs, Begin(r) PROVE TypeOK'
  <2>1. CASE ClaimDueSchedule(r) BY <2>1 DEF ClaimDueSchedule
  <2>2. CASE CheckInFlight(r)
    <3>1. (Goto(r, "idle") /\ Leaves(r)) \/ (Goto(r, "preflight") /\ UNCHANGED scheduleVars)
      BY <2>2, Zenon DEF CheckInFlight
    <3>2. UNCHANGED <<ledgerVars, budgetVars, loopVars, childVars, historyVars>>
      BY <2>2 DEF CheckInFlight
    <3>3. CASE Goto(r, "idle") /\ Leaves(r) BY <3>2, <3>3
    <3>4. CASE Goto(r, "preflight") /\ UNCHANGED scheduleVars BY <3>2, <3>4
    <3> QED BY <3>1, <3>3, <3>4
  <2>3. CASE StartManual(r) BY <2>3 DEF StartManual
  <2>4. CASE Preflight(r)
    <3>1. (Goto(r, "insert") /\ UNCHANGED scheduleVars) \/ (Goto(r, "idle") /\ Leaves(r))
      BY <2>4, Zenon DEF Preflight
    <3>2. UNCHANGED <<ledgerVars, budgetVars, loopVars, childVars, historyVars>>
      BY <2>4 DEF Preflight
    <3>3. CASE Goto(r, "insert") /\ UNCHANGED scheduleVars BY <3>2, <3>3
    <3>4. CASE Goto(r, "idle") /\ Leaves(r) BY <3>2, <3>4
    <3> QED BY <3>1, <3>3, <3>4
  <2>5. ASSUME NEW b \in Backends, StartAgentRun(r, b) PROVE TypeOK'
    BY <2>5 DEF StartAgentRun
  <2> QED BY <1>2, <2>1, <2>2, <2>3, <2>4, <2>5 DEF Begin, Start
<1>3. ASSUME NEW r \in Runs, Model(r) PROVE TypeOK'
  <2>1. CASE BeginModelCall(r) BY <2>1, Grows DEF BeginModelCall
  <2>2. CASE ModelFails(r) BY <2>2 DEF ModelFails
  <2>3. ASSUME NEW t \in BOOLEAN, ModelAnswers(r, t) PROVE TypeOK'
    BY <2>3, Grows DEF ModelAnswers
  <2> QED BY <1>3, <2>1, <2>2, <2>3 DEF Model, Answer
<1>4. ASSUME NEW r \in Runs, DriveChild(r) PROVE TypeOK'
  <2>1. CASE SpawnChild(r) BY <2>1 DEF SpawnChild
  <2>2. CASE SpawnFails(r) BY <2>2 DEF SpawnFails
  <2>3. CASE ReadToolResult(r) BY <2>3, Shrinks DEF ReadToolResult
  <2>4. ASSUME NEW phase \in {"settle", "failing"}, Goto(r, phase), ReadEnd(r) PROVE TypeOK'
    BY <2>4 DEF ReadEnd
  <2>5. CASE KillChild(r) BY <2>5 DEF KillChild
  <2>6. CASE ReadTurn(r) BY <2>6, Grows, Shrinks DEF ReadTurn
  <2>7. CASE ReadMessage(r) BY <2>7, Grows, Shrinks DEF ReadMessage
  <2>8. CASE ReadTurnCompleted(r) BY <2>8, Grows, Shrinks DEF ReadTurnCompleted
  <2>9. CASE ReadFailure(r) BY <2>9, Grows, Shrinks DEF ReadFailure
  <2> QED
    BY <1>4, <2>1, <2>2, <2>3, <2>4, <2>5, <2>6, <2>7, <2>8, <2>9 DEF DriveChild, ReadEnd
<1>5. ASSUME NEW r \in Runs, Account(r) PROVE TypeOK'
  <2>1. CASE ChargeStep(r)
    <3>1. logged' \in [0..Months -> Nat] BY <2>1, Grows DEF ChargeStep, Charge
    <3>2. charged' \in [Runs -> Nat] BY <2>1, Grows DEF ChargeStep, Charge
    <3>3. spent' \in Nat /\ period' \in 0..Months BY <2>1 DEF ChargeStep, Charge, SpentThisMonth
    <3> QED BY <2>1, <3>1, <3>2, <3>3 DEF ChargeStep, Charge
  <2>2. CASE AppendModelRow(r) BY <2>2, Grows DEF AppendModelRow, AfterModelRow
  <2>3. CASE AppendToolRow(r) BY <2>3, Grows DEF AppendToolRow, AfterToolRow, IsByok
  <2>4. CASE AccountingFails(r) BY <2>4 DEF AccountingFails
  <2>5. CASE AfterStep(r)
    <3>1. \E phase \in Phase : Goto(r, phase) BY <2>5 DEF AfterStep
    <3>2. todo' \in {todo, [todo EXCEPT ![r] = {"budget", "stop"}]} BY <2>5 DEF AfterStep
    <3>3. UNCHANGED <<ledgerVars, budgetVars, scheduleVars, backend, hops, tools, latched, budgetSeen,
                      stopSeen, childVars, historyVars>>
      BY <2>5 DEF AfterStep
    <3>4. pc' \in [Runs -> Phase] BY <3>1
    <3>5. todo' \in [Runs -> SUBSET {"budget", "stop"}]
      <4>1. {"budget", "stop"} \in SUBSET {"budget", "stop"} OBVIOUS
      <4>2. [todo EXCEPT ![r] = {"budget", "stop"}] \in [Runs -> SUBSET {"budget", "stop"}]
        BY <4>1, Overwrites
      <4> QED BY <3>2, <4>2
    <3> QED BY <3>3, <3>4, <3>5
  <2>6. CASE ReadBudget(r) BY <2>6 DEF ReadBudget, Available
  <2>7. CASE ReadStop(r) BY <2>7 DEF ReadStop, StopRequested, Running
  <2>8. CASE ReadFails(r) BY <2>8 DEF ReadFails
  <2>9. CASE Decide(r) BY <2>9 DEF Decide
  <2> QED
    BY <1>5, <2>1, <2>2, <2>3, <2>4, <2>5, <2>6, <2>7, <2>8, <2>9 DEF Account
<1>6. ASSUME NEW r \in Runs, Finish(r) PROVE TypeOK'
  <2>1. CASE Settle(r)
    <3>1. UNCHANGED <<asked, steps, stale, budgetVars, childVars, historyVars>>
      BY <2>1 DEF Settle
    <3>2. (Goto(r, "failing") /\ UNCHANGED <<status, scheduleVars, loopVars>>)
             \/ (Return(r, "done") /\ Leaves(r) /\ FinishAgentRun(r, Outcome(r)))
      BY <2>1, Zenon DEF Settle
    <3>3. CASE Goto(r, "failing") /\ UNCHANGED <<status, scheduleVars, loopVars>> BY <3>1, <3>3
    <3>4. CASE Return(r, "done") /\ Leaves(r) /\ FinishAgentRun(r, Outcome(r))
      <4>1. Outcome(r) \in Ended BY DEF Outcome
      <4>2. status' \in [Runs -> Status] BY <3>4, <4>1 DEF FinishAgentRun
      <4> QED BY <3>1, <3>4, <4>2 DEF Return
    <3> QED BY <3>2, <3>3, <3>4
  <2> USE DEF Return
  <2>2. CASE SettleFails(r) BY <2>2 DEF SettleFails
  <2>3. CASE RecordFailure(r) BY <2>3 DEF RecordFailure, FinishAgentRun
  <2>4. CASE RecordingFails(r) BY <2>4 DEF RecordingFails
  <2> QED BY <1>6, <2>1, <2>2, <2>3, <2>4 DEF Finish
<1>7. ASSUME NEW r \in Runs, Child(r) \/ Crash(r) PROVE TypeOK'
  <2>1. CASE ChildPrints(r) BY <2>1, Grows DEF ChildPrints
  <2>2. CASE ChildExits(r) BY <2>2 DEF ChildExits
  <2>3. CASE Crash(r) BY <2>3 DEF Crash, Return
  <2> QED BY <1>7, <2>1, <2>2, <2>3 DEF Child
<1>8. CASE ReapStaleAgentRuns BY <1>8 DEF ReapStaleAgentRuns
<1>9. CASE Operator
  <2>1. ASSUME NEW S \in SUBSET Runs, RequestAgentRunStop(S) PROVE TypeOK'
    BY <2>1 DEF RequestAgentRunStop
  <2>2. ASSUME NEW on \in Switch, SetAgentBudget(on) PROVE TypeOK'
    BY <2>2 DEF SetAgentBudget, SpentThisMonth
  <2>3. CASE DisableAgentSchedule BY <2>3 DEF DisableAgentSchedule
  <2>4. {r \in Runs : Running(r) /\ ~asked[r]} \in SUBSET Runs OBVIOUS
  <2> QED BY <1>9, <2>1, <2>2, <2>3, <2>4 DEF Operator, StopAll
<1>10. CASE Clock
  <2>1. CASE NextMonth
    <3>1. month + 1 \in 0..Months BY <2>1 DEF NextMonth
    <3> QED BY <2>1, <3>1 DEF NextMonth
  <2>2. CASE WindowOpens BY <2>2 DEF WindowOpens
  <2>3. ASSUME NEW r \in Runs, BecomesStale(r) PROVE TypeOK'
    BY <2>3 DEF BecomesStale
  <2> QED BY <1>10, <2>1, <2>2, <2>3 DEF Clock
<1> QED
  BY <1>1, <1>2, <1>3, <1>4, <1>5, <1>6, <1>7, <1>8, <1>9, <1>10 DEF Next, Drive

(* Type correctness of every reachable state.                              *)
THEOREM AgentTypeCorrect == Spec => []TypeOK
<1>1. Init => TypeOK BY TypeInitial
<1>2. TypeOK /\ [Next]_agentVars => TypeOK' BY TypeStep
<1> QED BY <1>1, <1>2, PTL DEF Spec

-----------------------------------------------------------------------------
(* The budget.  Only three steps touch it, and a month not yet begun has   *)
(* no charge in it, so a row of an earlier month counts as nothing spent.  *)
SpendInv ==
    /\ SpendIsLogged
    /\ period <= month
    /\ \A m \in 0..Months : m > month => logged[m] = 0

LEMMA BudgetWriters ==
  ASSUME [Next]_agentVars
  PROVE  \/ UNCHANGED budgetVars
         \/ \E r \in Runs : ChargeStep(r)
         \/ \E on \in Switch : SetAgentBudget(on)
         \/ NextMonth
<1>1. CASE UNCHANGED agentVars BY <1>1 DEF agentVars
<1>2. ASSUME NEW r \in Runs, Begin(r) PROVE UNCHANGED budgetVars
  BY <1>2 DEF Begin, Start, Leaves, ClaimDueSchedule, CheckInFlight, StartManual, Preflight, StartAgentRun
<1>3. ASSUME NEW r \in Runs, Model(r) PROVE UNCHANGED budgetVars
  BY <1>3 DEF Model, Answer, BeginModelCall, ModelFails, ModelAnswers
<1>4. ASSUME NEW r \in Runs, DriveChild(r) PROVE UNCHANGED budgetVars
  BY <1>4 DEF DriveChild, SpawnChild, SpawnFails, ReadToolResult, ReadEnd, KillChild, ReadLine,
     ReadTurn, ReadMessage, ReadTurnCompleted, ReadFailure
<1>5. ASSUME NEW r \in Runs, Account(r) PROVE ChargeStep(r) \/ UNCHANGED budgetVars
  BY <1>5 DEF Account, AppendModelRow, AppendToolRow, AccountingFails, AfterStep, ReadBudget,
     ReadStop, ReadFails, Decide
<1>6. ASSUME NEW r \in Runs, Finish(r) PROVE UNCHANGED budgetVars
  BY <1>6 DEF Finish, Settle, SettleFails, RecordFailure, RecordingFails
<1>7. ASSUME NEW r \in Runs, Child(r) \/ Crash(r) PROVE UNCHANGED budgetVars
  BY <1>7 DEF Child, ChildPrints, ChildExits, Crash
<1>8. CASE ReapStaleAgentRuns BY <1>8 DEF ReapStaleAgentRuns
<1>9. CASE Operator
  BY <1>9 DEF Operator, StopAll, RequestAgentRunStop, DisableAgentSchedule
<1>10. CASE Clock BY <1>10 DEF Clock, WindowOpens, BecomesStale
<1> QED
  BY <1>1, <1>2, <1>3, <1>4, <1>5, <1>6, <1>7, <1>8, <1>9, <1>10 DEF Next, Drive

LEMMA SpendStep == ASSUME TypeOK, SpendInv, [Next]_agentVars PROVE SpendInv'
<1> USE AgentAssumption DEF AgentAssumption, SpendInv, SpendIsLogged, SpentThisMonth
<1>0. /\ spent \in Nat /\ period \in 0..Months /\ month \in 0..Months
      /\ logged \in [0..Months -> Nat]
  BY DEF TypeOK
<1>1. CASE UNCHANGED budgetVars BY <1>1 DEF budgetVars
<1>2. ASSUME NEW r \in Runs, ChargeStep(r) PROVE SpendInv'
  BY <1>0, <1>2 DEF ChargeStep, Charge
<1>3. ASSUME NEW on \in Switch, SetAgentBudget(on) PROVE SpendInv'
  BY <1>0, <1>3 DEF SetAgentBudget
<1>4. CASE NextMonth BY <1>0, <1>4 DEF NextMonth
<1> QED BY <1>1, <1>2, <1>3, <1>4, BudgetWriters

LEMMA SpendAlways == Spec => []SpendInv
<1>1. Init => SpendInv
  BY AgentAssumption DEF AgentAssumption, Init, SpendInv, SpendIsLogged, SpentThisMonth
<1>2. TypeOK /\ SpendInv /\ [Next]_agentVars => SpendInv' BY SpendStep
<1> QED BY <1>1, <1>2, AgentTypeCorrect, PTL DEF Spec

(* What getAgentBudget reports is what the month's calls add up to.        *)
THEOREM SpendAlwaysLogged == Spec => []SpendIsLogged
<1>1. SpendInv => SpendIsLogged BY DEF SpendInv
<1> QED BY <1>1, SpendAlways, PTL

-----------------------------------------------------------------------------
(* The stop request.  A run that is recorded as stopped was asked: what    *)
(* the loop saw while the run was running was a request, and a call that   *)
(* has no row yet has seen nothing.                                        *)
Unstarted == {"idle", "check", "preflight", "insert"}

StopInv ==
    /\ StoppedWasAsked
    /\ \A r \in Runs : pc[r] \in Unstarted => status[r] = "none" /\ ~stopSeen[r]
    /\ \A r \in Runs : stopSeen[r] /\ Running(r) => asked[r]

LEMMA StopStep == ASSUME TypeOK, StopInv, [Next]_agentVars PROVE StopInv'
<1> USE DEF StopInv, StoppedWasAsked, Running, Unstarted, ledgerVars, seenVars, loopVars, Goto, ReadLine
<1>0. /\ pc \in [Runs -> Phase] /\ status \in [Runs -> Status] /\ asked \in [Runs -> BOOLEAN]
      /\ stopSeen \in [Runs -> BOOLEAN]
  BY DEF TypeOK
<1>1. CASE UNCHANGED agentVars BY <1>1 DEF agentVars
<1>2. ASSUME NEW r \in Runs, Begin(r) PROVE StopInv'
  <2>1. CASE ClaimDueSchedule(r) BY <1>0, <2>1 DEF ClaimDueSchedule
  <2>2. CASE CheckInFlight(r) BY <1>0, <2>2 DEF CheckInFlight
  <2>3. CASE StartManual(r) BY <1>0, <2>3 DEF StartManual
  <2>4. CASE Preflight(r) BY <1>0, <2>4 DEF Preflight
  <2>5. ASSUME NEW b \in Backends, StartAgentRun(r, b) PROVE StopInv'
    BY <1>0, <2>5 DEF StartAgentRun
  <2> QED BY <1>2, <2>1, <2>2, <2>3, <2>4, <2>5 DEF Begin, Start
<1>3. ASSUME NEW r \in Runs, Model(r) PROVE StopInv'
  <2>1. CASE BeginModelCall(r) BY <1>0, <2>1 DEF BeginModelCall
  <2>2. CASE ModelFails(r) BY <1>0, <2>2 DEF ModelFails
  <2>3. ASSUME NEW t \in BOOLEAN, ModelAnswers(r, t) PROVE StopInv'
    BY <1>0, <2>3 DEF ModelAnswers
  <2> QED BY <1>3, <2>1, <2>2, <2>3 DEF Model, Answer
<1>4. ASSUME NEW r \in Runs, DriveChild(r) PROVE StopInv'
  <2>1. CASE SpawnChild(r) BY <1>0, <2>1 DEF SpawnChild
  <2>2. CASE SpawnFails(r) BY <1>0, <2>2 DEF SpawnFails
  <2>3. CASE ReadToolResult(r) BY <1>0, <2>3 DEF ReadToolResult
  <2>4. CASE ReadEnd(r) BY <1>0, <2>4 DEF ReadEnd
  <2>5. CASE KillChild(r) BY <1>0, <2>5 DEF KillChild
  <2>6. CASE ReadTurn(r) BY <1>0, <2>6 DEF ReadTurn
  <2>7. CASE ReadMessage(r) BY <1>0, <2>7 DEF ReadMessage
  <2>8. CASE ReadTurnCompleted(r) BY <1>0, <2>8 DEF ReadTurnCompleted
  <2>9. CASE ReadFailure(r) BY <1>0, <2>9 DEF ReadFailure
  <2> QED
    BY <1>4, <2>1, <2>2, <2>3, <2>4, <2>5, <2>6, <2>7, <2>8, <2>9 DEF DriveChild
<1>5. ASSUME NEW r \in Runs, Account(r) PROVE StopInv'
  <2>1. CASE ChargeStep(r) BY <1>0, <2>1 DEF ChargeStep, IsCodex
  <2>2. CASE AppendModelRow(r) BY <1>0, <2>2 DEF AppendModelRow, AfterModelRow
  <2>3. CASE AppendToolRow(r) BY <1>0, <2>3 DEF AppendToolRow, AfterToolRow
  <2>4. CASE AccountingFails(r) BY <1>0, <2>4 DEF AccountingFails
  <2>5. CASE AfterStep(r) BY <1>0, <2>5 DEF AfterStep
  <2>6. CASE ReadBudget(r) BY <1>0, <2>6 DEF ReadBudget
  <2>7. CASE ReadStop(r) BY <1>0, <2>7 DEF ReadStop, StopRequested
  <2>8. CASE ReadFails(r) BY <1>0, <2>8 DEF ReadFails
  <2>9. CASE Decide(r) BY <1>0, <2>9 DEF Decide
  <2> QED
    BY <1>5, <2>1, <2>2, <2>3, <2>4, <2>5, <2>6, <2>7, <2>8, <2>9 DEF Account
<1>6. ASSUME NEW r \in Runs, Finish(r) PROVE StopInv'
  <2> USE DEF Return, FinishAgentRun, Outcome
  <2>1. CASE Settle(r) BY <1>0, <2>1 DEF Settle
  <2>2. CASE SettleFails(r) BY <1>0, <2>2 DEF SettleFails
  <2>3. CASE RecordFailure(r) BY <1>0, <2>3 DEF RecordFailure
  <2>4. CASE RecordingFails(r) BY <1>0, <2>4 DEF RecordingFails
  <2> QED BY <1>6, <2>1, <2>2, <2>3, <2>4 DEF Finish
<1>7. ASSUME NEW r \in Runs, Child(r) \/ Crash(r) PROVE StopInv'
  <2>1. CASE ChildPrints(r) BY <2>1 DEF ChildPrints
  <2>2. CASE ChildExits(r) BY <2>2 DEF ChildExits
  <2>3. CASE Crash(r) BY <1>0, <2>3 DEF Crash, Return
  <2> QED BY <1>7, <2>1, <2>2, <2>3 DEF Child
<1>8. CASE ReapStaleAgentRuns BY <1>0, <1>8 DEF ReapStaleAgentRuns, Reapable
<1>9. CASE Operator
  <2>1. ASSUME NEW S \in SUBSET Runs, RequestAgentRunStop(S) PROVE StopInv'
    BY <1>0, <2>1 DEF RequestAgentRunStop
  <2>2. ASSUME NEW on \in Switch, SetAgentBudget(on) PROVE StopInv' BY <2>2 DEF SetAgentBudget
  <2>3. CASE DisableAgentSchedule BY <2>3 DEF DisableAgentSchedule
  <2>4. {r \in Runs : Running(r) /\ ~asked[r]} \in SUBSET Runs OBVIOUS
  <2> QED BY <1>9, <2>1, <2>2, <2>3, <2>4 DEF Operator, StopAll
<1>10. CASE Clock
  <2>1. CASE NextMonth BY <2>1 DEF NextMonth
  <2>2. CASE WindowOpens BY <2>2 DEF WindowOpens
  <2>3. ASSUME NEW r \in Runs, BecomesStale(r) PROVE StopInv' BY <2>3 DEF BecomesStale
  <2> QED BY <1>10, <2>1, <2>2, <2>3 DEF Clock
<1> QED
  BY <1>1, <1>2, <1>3, <1>4, <1>5, <1>6, <1>7, <1>8, <1>9, <1>10 DEF Next, Drive

LEMMA StopInitial == ASSUME Init PROVE StopInv
BY DEF Init, StopInv, StoppedWasAsked, Running, Unstarted

LEMMA StopAlways == Spec => []StopInv
<1>1. Init => StopInv BY StopInitial
<1>2. TypeOK /\ StopInv /\ [Next]_agentVars => StopInv' BY StopStep
<1> QED BY <1>1, <1>2, AgentTypeCorrect, PTL DEF Spec

(* Only a run somebody asked to stop is recorded as stopped.               *)
THEOREM StoppedAlwaysAsked == Spec => []StoppedWasAsked
<1>1. StopInv => StoppedWasAsked BY DEF StopInv
<1> QED BY <1>1, StopAlways, PTL

-----------------------------------------------------------------------------
(* The ledger promises what AgentRunLedger says: six steps write to it,    *)
(* and each is a step of the abstract ledger.                              *)
LEMMA LedgerStep == ASSUME TypeOK, StopInv, [Next]_agentVars PROVE [Ledger!Next]_<<status, steps>>
<1> USE DEF Ledger!Next, Ledger!Start, Ledger!Step, Ledger!End, Ledger!Ended, Running, ledgerVars, Goto
<1>0. /\ status \in [Runs -> Status] /\ steps \in [Runs -> Nat]
      /\ pc \in [Runs -> Phase]
  BY DEF TypeOK
<1>1. CASE UNCHANGED agentVars BY <1>1 DEF agentVars
<1>2. ASSUME NEW r \in Runs, Begin(r) PROVE [Ledger!Next]_<<status, steps>>
  <2>1. ASSUME NEW b \in Backends, StartAgentRun(r, b) PROVE Ledger!Start(r)
    BY <2>1 DEF StartAgentRun, StopInv, Unstarted
  <2>2. CASE ~\E b \in Backends : StartAgentRun(r, b)
    BY <1>2, <2>2 DEF Begin, Start, ClaimDueSchedule, CheckInFlight, StartManual, Preflight
  <2> QED BY <2>1, <2>2
<1>3. ASSUME NEW r \in Runs, Model(r) PROVE UNCHANGED <<status, steps>>
  BY <1>3 DEF Model, Answer, BeginModelCall, ModelFails, ModelAnswers
<1>4. ASSUME NEW r \in Runs, DriveChild(r) PROVE UNCHANGED <<status, steps>>
  BY <1>4 DEF DriveChild, SpawnChild, SpawnFails, ReadToolResult, ReadEnd, KillChild, ReadLine,
     ReadTurn, ReadMessage, ReadTurnCompleted, ReadFailure
<1>5. ASSUME NEW r \in Runs, Account(r) PROVE [Ledger!Next]_<<status, steps>>
  <2>1. CASE AppendModelRow(r) \/ AppendToolRow(r)
    <3>1. Ledger!Step(r) BY <2>1 DEF AppendModelRow, AppendToolRow, Appendable
    <3> QED BY <3>1
  <2>2. CASE ~(AppendModelRow(r) \/ AppendToolRow(r))
    BY <1>5, <2>2 DEF Account, ChargeStep, AccountingFails, AfterStep, ReadBudget,
       ReadStop, ReadFails, Decide
  <2> QED BY <2>1, <2>2
<1>6. ASSUME NEW r \in Runs, NEW how \in Ledger!Ended, FinishAgentRun(r, how), UNCHANGED steps
      PROVE [Ledger!Next]_<<status, steps>>
  <2>1. CASE ~Running(r)
    <3>1. status' = status BY <1>0, <1>6, <2>1 DEF FinishAgentRun
    <3> QED BY <1>6, <3>1
  <2>2. CASE Running(r)
    <3>1. status' = [q \in Runs |-> IF q \in {r} THEN how ELSE status[q]]
      BY <1>0, <1>6, <2>2 DEF FinishAgentRun
    <3>2. Ledger!End({r}, how) BY <1>6, <2>2, <3>1
    <3> QED BY <3>2
  <2> QED BY <2>1, <2>2
<1>7. ASSUME NEW r \in Runs, Finish(r) PROVE [Ledger!Next]_<<status, steps>>
  <2>1. CASE Settle(r)
    <3>1. UNCHANGED status \/ FinishAgentRun(r, Outcome(r)) BY <2>1, Zenon DEF Settle
    <3>2. Outcome(r) \in Ledger!Ended BY DEF Outcome
    <3>3. UNCHANGED steps BY <2>1 DEF Settle
    <3> QED BY <1>6, <3>1, <3>2, <3>3
  <2>2. CASE RecordFailure(r)
    <3>1. FinishAgentRun(r, "failed") /\ UNCHANGED steps BY <2>2 DEF RecordFailure
    <3> QED BY <1>6, <3>1
  <2>3. CASE SettleFails(r) \/ RecordingFails(r) BY <2>3 DEF SettleFails, RecordingFails
  <2> QED BY <1>7, <2>1, <2>2, <2>3 DEF Finish
<1>8. ASSUME NEW r \in Runs, Child(r) \/ Crash(r) PROVE UNCHANGED <<status, steps>>
  BY <1>8 DEF Child, ChildPrints, ChildExits, Crash
<1>9. CASE ReapStaleAgentRuns
  <2> DEFINE S == {r \in Runs : Reapable(r)}
  <2>1. status' = [r \in Runs |-> IF r \in S THEN "failed" ELSE status[r]]
    BY <1>9 DEF ReapStaleAgentRuns
  <2>2. Ledger!End(S, "failed") BY <1>9, <2>1 DEF ReapStaleAgentRuns, Reapable
  <2> QED BY <2>2
<1>10. CASE Operator \/ Clock
  BY <1>10 DEF Operator, Clock, StopAll, RequestAgentRunStop, DisableAgentSchedule,
     SetAgentBudget, NextMonth, WindowOpens, BecomesStale, budgetVars
<1> QED
  BY <1>1, <1>2, <1>3, <1>4, <1>5, <1>7, <1>8, <1>9, <1>10 DEF Next, Drive

(* HostedAgent implements AgentRunLedger.                                  *)
THEOREM LedgerImplemented == Spec => LedgerRefined
<1>1. Init => Ledger!Init BY DEF Init, Ledger!Init
<1>2. TypeOK /\ StopInv /\ [Next]_agentVars => [Ledger!Next]_<<status, steps>> BY LedgerStep
<1> QED BY <1>1, <1>2, AgentTypeCorrect, StopAlways, PTL DEF Spec, Ledger!Spec, LedgerRefined

-----------------------------------------------------------------------------
(* What a loop has accounted for, by the point it has reached, and that a  *)
(* loop which began one call too late has seen why before it could begin   *)
(* another.                                                                *)
Paid == {"call", "waiting", "spawn", "read", "append", "appendTool", "after", "deciding", "kill",
         "settle"}
Unwritten(r) == pc[r] = "append" \/ (pc[r] = "charge" /\ ~IsCodex(r))
Reached == Paid \cup {"charge"}

LoopInv ==
    /\ \A r \in Runs : pc[r] \in Unstarted =>
          hops[r] = 0 /\ heard[r] = 0 /\ charged[r] = 0 /\ written[r] = 0 /\ late[r] = 0
    /\ \A r \in Runs : pc[r] \in {"call", "waiting"} => IsByok(r)
    /\ \A r \in Runs : IsCodex(r) \/ heard[r] = hops[r]
    /\ \A r \in Runs : pc[r] \in Paid /\ ~latched[r] => charged[r] = hops[r]
    /\ \A r \in Runs : pc[r] = "charge" /\ ~latched[r] => charged[r] + 1 = hops[r]
    /\ \A r \in Runs : Unwritten(r) /\ ~latched[r] => written[r] + 1 = heard[r]
    /\ \A r \in Runs : pc[r] \in Reached /\ ~Unwritten(r) /\ ~latched[r] => written[r] = heard[r]
    /\ \A r \in Runs : status[r] = "completed" => pc[r] = "done"
    /\ CompletedIsAccounted
    /\ LateCallsBounded
    /\ \A r \in Runs : late[r] > 0 => pc[r] # "call" /\ (Running(r) => asked[r])
    /\ \A r \in Runs : late[r] > 0 /\ pc[r] = "deciding" /\ "stop" \notin todo[r] => stopSeen[r]

LEMMA LoopStep == ASSUME TypeOK, StopInv, LoopInv, [Next]_agentVars PROVE LoopInv'
<1> USE DEF LoopInv, CompletedIsAccounted, LateCallsBounded, Running, Unstarted, Paid, Unwritten,
      Reached, IsByok, IsCodex, ledgerVars, seenVars, loopVars, historyVars, Goto, ReadLine
<1>0. /\ pc \in [Runs -> Phase] /\ status \in [Runs -> Status] /\ asked \in [Runs -> BOOLEAN]
      /\ stopSeen \in [Runs -> BOOLEAN] /\ latched \in [Runs -> BOOLEAN]
      /\ todo \in [Runs -> SUBSET {"budget", "stop"}]
      /\ backend \in [Runs -> Backends \cup {"none"}]
      /\ hops \in [Runs -> Nat] /\ heard \in [Runs -> Nat] /\ charged \in [Runs -> Nat]
      /\ written \in [Runs -> Nat] /\ late \in [Runs -> Nat]
  BY DEF TypeOK
<1>1. CASE UNCHANGED agentVars BY <1>1 DEF agentVars
<1>2. ASSUME NEW r \in Runs, Begin(r) PROVE LoopInv'
  <2>1. CASE ClaimDueSchedule(r) BY <1>0, <2>1 DEF ClaimDueSchedule
  <2>2. CASE CheckInFlight(r) BY <1>0, <2>2 DEF CheckInFlight
  <2>3. CASE StartManual(r) BY <1>0, <2>3 DEF StartManual
  <2>4. CASE Preflight(r) BY <1>0, <2>4 DEF Preflight
  <2>5. ASSUME NEW b \in Backends, StartAgentRun(r, b) PROVE LoopInv'
    BY <1>0, <2>5 DEF StartAgentRun
  <2> QED BY <1>2, <2>1, <2>2, <2>3, <2>4, <2>5 DEF Begin, Start
<1>3. ASSUME NEW r \in Runs, Model(r) PROVE LoopInv'
  <2>1. CASE BeginModelCall(r) BY <1>0, <2>1 DEF BeginModelCall
  <2>2. CASE ModelFails(r) BY <1>0, <2>2 DEF ModelFails
  <2>3. ASSUME NEW t \in BOOLEAN, ModelAnswers(r, t) PROVE LoopInv'
    BY <1>0, <2>3 DEF ModelAnswers
  <2> QED BY <1>3, <2>1, <2>2, <2>3 DEF Model, Answer
<1>4. ASSUME NEW r \in Runs, DriveChild(r) PROVE LoopInv'
  <2>1. CASE SpawnChild(r) BY <1>0, <2>1 DEF SpawnChild
  <2>2. CASE SpawnFails(r) BY <1>0, <2>2 DEF SpawnFails
  <2>3. CASE ReadToolResult(r) BY <1>0, <2>3 DEF ReadToolResult
  <2>4. CASE ReadEnd(r) BY <1>0, <2>4 DEF ReadEnd
  <2>5. CASE KillChild(r) BY <1>0, <2>5 DEF KillChild
  <2>6. CASE ReadTurn(r) BY <1>0, <2>6 DEF ReadTurn
  <2>7. CASE ReadMessage(r) BY <1>0, <2>7 DEF ReadMessage
  <2>8. CASE ReadTurnCompleted(r) BY <1>0, <2>8 DEF ReadTurnCompleted
  <2>9. CASE ReadFailure(r) BY <1>0, <2>9 DEF ReadFailure
  <2> QED
    BY <1>4, <2>1, <2>2, <2>3, <2>4, <2>5, <2>6, <2>7, <2>8, <2>9 DEF DriveChild
<1>5. ASSUME NEW r \in Runs, Account(r) PROVE LoopInv'
  <2>1. CASE ChargeStep(r) BY <1>0, <2>1 DEF ChargeStep, IsCodex, Charge
  <2>2. CASE AppendModelRow(r) BY <1>0, <2>2 DEF AppendModelRow, AfterModelRow
  <2>3. CASE AppendToolRow(r) BY <1>0, <2>3 DEF AppendToolRow, AfterToolRow
  <2>4. CASE AccountingFails(r) BY <1>0, <2>4 DEF AccountingFails
  <2>5. CASE AfterStep(r) BY <1>0, <2>5 DEF AfterStep
  <2>6. CASE ReadBudget(r) BY <1>0, <2>6 DEF ReadBudget
  <2>7. CASE ReadStop(r) BY <1>0, <2>7 DEF ReadStop, StopRequested
  <2>8. CASE ReadFails(r) BY <1>0, <2>8 DEF ReadFails
  <2>9. CASE Decide(r) BY <1>0, <2>9 DEF Decide, MustStop
  <2> QED
    BY <1>5, <2>1, <2>2, <2>3, <2>4, <2>5, <2>6, <2>7, <2>8, <2>9 DEF Account
<1>6. ASSUME NEW r \in Runs, Finish(r) PROVE LoopInv'
  <2> USE DEF Return, FinishAgentRun, Outcome
  <2>1. CASE Settle(r) BY <1>0, <2>1 DEF Settle, RethrowsLatch
  <2>2. CASE SettleFails(r) BY <1>0, <2>2 DEF SettleFails
  <2>3. CASE RecordFailure(r) BY <1>0, <2>3 DEF RecordFailure
  <2>4. CASE RecordingFails(r) BY <1>0, <2>4 DEF RecordingFails
  <2> QED BY <1>6, <2>1, <2>2, <2>3, <2>4 DEF Finish
<1>7. ASSUME NEW r \in Runs, Child(r) \/ Crash(r) PROVE LoopInv'
  <2>1. CASE ChildPrints(r) BY <2>1 DEF ChildPrints
  <2>2. CASE ChildExits(r) BY <2>2 DEF ChildExits
  <2>3. CASE Crash(r) BY <1>0, <2>3 DEF Crash, Return
  <2> QED BY <1>7, <2>1, <2>2, <2>3 DEF Child
<1>8. CASE ReapStaleAgentRuns BY <1>0, <1>8 DEF ReapStaleAgentRuns, Reapable
<1>9. CASE Operator
  <2>1. ASSUME NEW S \in SUBSET Runs, RequestAgentRunStop(S) PROVE LoopInv'
    BY <1>0, <2>1 DEF RequestAgentRunStop
  <2>2. ASSUME NEW on \in Switch, SetAgentBudget(on) PROVE LoopInv' BY <2>2 DEF SetAgentBudget
  <2>3. CASE DisableAgentSchedule BY <2>3 DEF DisableAgentSchedule
  <2>4. {r \in Runs : Running(r) /\ ~asked[r]} \in SUBSET Runs OBVIOUS
  <2> QED BY <1>9, <2>1, <2>2, <2>3, <2>4 DEF Operator, StopAll
<1>10. CASE Clock
  <2>1. CASE NextMonth BY <2>1 DEF NextMonth
  <2>2. CASE WindowOpens BY <2>2 DEF WindowOpens
  <2>3. ASSUME NEW r \in Runs, BecomesStale(r) PROVE LoopInv' BY <2>3 DEF BecomesStale
  <2> QED BY <1>10, <2>1, <2>2, <2>3 DEF Clock
<1> QED
  BY <1>1, <1>2, <1>3, <1>4, <1>5, <1>6, <1>7, <1>8, <1>9, <1>10 DEF Next, Drive

LEMMA LoopAlways == Spec => []LoopInv
<1>1. Init => LoopInv
  BY DEF Init, LoopInv, CompletedIsAccounted, LateCallsBounded, Running, Unstarted, Paid,
     Unwritten, Reached
<1>2. TypeOK /\ StopInv /\ LoopInv /\ [Next]_agentVars => LoopInv' BY LoopStep
<1> QED BY <1>1, <1>2, AgentTypeCorrect, StopAlways, PTL DEF Spec

(* A completed run has paid for every step it counted and has written down *)
(* every message it got; but for Codex the two are one.                    *)
THEOREM CompletedAlwaysAccounted == Spec => []CompletedIsAccounted
<1>1. LoopInv => CompletedIsAccounted BY DEF LoopInv
<1> QED BY <1>1, LoopAlways, PTL

(* At most one model call begins after a stop request or the end of a run. *)
THEOREM LateCallsAlwaysBounded == Spec => []LateCallsBounded
<1>1. LoopInv => LateCallsBounded BY DEF LoopInv
<1> QED BY <1>1, LoopAlways, PTL

-----------------------------------------------------------------------------
(* The cap.  A loop holds an allowance from the check that let it go on to *)
(* the charge it leads to; a step keeps the allowances, or grants one while*)
(* the cap is not reached, or turns one into a charge.  Only the backend   *)
(* that drives a child is ever at a line of the child.                     *)
BackendInv == \A r \in Runs : pc[r] \in {"spawn", "read", "kill"} => ~IsByok(r)

Holds(r) ==
    \/ pc[r] \in {"insert", "spawn", "call", "waiting", "read", "charge"}
    \/ pc[r] = "appendTool" /\ ~IsByok(r)
    \/ pc[r] = "append" /\ IsCodex(r)
    \/ pc[r] = "deciding" /\ "budget" \notin todo[r] /\ ~budgetSeen[r]

Keeps == (\A q \in Runs : Holds(q)' => Holds(q)) /\ SpentThisMonth' <= SpentThisMonth
Grants == SpentThisMonth < Cap /\ SpentThisMonth' = SpentThisMonth
Uses == \E r \in Runs :
    /\ Holds(r) /\ ~Holds(r)'
    /\ \A q \in Runs : Holds(q)' => Holds(q)
    /\ SpentThisMonth' = SpentThisMonth + 1
Budgeted == Keeps \/ Grants \/ Uses

LEMMA BackendStep == ASSUME TypeOK, BackendInv, [Next]_agentVars PROVE BackendInv'
<1> USE AgentAssumption DEF AgentAssumption, BackendInv, IsByok, IsCodex, seenVars, loopVars, Goto, ReadLine
<1>0. /\ pc \in [Runs -> Phase] /\ backend \in [Runs -> Backends \cup {"none"}]
  BY DEF TypeOK
<1>1. CASE UNCHANGED agentVars BY <1>1 DEF agentVars
<1>2. ASSUME NEW r \in Runs, Begin(r) PROVE BackendInv'
  <2>1. CASE ClaimDueSchedule(r) BY <1>0, <2>1 DEF ClaimDueSchedule
  <2>2. CASE CheckInFlight(r) BY <1>0, <2>2 DEF CheckInFlight
  <2>3. CASE StartManual(r) BY <1>0, <2>3 DEF StartManual
  <2>4. CASE Preflight(r) BY <1>0, <2>4 DEF Preflight
  <2>5. ASSUME NEW b \in Backends, StartAgentRun(r, b) PROVE BackendInv'
    BY <1>0, <2>5 DEF StartAgentRun
  <2> QED BY <1>2, <2>1, <2>2, <2>3, <2>4, <2>5 DEF Begin, Start
<1>3. ASSUME NEW r \in Runs, Model(r) PROVE BackendInv'
  <2>1. CASE BeginModelCall(r) BY <1>0, <2>1 DEF BeginModelCall
  <2>2. CASE ModelFails(r) BY <1>0, <2>2 DEF ModelFails
  <2>3. ASSUME NEW t \in BOOLEAN, ModelAnswers(r, t) PROVE BackendInv'
    BY <1>0, <2>3 DEF ModelAnswers
  <2> QED BY <1>3, <2>1, <2>2, <2>3 DEF Model, Answer
<1>4. ASSUME NEW r \in Runs, DriveChild(r) PROVE BackendInv'
  <2>1. CASE SpawnChild(r) BY <1>0, <2>1 DEF SpawnChild
  <2>2. CASE SpawnFails(r) BY <1>0, <2>2 DEF SpawnFails
  <2>3. CASE ReadToolResult(r) BY <1>0, <2>3 DEF ReadToolResult
  <2>4. CASE ReadEnd(r) BY <1>0, <2>4 DEF ReadEnd
  <2>5. CASE KillChild(r) BY <1>0, <2>5 DEF KillChild
  <2>6. CASE ReadTurn(r) BY <1>0, <2>6 DEF ReadTurn
  <2>7. CASE ReadMessage(r) BY <1>0, <2>7 DEF ReadMessage
  <2>8. CASE ReadTurnCompleted(r) BY <1>0, <2>8 DEF ReadTurnCompleted
  <2>9. CASE ReadFailure(r) BY <1>0, <2>9 DEF ReadFailure
  <2> QED
    BY <1>4, <2>1, <2>2, <2>3, <2>4, <2>5, <2>6, <2>7, <2>8, <2>9 DEF DriveChild
<1>5. ASSUME NEW r \in Runs, Account(r) PROVE BackendInv'
  <2>1. CASE ChargeStep(r) BY <1>0, <2>1 DEF ChargeStep, IsCodex
  <2>2. CASE AppendModelRow(r) BY <1>0, <2>2 DEF AppendModelRow, AfterModelRow
  <2>3. CASE AppendToolRow(r) BY <1>0, <2>3 DEF AppendToolRow, AfterToolRow
  <2>4. CASE AccountingFails(r) BY <1>0, <2>4 DEF AccountingFails
  <2>5. CASE AfterStep(r) BY <1>0, <2>5 DEF AfterStep
  <2>6. CASE ReadBudget(r) BY <1>0, <2>6 DEF ReadBudget
  <2>7. CASE ReadStop(r) BY <1>0, <2>7 DEF ReadStop, StopRequested
  <2>8. CASE ReadFails(r) BY <1>0, <2>8 DEF ReadFails
  <2>9. CASE Decide(r) BY <1>0, <2>9 DEF Decide
  <2> QED
    BY <1>5, <2>1, <2>2, <2>3, <2>4, <2>5, <2>6, <2>7, <2>8, <2>9 DEF Account
<1>6. ASSUME NEW r \in Runs, Finish(r) PROVE BackendInv'
  <2> USE DEF Return, FinishAgentRun, Outcome
  <2>1. CASE Settle(r) BY <1>0, <2>1 DEF Settle
  <2>2. CASE SettleFails(r) BY <1>0, <2>2 DEF SettleFails
  <2>3. CASE RecordFailure(r) BY <1>0, <2>3 DEF RecordFailure
  <2>4. CASE RecordingFails(r) BY <1>0, <2>4 DEF RecordingFails
  <2> QED BY <1>6, <2>1, <2>2, <2>3, <2>4 DEF Finish
<1>7. ASSUME NEW r \in Runs, Child(r) \/ Crash(r) PROVE BackendInv'
  <2>1. CASE ChildPrints(r) BY <2>1 DEF ChildPrints
  <2>2. CASE ChildExits(r) BY <2>2 DEF ChildExits
  <2>3. CASE Crash(r) BY <1>0, <2>3 DEF Crash, Return
  <2> QED BY <1>7, <2>1, <2>2, <2>3 DEF Child
<1>8. CASE ReapStaleAgentRuns BY <1>0, <1>8 DEF ReapStaleAgentRuns, Reapable
<1>9. CASE Operator
  <2>1. ASSUME NEW S \in SUBSET Runs, RequestAgentRunStop(S) PROVE BackendInv'
    BY <1>0, <2>1 DEF RequestAgentRunStop
  <2>2. ASSUME NEW on \in Switch, SetAgentBudget(on) PROVE BackendInv' BY <2>2 DEF SetAgentBudget
  <2>3. CASE DisableAgentSchedule BY <2>3 DEF DisableAgentSchedule
  <2>4. {r \in Runs : Running(r) /\ ~asked[r]} \in SUBSET Runs OBVIOUS
  <2> QED BY <1>9, <2>1, <2>2, <2>3, <2>4 DEF Operator, StopAll
<1>10. CASE Clock
  <2>1. CASE NextMonth BY <2>1 DEF NextMonth
  <2>2. CASE WindowOpens BY <2>2 DEF WindowOpens
  <2>3. ASSUME NEW r \in Runs, BecomesStale(r) PROVE BackendInv' BY <2>3 DEF BecomesStale
  <2> QED BY <1>10, <2>1, <2>2, <2>3 DEF Clock
<1> QED
  BY <1>1, <1>2, <1>3, <1>4, <1>5, <1>6, <1>7, <1>8, <1>9, <1>10 DEF Next, Drive

LEMMA AllowanceStep == ASSUME TypeOK, BackendInv, SpendInv, [Next]_agentVars PROVE Budgeted
<1> USE DEF BackendInv, Budgeted, Keeps, Grants, Uses, Holds, IsByok, IsCodex, SpentThisMonth,
      budgetVars, seenVars, loopVars, Goto, ReadLine
<1>0. /\ pc \in [Runs -> Phase] /\ backend \in [Runs -> Backends \cup {"none"}]
      /\ budgetSeen \in [Runs -> BOOLEAN] /\ tools \in [Runs -> BOOLEAN]
      /\ todo \in [Runs -> SUBSET {"budget", "stop"}]
      /\ spent \in Nat /\ period \in 0..Months /\ month \in 0..Months
  BY DEF TypeOK
<1>1. CASE UNCHANGED agentVars BY <1>0, <1>1 DEF agentVars
<1>2. ASSUME NEW r \in Runs, Begin(r) PROVE Budgeted
  <2>1. CASE ClaimDueSchedule(r) BY <1>0, <2>1 DEF ClaimDueSchedule
  <2>2. CASE CheckInFlight(r) BY <1>0, <2>2 DEF CheckInFlight
  <2>3. CASE StartManual(r) BY <1>0, <2>3 DEF StartManual
  <2>4. CASE Preflight(r) BY <1>0, <2>4 DEF Preflight, Available
  <2>5. ASSUME NEW b \in Backends, StartAgentRun(r, b) PROVE Budgeted
    BY <1>0, <2>5 DEF StartAgentRun
  <2> QED BY <1>2, <2>1, <2>2, <2>3, <2>4, <2>5 DEF Begin, Start
<1>3. ASSUME NEW r \in Runs, Model(r) PROVE Budgeted
  <2>1. CASE BeginModelCall(r) BY <1>0, <2>1 DEF BeginModelCall
  <2>2. CASE ModelFails(r) BY <1>0, <2>2 DEF ModelFails
  <2>3. ASSUME NEW t \in BOOLEAN, ModelAnswers(r, t) PROVE Budgeted
    BY <1>0, <2>3 DEF ModelAnswers
  <2> QED BY <1>3, <2>1, <2>2, <2>3 DEF Model, Answer
<1>4. ASSUME NEW r \in Runs, DriveChild(r) PROVE Budgeted
  <2>1. CASE SpawnChild(r) BY <1>0, <2>1 DEF SpawnChild
  <2>2. CASE SpawnFails(r) BY <1>0, <2>2 DEF SpawnFails
  <2>3. CASE ReadToolResult(r) BY <1>0, <2>3 DEF ReadToolResult
  <2>4. CASE ReadEnd(r) BY <1>0, <2>4 DEF ReadEnd
  <2>5. CASE KillChild(r) BY <1>0, <2>5 DEF KillChild
  <2>6. CASE ReadTurn(r) BY <1>0, <2>6 DEF ReadTurn
  <2>7. CASE ReadMessage(r) BY <1>0, <2>7 DEF ReadMessage
  <2>8. CASE ReadTurnCompleted(r) BY <1>0, <2>8 DEF ReadTurnCompleted
  <2>9. CASE ReadFailure(r) BY <1>0, <2>9 DEF ReadFailure
  <2> QED
    BY <1>4, <2>1, <2>2, <2>3, <2>4, <2>5, <2>6, <2>7, <2>8, <2>9 DEF DriveChild
<1>5. ASSUME NEW r \in Runs, Account(r) PROVE Budgeted
  <2>1. CASE ChargeStep(r) BY <1>0, <2>1 DEF ChargeStep, IsCodex, Charge
  <2>2. CASE AppendModelRow(r) BY <1>0, <2>2 DEF AppendModelRow, AfterModelRow
  <2>3. CASE AppendToolRow(r) BY <1>0, <2>3 DEF AppendToolRow, AfterToolRow
  <2>4. CASE AccountingFails(r) BY <1>0, <2>4 DEF AccountingFails
  <2>5. CASE AfterStep(r) BY <1>0, <2>5 DEF AfterStep
  <2>6. CASE ReadBudget(r)
    <3>1. SpentThisMonth' = SpentThisMonth /\ SpentThisMonth \in Nat BY <1>0, <2>6 DEF ReadBudget
    <3>2. CASE Available BY <3>1, <3>2 DEF Available
    <3>3. CASE ~Available
      <4>1. \A q \in Runs : Holds(q)' => Holds(q) BY <1>0, <2>6, <3>3 DEF ReadBudget
      <4> QED BY <3>1, <4>1
    <3> QED BY <3>2, <3>3
  <2>7. CASE ReadStop(r) BY <1>0, <2>7 DEF ReadStop, StopRequested
  <2>8. CASE ReadFails(r) BY <1>0, <2>8 DEF ReadFails
  <2>9. CASE Decide(r) BY <1>0, <2>9 DEF Decide, MustStop
  <2> QED
    BY <1>5, <2>1, <2>2, <2>3, <2>4, <2>5, <2>6, <2>7, <2>8, <2>9 DEF Account
<1>6. ASSUME NEW r \in Runs, Finish(r) PROVE Budgeted
  <2> USE DEF Return, FinishAgentRun, Outcome
  <2>1. CASE Settle(r) BY <1>0, <2>1 DEF Settle
  <2>2. CASE SettleFails(r) BY <1>0, <2>2 DEF SettleFails
  <2>3. CASE RecordFailure(r) BY <1>0, <2>3 DEF RecordFailure
  <2>4. CASE RecordingFails(r) BY <1>0, <2>4 DEF RecordingFails
  <2> QED BY <1>6, <2>1, <2>2, <2>3, <2>4 DEF Finish
<1>7. ASSUME NEW r \in Runs, Child(r) \/ Crash(r) PROVE Budgeted
  <2>1. CASE ChildPrints(r) BY <1>0, <2>1 DEF ChildPrints
  <2>2. CASE ChildExits(r) BY <1>0, <2>2 DEF ChildExits
  <2>3. CASE Crash(r) BY <1>0, <2>3 DEF Crash, Return
  <2> QED BY <1>7, <2>1, <2>2, <2>3 DEF Child
<1>8. CASE ReapStaleAgentRuns BY <1>0, <1>8 DEF ReapStaleAgentRuns, Reapable
<1>9. CASE Operator
  <2>1. ASSUME NEW S \in SUBSET Runs, RequestAgentRunStop(S) PROVE Budgeted
    BY <1>0, <2>1 DEF RequestAgentRunStop
  <2>2. ASSUME NEW on \in Switch, SetAgentBudget(on) PROVE Budgeted BY <1>0, <2>2 DEF SetAgentBudget
  <2>3. CASE DisableAgentSchedule BY <1>0, <2>3 DEF DisableAgentSchedule
  <2>4. {r \in Runs : Running(r) /\ ~asked[r]} \in SUBSET Runs OBVIOUS
  <2> QED BY <1>9, <2>1, <2>2, <2>3, <2>4 DEF Operator, StopAll
<1>10. CASE Clock
  <2>1. CASE NextMonth
    <3>1. \A q \in Runs : Holds(q)' => Holds(q) BY <2>1 DEF NextMonth
    <3>2. spent' = spent /\ period' = period /\ month' = month + 1 BY <2>1 DEF NextMonth
    <3>3. period <= month BY DEF SpendInv
    <3>4. SpentThisMonth' <= SpentThisMonth BY <1>0, <3>2, <3>3
    <3> QED BY <3>1, <3>4
  <2>2. CASE WindowOpens BY <1>0, <2>2 DEF WindowOpens
  <2>3. ASSUME NEW r \in Runs, BecomesStale(r) PROVE Budgeted BY <1>0, <2>3 DEF BecomesStale
  <2> QED BY <1>10, <2>1, <2>2, <2>3 DEF Clock
<1> QED
  BY <1>1, <1>2, <1>3, <1>4, <1>5, <1>6, <1>7, <1>8, <1>9, <1>10 DEF Next, Drive

LEMMA BackendAlways == Spec => []BackendInv
<1>1. Init => BackendInv BY DEF Init, BackendInv
<1>2. TypeOK /\ BackendInv /\ [Next]_agentVars => BackendInv' BY BackendStep
<1> QED BY <1>1, <1>2, AgentTypeCorrect, PTL DEF Spec

CapInv ==
    /\ SpentThisMonth + Cardinality({r \in Runs : Holds(r)}) < Cap + Cardinality(Runs)
    /\ OvershootBounded

LEMMA CapStep ==
  ASSUME TypeOK, BackendInv, SpendInv, SpendInv', CapInv, [Next]_agentVars PROVE CapInv'
<1> USE AgentAssumption DEF AgentAssumption, CapInv
<1> DEFINE A == {r \in Runs : Holds(r)}
           B == {r \in Runs : Holds(r)'}
<1>0. /\ spent \in Nat /\ period \in 0..Months /\ month \in 0..Months
      /\ logged \in [0..Months -> Nat]
      /\ month' \in 0..Months /\ logged' \in [0..Months -> Nat]
  BY TypeStep DEF TypeOK
<1>1. SpentThisMonth \in Nat /\ SpentThisMonth' \in Nat
  BY <1>0, TypeStep DEF SpentThisMonth, TypeOK
<1>2. IsFiniteSet(A) /\ Cardinality(A) \in Nat /\ Cardinality(Runs) \in Nat
  BY FS_Subset, FS_CardinalityType
<1>3. IsFiniteSet(B) /\ Cardinality(B) \in Nat /\ Cardinality(B) <= Cardinality(Runs)
  BY FS_Subset, FS_CardinalityType
<1>4. SpentThisMonth' + Cardinality(B) < Cap + Cardinality(Runs)
  <2>1. CASE Keeps
    <3>1. B \subseteq A BY <2>1 DEF Keeps
    <3>2. Cardinality(B) <= Cardinality(A) BY <1>2, <3>1, FS_Subset
    <3> QED BY <1>1, <1>2, <1>3, <2>1, <3>2 DEF Keeps
  <2>2. CASE Grants BY <1>1, <1>2, <1>3, <2>2 DEF Grants
  <2>3. CASE Uses
    <3>1. PICK r \in Runs : /\ Holds(r) /\ ~Holds(r)'
                            /\ \A q \in Runs : Holds(q)' => Holds(q)
                            /\ SpentThisMonth' = SpentThisMonth + 1
      BY <2>3 DEF Uses
    <3>2. B \subseteq A \ {r} BY <3>1
    <3>3. IsFiniteSet(A \ {r}) /\ Cardinality(A \ {r}) = Cardinality(A) - 1
      BY <1>2, <3>1, FS_RemoveElement
    <3>4. Cardinality(B) <= Cardinality(A) - 1 BY <3>2, <3>3, FS_Subset
    <3> QED BY <1>1, <1>2, <1>3, <3>1, <3>4
  <2> QED BY <2>1, <2>2, <2>3, AllowanceStep DEF Budgeted
<1>5. ASSUME NEW m \in 0..Months PROVE logged'[m] < Cap + Cardinality(Runs)
  <2>1. CASE m = month'
    <3>1. logged'[m] = SpentThisMonth' BY <2>1 DEF SpendInv, SpendIsLogged
    <3> QED BY <1>1, <1>2, <1>3, <1>4, <3>1
  <2>2. CASE m # month'
    <3>1. logged'[m] = logged[m]
      <4>1. CASE UNCHANGED budgetVars BY <4>1 DEF budgetVars
      <4>2. ASSUME NEW r \in Runs, ChargeStep(r) PROVE logged'[m] = logged[m]
        BY <1>0, <2>2, <4>2 DEF ChargeStep, Charge
      <4>3. ASSUME NEW on \in Switch, SetAgentBudget(on) PROVE logged'[m] = logged[m]
        BY <4>3 DEF SetAgentBudget
      <4>4. CASE NextMonth BY <4>4 DEF NextMonth
      <4> QED BY <4>1, <4>2, <4>3, <4>4, BudgetWriters
    <3> QED BY <3>1 DEF OvershootBounded
  <2> QED BY <2>1, <2>2
<1> QED BY <1>4, <1>5 DEF OvershootBounded

(* However the loops interleave, a month costs less than the cap and one   *)
(* call for each of them.                                                  *)
THEOREM OvershootAlwaysBounded == Spec => []OvershootBounded
<1>1. Init => CapInv
  <2> SUFFICES ASSUME Init PROVE CapInv OBVIOUS
  <2>1. {r \in Runs : Holds(r)} = {} BY DEF Init, Holds
  <2>2. SpentThisMonth = 0 /\ \A m \in 0..Months : logged[m] = 0 BY DEF Init, SpentThisMonth
  <2>3. Cardinality(Runs) \in Nat /\ Cardinality(Runs) # 0
    BY AgentAssumption, FS_EmptySet, FS_CardinalityType DEF AgentAssumption
  <2> QED
    BY <2>1, <2>2, <2>3, FS_EmptySet, AgentAssumption DEF AgentAssumption, CapInv, OvershootBounded
<1>2. TypeOK /\ BackendInv /\ SpendInv /\ SpendInv' /\ CapInv /\ [Next]_agentVars => CapInv'
  BY CapStep
<1>3. CapInv => OvershootBounded BY DEF CapInv
<1> QED BY <1>1, <1>2, <1>3, AgentTypeCorrect, BackendAlways, SpendAlways, PTL DEF Spec
=============================================================================
