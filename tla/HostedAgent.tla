---------------------------- MODULE HostedAgent ----------------------------
(***************************************************************************)
(* The hosted agent of one workspace, src/server/agent: the ledger of runs *)
(* (runs.ts), the loop that drives a run (loop.ts, or cli.ts when a        *)
(* command line tool owns the loop), the monthly budget (budget.ts), the   *)
(* schedule (schedule.ts), the stop request (stop-request.ts), and the     *)
(* reaper the worker runs in front of every cycle (worker/index.ts).       *)
(*                                                                         *)
(* A run is named after the call of runHostedAgent that drives it, in      *)
(* whichever process that call lives.  The model, the command line tool    *)
(* and its pipe are outside src/.                                          *)
(***************************************************************************)
EXTENDS Naturals, FiniteSets

CONSTANTS
    Runs,         \* calls of runHostedAgent
    Backends,     \* the backends the workspace may resolve to
    MaxSteps,     \* max_steps
    Cap,          \* monthly_cap_cents, in model calls
    Months,       \* bound: months that pass, counted from 0
    MaxLines,     \* bound: events one command line child prints
    Workers,      \* worker processes, each with one cycle at a time
    DbFails       \* a statement of the driver may throw

ASSUME AgentAssumption ==
    /\ IsFiniteSet(Runs) /\ Runs # {}
    /\ Backends \subseteq {"byok", "claude", "codex"}
    /\ MaxSteps \in Nat \ {0} /\ Cap \in Nat /\ Months \in Nat /\ MaxLines \in Nat
    /\ Workers \in Nat \ {0}
    /\ DbFails \in BOOLEAN

VARIABLES
    \* agent_runs: run -> value
    status,       \* "none" while there is no row
    asked,        \* stop_requested_at is set
    steps,        \* step_count, the number of agent_run_steps
    stale,        \* started_at lies more than STALE_RUN_MINUTES back
    \* workspace_agent_budget and the calendar
    spending, spent, period, month,
    window,       \* workspace_agent_schedule: "due" when enabled and next_run_at has passed
    cycle,        \* calls a worker's cycle awaits, one for each worker that is busy with one
    \* what a call of runHostedAgent holds: run -> value
    pc, backend,
    hops,         \* steps it has counted
    tools,        \* the last answer asked for tools
    todo,         \* stop conditions still being read
    latched,      \* stepPersistenceError, or the failure a child reported
    budgetSeen,   \* budgetStop
    stopSeen,     \* stopRequested
    \* the command line child: run -> value
    child, piped, lines,
    \* history
    heard,        \* run -> messages of the model that reached it
    charged,      \* run -> model calls charged
    written,      \* run -> model rows written
    late,         \* run -> model calls begun after a stop request or the end of the run
    logged        \* month -> agent_model_calls written in it

ledgerVars == <<status, asked, steps, stale>>
budgetVars == <<spending, spent, period, month, logged>>
seenVars == <<todo, latched, budgetSeen, stopSeen>>
scheduleVars == <<window, cycle>>
childVars == <<child, piped, lines>>
loopVars == <<backend, hops, tools, seenVars>>
historyVars == <<heard, charged, written, late>>
agentVars == <<ledgerVars, budgetVars, scheduleVars, pc, loopVars, childVars, historyVars>>

Switch == {"off", "on"}    \* enabled
Ended == {"completed", "failed", "stopped"}
Status == {"none", "running"} \cup Ended
Phase == {"idle", "check", "preflight", "insert", "call", "waiting", "spawn", "read",
          "charge", "append", "appendTool", "after", "deciding", "kill", "settle",
          "failing", "done", "dead"}

Init ==
    /\ status = [r \in Runs |-> "none"]
    /\ asked = [r \in Runs |-> FALSE]
    /\ steps = [r \in Runs |-> 0]
    /\ stale = [r \in Runs |-> FALSE]
    /\ spending \in Switch /\ spent = 0 /\ period = 0 /\ month = 0
    /\ window = "closed" /\ cycle = {}
    /\ pc = [r \in Runs |-> "idle"]
    /\ backend = [r \in Runs |-> "none"]
    /\ hops = [r \in Runs |-> 0]
    /\ tools = [r \in Runs |-> FALSE]
    /\ todo = [r \in Runs |-> {}]
    /\ latched = [r \in Runs |-> FALSE]
    /\ budgetSeen = [r \in Runs |-> FALSE]
    /\ stopSeen = [r \in Runs |-> FALSE]
    /\ child = [r \in Runs |-> "none"]
    /\ piped = [r \in Runs |-> 0]
    /\ lines = [r \in Runs |-> 0]
    /\ heard = [r \in Runs |-> 0]
    /\ charged = [r \in Runs |-> 0]
    /\ written = [r \in Runs |-> 0]
    /\ late = [r \in Runs |-> 0]
    /\ logged = [m \in 0..Months |-> 0]

Goto(r, phase) == pc' = [pc EXCEPT ![r] = phase]
(* What the call knew goes with it.                                        *)
Return(r, phase) ==
    /\ Goto(r, phase)
    /\ tools' = [tools EXCEPT ![r] = FALSE]
    /\ todo' = [todo EXCEPT ![r] = {}]
    /\ latched' = [latched EXCEPT ![r] = FALSE]
    /\ budgetSeen' = [budgetSeen EXCEPT ![r] = FALSE]
    /\ stopSeen' = [stopSeen EXCEPT ![r] = FALSE]
    /\ UNCHANGED <<backend, hops>>
Running(r) == status[r] = "running"
IsByok(r) == backend[r] = "byok"
IsCodex(r) == backend[r] = "codex"

-----------------------------------------------------------------------------
(* The schedule.  Claiming moves next_run_at in the same UPDATE, so of two *)
(* replicas one gets the window; whether a run is in flight is asked in a  *)
(* statement of its own.  The cycle that claimed awaits the run, and       *)
(* `running' keeps that worker from beginning another cycle meanwhile.     *)
SomeWorkerFree == Cardinality(cycle) < Workers

Leaves(r) == cycle' = cycle \ {r} /\ UNCHANGED window

ClaimDueSchedule(r) ==
    /\ pc[r] = "idle" /\ window = "due" /\ SomeWorkerFree
    /\ window' = "closed"
    /\ cycle' = cycle \cup {r}
    /\ Goto(r, "check")
    /\ UNCHANGED <<ledgerVars, budgetVars, loopVars, childVars, historyVars>>

CheckInFlight(r) ==
    /\ pc[r] = "check"
    /\ IF \E q \in Runs : Running(q) THEN Goto(r, "idle") /\ Leaves(r)
                                    ELSE Goto(r, "preflight") /\ UNCHANGED scheduleVars
    /\ UNCHANGED <<ledgerVars, budgetVars, loopVars, childVars, historyVars>>

StartManual(r) ==
    /\ pc[r] = "idle"
    /\ Goto(r, "preflight")
    /\ UNCHANGED <<ledgerVars, budgetVars, scheduleVars, loopVars, childVars, historyVars>>

-----------------------------------------------------------------------------
(* The budget as getAgentBudget reads it: a row of an earlier month counts *)
(* as spent 0.  A charge rolls the row over in the statement that adds to  *)
(* it and logs the call.                                                   *)
SpentThisMonth == IF period = month THEN spent ELSE 0
AvailableOnceOn == spending = "on"    \* mutant: the cap is not compared
Available == spending = "on" /\ SpentThisMonth < Cap

Charge(r) ==
    /\ spent' = SpentThisMonth + 1
    /\ period' = month
    /\ logged' = [logged EXCEPT ![month] = @ + 1]
    /\ charged' = [charged EXCEPT ![r] = @ + 1]
    /\ UNCHANGED <<spending, month>>

Preflight(r) ==
    /\ pc[r] = "preflight"
    /\ IF Available THEN Goto(r, "insert") /\ UNCHANGED scheduleVars
                    ELSE Goto(r, "idle") /\ Leaves(r)
    /\ UNCHANGED <<ledgerVars, budgetVars, loopVars, childVars, historyVars>>

(* startAgentRun, for the backend the workspace resolves to.               *)
StartAgentRun(r, b) ==
    /\ pc[r] = "insert"
    /\ status' = [status EXCEPT ![r] = "running"]
    /\ backend' = [backend EXCEPT ![r] = b]
    /\ Goto(r, IF b = "byok" THEN "call" ELSE "spawn")
    /\ UNCHANGED <<asked, steps, stale, budgetVars, scheduleVars, hops, tools, seenVars,
                   childVars, historyVars>>

-----------------------------------------------------------------------------
(* The loop of loop.ts, the model called with the workspace's own key.     *)
BeginModelCall(r) ==
    /\ pc[r] = "call"
    /\ late' = [late EXCEPT ![r] = IF Running(r) /\ ~asked[r] THEN @ ELSE @ + 1]
    /\ Goto(r, "waiting")
    /\ UNCHANGED <<ledgerVars, budgetVars, scheduleVars, loopVars, childVars,
                   heard, charged, written>>

ModelAnswers(r, asksTools) ==
    /\ pc[r] = "waiting"
    /\ hops' = [hops EXCEPT ![r] = @ + 1]
    /\ heard' = [heard EXCEPT ![r] = @ + 1]
    /\ tools' = [tools EXCEPT ![r] = asksTools]
    /\ Goto(r, "charge")
    /\ UNCHANGED <<ledgerVars, budgetVars, scheduleVars, backend, seenVars, childVars,
                   charged, written, late>>

ModelFails(r) ==
    /\ pc[r] = "waiting"
    /\ Goto(r, "failing")
    /\ UNCHANGED <<ledgerVars, budgetVars, scheduleVars, loopVars, childVars, historyVars>>

-----------------------------------------------------------------------------
(* The loop of cli.ts: the child drives itself and prints events.          *)
SpawnChild(r) ==
    /\ pc[r] = "spawn"
    /\ child' = [child EXCEPT ![r] = "alive"]
    /\ Goto(r, "read")
    /\ UNCHANGED <<ledgerVars, budgetVars, scheduleVars, loopVars, piped, lines, historyVars>>

SpawnFails(r) ==
    /\ pc[r] = "spawn"
    /\ Goto(r, "failing")
    /\ UNCHANGED <<ledgerVars, budgetVars, scheduleVars, loopVars, childVars, historyVars>>

ChildPrints(r) ==
    /\ child[r] = "alive" /\ lines[r] < MaxLines
    /\ lines' = [lines EXCEPT ![r] = @ + 1]
    /\ piped' = [piped EXCEPT ![r] = @ + 1]
    /\ UNCHANGED <<ledgerVars, budgetVars, scheduleVars, pc, loopVars, child, historyVars>>

ChildExits(r) ==
    /\ child[r] = "alive"
    /\ child' = [child EXCEPT ![r] = "gone"]
    /\ UNCHANGED <<ledgerVars, budgetVars, scheduleVars, pc, loopVars, piped, lines, historyVars>>

ReadLine(r) ==
    /\ pc[r] = "read" /\ piped[r] > 0
    /\ piped' = [piped EXCEPT ![r] = @ - 1]
    /\ UNCHANGED <<ledgerVars, budgetVars, scheduleVars, backend, tools, todo, budgetSeen,
                   stopSeen, child, lines, charged, written, late>>

(* `assistant' of Claude Code: a message and a step in one event.          *)
ReadTurn(r) ==
    /\ ~IsCodex(r) /\ ReadLine(r)
    /\ hops' = [hops EXCEPT ![r] = @ + 1]
    /\ heard' = [heard EXCEPT ![r] = @ + 1]
    /\ Goto(r, "charge")
    /\ UNCHANGED latched

(* `agent_message' of Codex: a row, no step and no charge.                 *)
ReadMessage(r) ==
    /\ IsCodex(r) /\ ReadLine(r)
    /\ heard' = [heard EXCEPT ![r] = @ + 1]
    /\ Goto(r, "append")
    /\ UNCHANGED <<hops, latched>>

(* `turn.completed' of Codex: a step and its charge, no row.               *)
ReadTurnCompleted(r) ==
    /\ IsCodex(r) /\ ReadLine(r)
    /\ hops' = [hops EXCEPT ![r] = @ + 1]
    /\ Goto(r, "charge")
    /\ UNCHANGED <<heard, latched>>

ReadToolResult(r) ==
    /\ ReadLine(r)
    /\ Goto(r, "appendTool")
    /\ UNCHANGED <<hops, heard, latched>>

(* A failure the child reports: only Codex's ends the reading.             *)
ReadFailure(r) ==
    /\ ReadLine(r)
    /\ latched' = [latched EXCEPT ![r] = TRUE]
    /\ Goto(r, IF IsCodex(r) THEN "kill" ELSE "read")
    /\ UNCHANGED <<hops, heard>>

(* The child closed its pipe: with code 0, or with an error to report.     *)
ReadEnd(r) ==
    /\ pc[r] = "read" /\ piped[r] = 0 /\ child[r] = "gone"
    /\ \E phase \in {"settle", "failing"} : Goto(r, phase)
    /\ UNCHANGED <<ledgerVars, budgetVars, scheduleVars, loopVars, childVars, historyVars>>

(* SIGTERM, then SIGKILL; the driver waits for the exit.                   *)
KillChild(r) ==
    /\ pc[r] = "kill"
    /\ child' = [child EXCEPT ![r] = "gone"]
    /\ Goto(r, "settle")
    /\ UNCHANGED <<ledgerVars, budgetVars, scheduleVars, loopVars, piped, lines, historyVars>>

-----------------------------------------------------------------------------
(* An answer of the SDK and a turn of Claude Code are charged, then written*)
(* down; Codex is charged by the turn and written down by the message.  A  *)
(* failure of one of these is latched by onStepEnd of loop.ts, since the   *)
(* SDK swallows it, and thrown by cli.ts.                                  *)
ChargeStep(r) ==
    /\ pc[r] = "charge"
    /\ Charge(r)
    /\ Goto(r, IF IsCodex(r) THEN "after" ELSE "append")
    /\ UNCHANGED <<ledgerVars, scheduleVars, loopVars, childVars, heard, written, late>>

AfterModelRow(r) ==
    IF IsCodex(r) THEN "read" ELSE IF IsByok(r) /\ tools[r] THEN "appendTool" ELSE "after"
AfterToolRow(r) == IF IsByok(r) THEN "after" ELSE "read"

Appendable(r) == Running(r)

AppendModelRow(r) ==
    /\ pc[r] = "append" /\ Appendable(r)
    /\ steps' = [steps EXCEPT ![r] = @ + 1]
    /\ written' = [written EXCEPT ![r] = @ + 1]
    /\ Goto(r, AfterModelRow(r))
    /\ UNCHANGED <<status, asked, stale, budgetVars, scheduleVars, loopVars, childVars,
                   heard, charged, late>>

AppendToolRow(r) ==
    /\ pc[r] = "appendTool" /\ Appendable(r)
    /\ steps' = [steps EXCEPT ![r] = @ + 1]
    /\ Goto(r, AfterToolRow(r))
    /\ UNCHANGED <<status, asked, stale, budgetVars, scheduleVars, loopVars, childVars, historyVars>>

AccountingFails(r) ==
    /\ \/ pc[r] \in {"charge", "append", "appendTool"} /\ DbFails
       \/ pc[r] \in {"append", "appendTool"} /\ ~Appendable(r)
    /\ latched' = [latched EXCEPT ![r] = TRUE]
    /\ Goto(r, IF IsByok(r) THEN "after" ELSE "failing")
    /\ UNCHANGED <<ledgerVars, budgetVars, scheduleVars, backend, hops, tools, todo, budgetSeen,
                   stopSeen, childVars, historyVars>>

(* What follows the accounting.  The SDK evaluates the stop conditions     *)
(* only behind an answer that asked for tools, and then all of them at     *)
(* once; cli.ts asks after every turn, and in order.                       *)
AfterStep(r) ==
    /\ pc[r] = "after"
    /\ \/ /\ IsByok(r) /\ ~tools[r]
          /\ Goto(r, "settle")
          /\ UNCHANGED todo
       \/ /\ IsByok(r) /\ tools[r] /\ latched[r]
          /\ Goto(r, "failing")
          /\ UNCHANGED todo
       \/ /\ ~IsByok(r) /\ hops[r] >= MaxSteps
          /\ Goto(r, "kill")
          /\ UNCHANGED todo
       \/ /\ IF IsByok(r) THEN tools[r] /\ ~latched[r] ELSE hops[r] < MaxSteps
          /\ Goto(r, "deciding")
          /\ todo' = [todo EXCEPT ![r] = {"budget", "stop"}]
    /\ UNCHANGED <<ledgerVars, budgetVars, scheduleVars, backend, hops, tools, latched, budgetSeen,
                   stopSeen, childVars, historyVars>>

ReadBudget(r) ==
    /\ pc[r] = "deciding" /\ "budget" \in todo[r]
    /\ IsByok(r) \/ ("stop" \notin todo[r] /\ ~stopSeen[r])
    /\ todo' = [todo EXCEPT ![r] = @ \ {"budget"}]
    /\ budgetSeen' = [budgetSeen EXCEPT ![r] = ~Available]
    /\ UNCHANGED <<ledgerVars, budgetVars, scheduleVars, pc, backend, hops, tools, latched, stopSeen,
                   childVars, historyVars>>

StopIgnoresRequest(r) == ~Running(r)    \* mutant: only the end of the run counts
StopRequested(r) == ~(Running(r) /\ ~asked[r])

ReadStop(r) ==
    /\ pc[r] = "deciding" /\ "stop" \in todo[r]
    /\ todo' = [todo EXCEPT ![r] = @ \ {"stop"}]
    /\ stopSeen' = [stopSeen EXCEPT ![r] = StopRequested(r)]
    /\ UNCHANGED <<ledgerVars, budgetVars, scheduleVars, pc, backend, hops, tools, latched, budgetSeen,
                   childVars, historyVars>>

ReadFails(r) ==
    /\ pc[r] = "deciding" /\ todo[r] # {} /\ DbFails
    /\ IsByok(r) \/ ~stopSeen[r]
    /\ Goto(r, "failing")
    /\ UNCHANGED <<ledgerVars, budgetVars, scheduleVars, loopVars, childVars, historyVars>>

MustStop(r) == stopSeen[r] \/ budgetSeen[r] \/ hops[r] >= MaxSteps

Decide(r) ==
    /\ pc[r] = "deciding"
    /\ todo[r] = {} \/ (~IsByok(r) /\ stopSeen[r])
    /\ todo' = [todo EXCEPT ![r] = {}]
    /\ Goto(r, IF IsByok(r) THEN IF MustStop(r) THEN "settle" ELSE "call"
               ELSE IF MustStop(r) THEN "kill" ELSE "read")
    /\ UNCHANGED <<ledgerVars, budgetVars, scheduleVars, backend, hops, tools, latched, budgetSeen,
                   stopSeen, childVars, historyVars>>

-----------------------------------------------------------------------------
(* finishAgentRun closes a running row and leaves any other alone.         *)
FinishAnyRun(r, outcome) == status' = [status EXCEPT ![r] = outcome]    \* mutant
FinishAgentRun(r, outcome) ==
    status' = [status EXCEPT ![r] = IF Running(r) THEN outcome ELSE @]

Outcome(r) ==
    IF stopSeen[r] THEN "stopped" ELSE IF budgetSeen[r] THEN "failed" ELSE "completed"

(* The latch of the loop wins over a stop; what a child reported does not. *)
NoSecondRead(r) == FALSE    \* mutant: the latch is read by the stop conditions alone
RethrowsLatch(r) == latched[r] /\ (IsByok(r) \/ ~stopSeen[r])

Settle(r) ==
    /\ pc[r] = "settle"
    /\ IF RethrowsLatch(r) THEN Goto(r, "failing") /\ UNCHANGED <<status, scheduleVars, loopVars>>
       ELSE Return(r, "done") /\ Leaves(r) /\ FinishAgentRun(r, Outcome(r))
    /\ UNCHANGED <<asked, steps, stale, budgetVars, childVars, historyVars>>

SettleFails(r) ==
    /\ pc[r] = "settle" /\ DbFails
    /\ Goto(r, "failing")
    /\ UNCHANGED <<ledgerVars, budgetVars, scheduleVars, loopVars, childVars, historyVars>>

RecordFailure(r) ==
    /\ pc[r] = "failing"
    /\ FinishAgentRun(r, "failed")
    /\ Return(r, "done") /\ Leaves(r)
    /\ UNCHANGED <<asked, steps, stale, budgetVars, childVars, historyVars>>

(* The process dies with its child, or the last UPDATE itself throws: the  *)
(* row stays running and nothing drives it.                                *)
Crash(r) ==
    /\ pc[r] \notin {"idle", "done", "dead"}
    /\ Return(r, "dead") /\ Leaves(r)
    /\ child' = [child EXCEPT ![r] = "gone"]
    /\ UNCHANGED <<ledgerVars, budgetVars, piped, lines, historyVars>>

RecordingFails(r) ==
    /\ pc[r] = "failing" /\ DbFails
    /\ Return(r, "dead") /\ Leaves(r)
    /\ UNCHANGED <<ledgerVars, budgetVars, childVars, historyVars>>

-----------------------------------------------------------------------------
(* The founder, the clock, and the sweep of the worker.                    *)
RequestAgentRunStop(S) ==
    /\ S # {} /\ \A r \in S : Running(r) /\ ~asked[r]
    /\ asked' = [r \in Runs |-> asked[r] \/ r \in S]
    /\ UNCHANGED <<status, steps, stale, budgetVars, scheduleVars, pc, loopVars, childVars, historyVars>>

StopAll == RequestAgentRunStop({r \in Runs : Running(r) /\ ~asked[r]})

ReapAny(r) == stale[r]    \* mutant: the status predicate is missing
ReapFresh(r) == Running(r) /\ ~stale[r]    \* mutant: the age compared the wrong way round
Reapable(r) == Running(r) /\ stale[r]

ReapStaleAgentRuns ==
    /\ SomeWorkerFree
    /\ \E r \in Runs : Reapable(r)
    /\ status' = [r \in Runs |-> IF Reapable(r) THEN "failed" ELSE status[r]]
    /\ UNCHANGED <<asked, steps, stale, budgetVars, scheduleVars, pc, loopVars, childVars, historyVars>>

BecomesStale(r) ==
    /\ Running(r) /\ ~stale[r]
    /\ stale' = [stale EXCEPT ![r] = TRUE]
    /\ UNCHANGED <<status, asked, steps, budgetVars, scheduleVars, pc, loopVars, childVars, historyVars>>

SetAgentBudget(on) ==
    /\ spending # on
    /\ spending' = on
    /\ spent' = SpentThisMonth /\ period' = month
    /\ UNCHANGED <<month, logged, ledgerVars, scheduleVars, pc, loopVars, childVars, historyVars>>

NextMonth ==
    /\ month < Months
    /\ month' = month + 1
    /\ UNCHANGED <<spending, spent, period, logged, ledgerVars, scheduleVars, pc, loopVars, childVars,
                   historyVars>>

DisableAgentSchedule ==
    /\ window = "due" /\ window' = "closed"
    /\ UNCHANGED <<cycle, ledgerVars, budgetVars, pc, loopVars, childVars, historyVars>>

WindowOpens ==
    /\ window = "closed" /\ window' = "due"
    /\ UNCHANGED <<cycle, ledgerVars, budgetVars, pc, loopVars, childVars, historyVars>>

-----------------------------------------------------------------------------
Start(r) ==
    \/ CheckInFlight(r) \/ Preflight(r) \/ \E b \in Backends : StartAgentRun(r, b)

Begin(r) == ClaimDueSchedule(r) \/ StartManual(r) \/ Start(r)

Answer(r) == ModelFails(r) \/ \E asksTools \in BOOLEAN : ModelAnswers(r, asksTools)

Model(r) == BeginModelCall(r) \/ Answer(r)

Child(r) == ChildPrints(r) \/ ChildExits(r)

DriveChild(r) ==
    \/ SpawnChild(r) \/ SpawnFails(r) \/ ReadTurn(r) \/ ReadMessage(r) \/ ReadTurnCompleted(r)
    \/ ReadToolResult(r) \/ ReadFailure(r) \/ ReadEnd(r) \/ KillChild(r)

Account(r) ==
    \/ ChargeStep(r) \/ AppendModelRow(r) \/ AppendToolRow(r) \/ AccountingFails(r)
    \/ AfterStep(r) \/ ReadBudget(r) \/ ReadStop(r) \/ ReadFails(r) \/ Decide(r)

Finish(r) == Settle(r) \/ SettleFails(r) \/ RecordFailure(r) \/ RecordingFails(r)

Drive(r) == Begin(r) \/ Model(r) \/ DriveChild(r) \/ Account(r) \/ Finish(r)

Operator ==
    \/ StopAll \/ \E r \in Runs : RequestAgentRunStop({r})
    \/ DisableAgentSchedule \/ \E on \in Switch : SetAgentBudget(on)

Clock == NextMonth \/ WindowOpens \/ \E r \in Runs : BecomesStale(r)

Next ==
    \/ \E r \in Runs : Drive(r) \/ Child(r) \/ Crash(r)
    \/ ReapStaleAgentRuns \/ Operator \/ Clock

Spec == Init /\ [][Next]_agentVars

(* A loop goes on with what it has; whether the model answers, and whether *)
(* the child ends, is not for the program to say.                          *)
Proceeds(r) == Start(r) \/ BeginModelCall(r) \/ DriveChild(r) \/ Account(r) \/ Finish(r)

(* A worker whose cycle ends begins another one, and every cycle begins by *)
(* reaping; time passes.                                                   *)
FairSpec ==
    /\ Spec
    /\ SF_agentVars(ReapStaleAgentRuns)
    /\ \A r \in Runs : WF_agentVars(BecomesStale(r)) /\ WF_agentVars(Proceeds(r))

-----------------------------------------------------------------------------
TypeOK ==
    /\ status \in [Runs -> Status]
    /\ asked \in [Runs -> BOOLEAN]
    /\ steps \in [Runs -> Nat]
    /\ stale \in [Runs -> BOOLEAN]
    /\ spending \in Switch /\ spent \in Nat /\ period \in 0..Months /\ month \in 0..Months
    /\ window \in {"closed", "due"} /\ cycle \subseteq Runs
    /\ pc \in [Runs -> Phase]
    /\ backend \in [Runs -> Backends \cup {"none"}]
    /\ hops \in [Runs -> Nat]
    /\ tools \in [Runs -> BOOLEAN]
    /\ todo \in [Runs -> SUBSET {"budget", "stop"}]
    /\ latched \in [Runs -> BOOLEAN]
    /\ budgetSeen \in [Runs -> BOOLEAN]
    /\ stopSeen \in [Runs -> BOOLEAN]
    /\ child \in [Runs -> {"none", "alive", "gone"}]
    /\ piped \in [Runs -> Nat] /\ lines \in [Runs -> Nat]
    /\ heard \in [Runs -> Nat] /\ charged \in [Runs -> Nat]
    /\ written \in [Runs -> Nat] /\ late \in [Runs -> Nat]
    /\ logged \in [0..Months -> Nat]

-----------------------------------------------------------------------------
(* What the founder is told this month has cost is what the ledger of      *)
(* model calls adds up to, across rollovers read and rollovers written.    *)
SpendIsLogged == SpentThisMonth = logged[month]

(* budget.ts checks before a call and charges after it, so the cap can be  *)
(* passed; but by no more than the one call each concurrent loop had       *)
(* already been allowed, in any month.                                     *)
OvershootBounded == \A m \in 0..Months : logged[m] < Cap + Cardinality(Runs)

(* A run recorded as completed has paid for every step it counted and has  *)
(* written down every message it got: a write lost inside onStepEnd cannot *)
(* leave a clean summary.  A message is a step, but for Codex, which is    *)
(* charged by the turn: a child that exits without turn.completed leaves   *)
(* messages that nobody counted and nobody paid for.                       *)
CompletedIsAccounted == \A r \in Runs : status[r] = "completed" =>
    /\ charged[r] = hops[r] /\ written[r] = heard[r]
    /\ IsCodex(r) \/ heard[r] = hops[r]

(* Once a run was asked to stop, or was written off under its loop, the    *)
(* loop of loop.ts begins at most the one model call it had decided on.    *)
LateCallsBounded == \A r \in Runs : late[r] <= 1

(* A run is recorded as stopped only if somebody asked: the reaper's write *)
(* reads as a stop request to the loop, but cannot be recorded as one.     *)
StoppedWasAsked == \A r \in Runs : status[r] = "stopped" => asked[r]

(* Steps, starts and ends happen in the order the ledger promises: none    *)
(* after the end, and one end, whoever writes it.                          *)
Ledger == INSTANCE AgentRunLedger
LedgerRefined == Ledger!Spec

(* A run does not stay in flight for ever, even when its process died, and *)
(* the schedule it holds shut opens again: unless every worker is awaiting *)
(* a scheduled run of its own that hangs, for a cycle that does not end is *)
(* followed by none that reaps.                                            *)
Hangs(r) ==
    \/ pc[r] = "waiting"
    \/ pc[r] = "read" /\ piped[r] = 0 /\ child[r] = "alive"
AllWorkersHang == Cardinality({r \in cycle : Hangs(r)}) = Workers

RunEnds == \A r \in Runs : (Running(r) ~> ~Running(r)) \/ <>[]AllWorkersHang
=============================================================================
