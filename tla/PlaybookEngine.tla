--------------------------- MODULE PlaybookEngine ---------------------------
(***************************************************************************)
(* One run of a playbook in src/server/playbooks/engine.ts: its            *)
(* playbook_runs row, the attempt rows of its steps (playbook_step_runs),  *)
(* the decisions of founders (playbook_approvals), and the calls of        *)
(* advancePlaybookRun that work on it at the same time: the worker's       *)
(* sweep, the HTTP handler that started the run, the one that approved a   *)
(* step.  Each call ("advancer") takes one SQL statement or transaction    *)
(* per action, and keeps between two of them only what its variables hold. *)
(*                                                                         *)
(* Time is abstract: a lease is live or expired, a scheduled retry is due  *)
(* or not.  The hash of a payload is injective (canonical JSON, SHA-256).  *)
(***************************************************************************)
EXTENDS Naturals, Sequences, FiniteSets

CONSTANTS
    Order,          \* playbook.steps, in the order of the definition
    Kind,           \* step -> "skill" | "approval" | "action"
    Needs,          \* step -> the steps it depends on
    ApprovalOf,     \* action step -> its approvalStepId
    PayloadFrom,    \* approval or action step -> the step its template reads
    MaxAttempts,    \* step -> retry.maxAttempts
    MaxAttempt,     \* the largest of them
    Delayed,        \* step -> TRUE when retry.delaySeconds > 0
    Payloads,       \* what a founder can write
    Drafts,         \* what a skill can draft
    NoPayload,      \* a template that resolved to nothing
    Advancers,      \* concurrent calls of advancePlaybookRun
    MaxFaults,      \* bound: with so many crashes and expired leases, no more faults
    MaxOverruns,    \* bound: leases that live calls outlast, of these faults
    MaxEdits        \* bound: founder edits of an approval payload

Steps == {Order[i] : i \in 1..Len(Order)}
Content == Payloads \cup {NoPayload}
Attempts == 1..MaxAttempt

(* validatePlaybook: ids are unique and a dependency precedes its step.    *)
ASSUME PlaybookAssumption ==
    /\ Order \in Seq(Steps)
    /\ \A i, j \in 1..Len(Order) : Order[i] = Order[j] => i = j
    /\ Kind \in [Steps -> {"skill", "approval", "action"}]
    /\ Needs \in [Steps -> SUBSET Steps]
    /\ \A i \in 1..Len(Order) :
          Needs[Order[i]] \subseteq {Order[j] : j \in 1..(i - 1)}
    /\ ApprovalOf \in [{s \in Steps : Kind[s] = "action"} -> Steps]
    /\ PayloadFrom \in [{s \in Steps : Kind[s] # "skill"} -> Steps]
    /\ MaxAttempt \in Nat \ {0}
    /\ MaxAttempts \in [Steps -> 1..MaxAttempt]
    /\ Delayed \in [Steps -> BOOLEAN]
    /\ NoPayload \notin Payloads /\ Drafts \subseteq Payloads
    /\ MaxFaults \in Nat /\ MaxOverruns \in Nat /\ MaxEdits \in Nat

VARIABLES
    run,        \* playbook_runs row: status, current_step_id, error
    \* playbook_step_runs, by column: step -> attempt -> value
    status,     \* status, with what the two timestamps make of it (below)
    data,       \* the payload shown, or the output
    hash,       \* payload_hash
    approvals,  \* playbook_approvals: the decisions, append only
    \* where a call is, and what it remembers: advancer -> value
    pc, step, attempt,
    seen,       \* the run row it read
    payload, readHash, granted, approvalAttempt,
    calls,      \* history: the payloads handed to a provider, and for whom
    ncalls,     \* history: how often each step called its provider
    overruns,   \* history: how often a live call outlasted the 60 s lease of its step
    crashes, expiries, edits

stepVars == <<status, data, hash>>
memory == <<step, attempt, seen, payload, readHash, granted, approvalAttempt>>
History == <<approvals, calls, ncalls>>
Bounds == <<overruns, crashes, expiries, edits>>
vars == <<run, stepVars, pc, memory, History, Bounds>>

-----------------------------------------------------------------------------
(* The rows and what a call remembers of them.                             *)

NoStep == "no step"
NoHash == <<>>
PayloadHash(p) == <<"sha256", p>>
Hashes == {PayloadHash(p) : p \in Content}

RunStatus == {"none", "queued", "running", "waiting_approval", "completed", "failed"}
TerminalRun == {"completed", "failed"}
RunRow == [status : RunStatus, current : Steps \cup {NoStep},
           error : {"none", "step", "blocked"}]
NoRun == [status |-> "none", current |-> NoStep, error |-> "none"]

(* "delayed" is a pending attempt whose available_at is still to come,     *)
(* "expired" a running one whose lease_expires_at has passed.              *)
StepStatus == {"absent", "pending", "delayed", "running", "expired",
               "waiting_approval", "completed", "failed"}
PendingStatus == {"pending", "delayed"}

Approval == [step : Steps, attempt : Attempts, hash : Hashes \cup {NoHash},
             decision : {"approve", "reject"}]
Call == [step : Steps, approvalAttempt : Attempts, hash : Hashes]

Working == {"setRunning", "refresh", "place", "skill", "check", "call", "finish", "catch"}
OnStep == Working \cup {"setWaiting", "claim", "decide"}
Phase == OnStep \cup {"idle", "begin", "readRun", "readSteps", "failRun", "failBlocked",
                      "setQueued", "complete"}

(* SELECT DISTINCT ON (step_id) ... ORDER BY step_id, attempt DESC.        *)
IsLatest(s, n) ==
    /\ status[s][n] # "absent"
    /\ \A m \in Attempts : m > n => status[s][m] = "absent"
InStatus(S) == {s \in Steps : \E n \in Attempts : IsLatest(s, n) /\ status[s][n] \in S}
Waiting == InStatus({"waiting_approval"})
Failed == InStatus({"failed"})
Completed == InStatus({"completed"})
Pending == InStatus(PendingStatus)
Ready == {s \in Pending : Needs[s] \subseteq Completed}
AllCompleted == Completed = Steps
Before(s, t) == \E i, j \in 1..Len(Order) : i < j /\ Order[i] = s /\ Order[j] = t
IsFirst(s, S) == s \in S /\ \A t \in S : ~Before(t, s)
Started == run.status # "none"

Holds(a, s, n) == pc[a] \in Working /\ step[a] = s /\ attempt[a] = n

-----------------------------------------------------------------------------
(* Starting a run, and the calls of advancePlaybookRun.                    *)

Init ==
    /\ run = NoRun
    /\ status = [s \in Steps |-> [n \in Attempts |-> "absent"]]
    /\ data = [s \in Steps |-> [n \in Attempts |-> NoPayload]]
    /\ hash = [s \in Steps |-> [n \in Attempts |-> NoHash]]
    /\ approvals = {}
    /\ pc = [a \in Advancers |-> "idle"]
    /\ step = [a \in Advancers |-> NoStep]
    /\ attempt = [a \in Advancers |-> 1]
    /\ seen = [a \in Advancers |-> NoRun]
    /\ payload = [a \in Advancers |-> NoPayload]
    /\ readHash = [a \in Advancers |-> NoHash]
    /\ granted = [a \in Advancers |-> FALSE]
    /\ approvalAttempt = [a \in Advancers |-> 1]
    /\ calls = {}
    /\ ncalls = [s \in Steps |-> 0]
    /\ overruns = 0 /\ crashes = 0 /\ expiries = 0 /\ edits = 0

Goto(a, phase) == pc' = [pc EXCEPT ![a] = phase] /\ UNCHANGED memory
(* A call that starts, ends or turns to the top of its loop remembers      *)
(* nothing.                                                                *)
Enter(a, phase) ==
    /\ pc' = [pc EXCEPT ![a] = phase]
    /\ step' = [step EXCEPT ![a] = NoStep]
    /\ attempt' = [attempt EXCEPT ![a] = 1]
    /\ seen' = [seen EXCEPT ![a] = NoRun]
    /\ payload' = [payload EXCEPT ![a] = NoPayload]
    /\ readHash' = [readHash EXCEPT ![a] = NoHash]
    /\ granted' = [granted EXCEPT ![a] = FALSE]
    /\ approvalAttempt' = [approvalAttempt EXCEPT ![a] = 1]
Return(a) == Enter(a, "idle")
Loop(a) == Enter(a, "readRun")
Take(a, phase, s, n) ==
    /\ pc' = [pc EXCEPT ![a] = phase]
    /\ step' = [step EXCEPT ![a] = s]
    /\ attempt' = [attempt EXCEPT ![a] = n]
    /\ UNCHANGED <<seen, payload, granted, approvalAttempt>>

Mark(s, n, st) == status' = [status EXCEPT ![s][n] = st]
SetRun(st, current, error) ==
    run' = [status |-> st, current |-> current, error |-> error]

(* startPlaybookRun: the run and the first attempt of every step in one    *)
(* transaction, then the same process advances it.                         *)
StartRun(a) ==
    /\ ~Started /\ pc[a] = "idle"
    /\ SetRun("queued", NoStep, "none")
    /\ status' = [s \in Steps |-> [status[s] EXCEPT ![1] = "pending"]]
    /\ Goto(a, "begin")
    /\ UNCHANGED <<data, hash, History, Bounds>>

(* runReadyPlaybooks: the worker's sweep picks queued and running runs.    *)
Sweep(a) ==
    /\ pc[a] = "idle" /\ run.status \in {"queued", "running"}
    /\ Goto(a, "begin")
    /\ UNCHANGED <<run, stepVars, History, Bounds>>

(* recoverStaleSteps: one UPDATE, whoever holds the lease.                 *)
RecoversNothing(a) ==                   \* mutant
    pc[a] = "begin" /\ Goto(a, "readRun") /\ UNCHANGED <<run, stepVars, History, Bounds>>
RecoverStaleSteps(a) ==
    /\ pc[a] = "begin"
    /\ status' = [s \in Steps |-> [n \in Attempts |->
                    IF status[s][n] = "expired" THEN "pending" ELSE status[s][n]]]
    /\ Goto(a, "readRun")
    /\ UNCHANGED <<run, data, hash, History, Bounds>>

(* getPlaybookRun is two SELECTs; the run row is read before the steps.    *)
ReadRun(a) ==
    /\ pc[a] = "readRun"
    /\ IF run.status \in TerminalRun
       THEN Return(a)
       ELSE /\ pc' = [pc EXCEPT ![a] = "readSteps"]
            /\ seen' = [seen EXCEPT ![a] = run]
            /\ UNCHANGED <<step, attempt, payload, readHash, granted, approvalAttempt>>
    /\ UNCHANGED <<run, stepVars, History, Bounds>>

SeeWaiting(a) ==
    /\ pc[a] = "readSteps"
    /\ \E s \in Steps : IsFirst(s, Waiting) /\ Take(a, "setWaiting", s, 1)
    /\ UNCHANGED <<readHash, run, stepVars, History, Bounds>>

SeeFailed(a) ==
    /\ pc[a] = "readSteps" /\ Waiting = {} /\ Failed # {}
    /\ Goto(a, "failRun")
    /\ UNCHANGED <<run, stepVars, History, Bounds>>

Undecided == Waiting = {} /\ Failed = {}

(* The next step is the first pending one whose needs are completed.       *)
SeeReady(a) ==
    /\ pc[a] = "readSteps" /\ Undecided
    /\ \E s \in Steps, n \in Attempts :
          IsFirst(s, Ready) /\ IsLatest(s, n) /\ Take(a, "claim", s, n)
    /\ UNCHANGED <<readHash, run, stepVars, History, Bounds>>

NothingPendingIsDone(a) ==              \* mutant: running steps forgotten
    /\ pc[a] = "readSteps" /\ Undecided /\ Ready = {}
    /\ Goto(a, IF Pending # {} THEN "setQueued" ELSE "complete")
    /\ UNCHANGED <<run, stepVars, History, Bounds>>
SeeNoneReady(a) ==
    /\ pc[a] = "readSteps" /\ Undecided /\ Ready = {}
    /\ Goto(a, IF AllCompleted THEN "complete"
               ELSE IF Pending # {} THEN "setQueued" ELSE "failBlocked")
    /\ UNCHANGED <<run, stepVars, History, Bounds>>

(* setRunStatus: by id alone, unless the row the call read says so already.*)
SetRunStatus(a, st, current) ==
    IF seen[a] = [status |-> st, current |-> current, error |-> "none"]
    THEN UNCHANGED run
    ELSE SetRun(st, current, "none")

SetWaiting(a) ==
    /\ pc[a] = "setWaiting"
    /\ SetRunStatus(a, "waiting_approval", step[a])
    /\ Return(a)
    /\ UNCHANGED <<stepVars, History, Bounds>>

SetQueued(a) ==
    /\ pc[a] = "setQueued"
    /\ SetRunStatus(a, "queued", seen[a].current)
    /\ Return(a)
    /\ UNCHANGED <<stepVars, History, Bounds>>

(* failRun: current_step_id stays.                                         *)
FailRun(a) ==
    /\ pc[a] \in {"failRun", "failBlocked"}
    /\ SetRun("failed", run.current, IF pc[a] = "failRun" THEN "step" ELSE "blocked")
    /\ Return(a)
    /\ UNCHANGED <<stepVars, History, Bounds>>

CompleteRun(a) ==
    /\ pc[a] = "complete"
    /\ SetRun("completed", NoStep, "none")
    /\ Return(a)
    /\ UNCHANGED <<stepVars, History, Bounds>>

(* claimStep: the conditional UPDATE is the only mutual exclusion there is.*)
(* A call that loses reads again, and throws after its hundredth turn.     *)
ClaimsRunning(a) == status[step[a]][attempt[a]] \in {"pending", "running"}  \* mutant
Claimable(a) == status[step[a]][attempt[a]] = "pending"

ClaimStep(a) ==
    /\ pc[a] = "claim" /\ Claimable(a)
    /\ Mark(step[a], attempt[a], "running")
    /\ Goto(a, "setRunning")
    /\ UNCHANGED <<run, data, hash, History, Bounds>>

ClaimLost(a) ==
    /\ pc[a] = "claim" /\ ~Claimable(a)
    /\ Loop(a) \/ Return(a)
    /\ UNCHANGED <<run, stepVars, History, Bounds>>

(* The run row of this turn is not looked at again.                        *)
SetRunning(a) ==
    /\ pc[a] = "setRunning"
    /\ SetRunStatus(a, "running", step[a])
    /\ pc' = [pc EXCEPT ![a] = "refresh"]
    /\ seen' = [seen EXCEPT ![a] = NoRun]
    /\ UNCHANGED <<step, attempt, payload, readHash, granted, approvalAttempt,
                   stepVars, History, Bounds>>

-----------------------------------------------------------------------------
(* Working on a claimed step.                                              *)

(* The second getPlaybookRun: templates and the approval row are read here *)
(* and used later.                                                         *)
RefreshSkill(a) ==
    /\ pc[a] = "refresh" /\ Kind[step[a]] = "skill"
    /\ Goto(a, "skill")
    /\ UNCHANGED <<run, stepVars, History, Bounds>>

ResolvePayload(a) ==
    \E n \in Attempts :
        /\ IsLatest(PayloadFrom[step[a]], n)
        /\ payload' = [payload EXCEPT ![a] = data[PayloadFrom[step[a]]][n]]

RefreshApproval(a) ==
    /\ pc[a] = "refresh" /\ Kind[step[a]] = "approval"
    /\ ResolvePayload(a)
    /\ pc' = [pc EXCEPT ![a] = "place"]
    /\ UNCHANGED <<step, attempt, seen, readHash, granted, approvalAttempt,
                   run, stepVars, History, Bounds>>

RefreshAction(a) ==
    /\ pc[a] = "refresh" /\ Kind[step[a]] = "action"
    /\ ResolvePayload(a)
    /\ \E m \in Attempts :
          /\ IsLatest(ApprovalOf[step[a]], m)
          /\ approvalAttempt' = [approvalAttempt EXCEPT ![a] = m]
          /\ readHash' = [readHash EXCEPT ![a] = hash[ApprovalOf[step[a]]][m]]
          /\ granted' = [granted EXCEPT ![a] = (status[ApprovalOf[step[a]]][m] = "completed")]
    /\ pc' = [pc EXCEPT ![a] = "check"]
    /\ UNCHANGED <<step, attempt, seen, run, stepVars, History, Bounds>>

(* placeStepBehindApproval: one transaction, by ids alone.                 *)
PlaceBehindApproval(a, p) ==
    /\ Mark(step[a], attempt[a], "waiting_approval")
    /\ data' = [data EXCEPT ![step[a]][attempt[a]] = p]
    /\ hash' = [hash EXCEPT ![step[a]][attempt[a]] = PayloadHash(p)]
    /\ SetRun("waiting_approval", step[a], run.error)
    /\ Return(a)
    /\ UNCHANGED <<History, Bounds>>

WaitForApproval(a) ==
    /\ pc[a] = "place"
    /\ PlaceBehindApproval(a, payload[a])

(* failStep: the step and the run, by ids alone; the loop reads on.        *)
FailStep(a) ==
    /\ Mark(step[a], attempt[a], "failed")
    /\ SetRun("failed", step[a], "step")
    /\ Loop(a)
    /\ UNCHANGED <<data, hash, History, Bounds>>

(* A failed attempt with attempts left: the next attempt row, the run      *)
(* queued.  UNIQUE (playbook_run_id, step_id, attempt) aborts the second   *)
(* of two callers that outlived their leases on one attempt.               *)
RetryStatus(s) == IF Delayed[s] THEN "delayed" ELSE "pending"
NextAttemptExists(a) == status[step[a]][attempt[a] + 1] # "absent"
PlaceRetry(a) ==
    /\ status' = [status EXCEPT ![step[a]] = [@ EXCEPT
          ![attempt[a]] = "failed",
          ![attempt[a] + 1] = RetryStatus(step[a])]]
    /\ SetRun("queued", step[a], "none")
    /\ IF Kind[step[a]] = "skill" /\ ~Delayed[step[a]] THEN Loop(a) ELSE Return(a)
    /\ UNCHANGED <<data, hash, History, Bounds>>
RetryAborts(a) == Return(a) /\ UNCHANGED <<run, stepVars, History, Bounds>>
ScheduleRetry(a) ==
    /\ attempt[a] < MaxAttempts[step[a]]
    /\ IF NextAttemptExists(a) THEN RetryAborts(a) ELSE PlaceRetry(a)

CompleteStep(a, p) ==
    /\ Mark(step[a], attempt[a], "completed")
    /\ data' = [data EXCEPT ![step[a]][attempt[a]] = p]
    /\ Loop(a)
    /\ UNCHANGED <<run, hash, History, Bounds>>

(* runSkillStep: a workspace policy may deny the skill or put it behind an *)
(* approval; the skill itself completes, fails or throws.                  *)
SkillBehindApproval(a) ==
    /\ pc[a] = "skill"
    /\ PlaceBehindApproval(a, NoPayload)
SkillCompletes(a) ==
    /\ pc[a] = "skill"
    /\ \E p \in Drafts : CompleteStep(a, p)
SkillRetries(a) == pc[a] = "skill" /\ ScheduleRetry(a)
SkillFails(a) == pc[a] = "skill" /\ FailStep(a)

(* runActionStep: a policy may deny; otherwise the payload must be the one *)
(* of a completed approval step, and an approve decision for it on record. *)
UnhashedAuthorised(a) ==                \* mutant: approves the step, not the payload
    /\ granted[a]
    /\ [step |-> ApprovalOf[step[a]], attempt |-> approvalAttempt[a],
        hash |-> readHash[a], decision |-> "approve"] \in approvals
Authorised(a) ==
    /\ granted[a]
    /\ readHash[a] = PayloadHash(payload[a])
    /\ [step |-> ApprovalOf[step[a]], attempt |-> approvalAttempt[a],
        hash |-> PayloadHash(payload[a]), decision |-> "approve"] \in approvals

ActionRefused(a) ==
    /\ pc[a] = "check"
    /\ \E effect \in {"allow", "deny"} : effect = "deny" \/ ~Authorised(a)
    /\ FailStep(a)

ActionAuthorised(a) ==
    /\ pc[a] = "check" /\ Authorised(a)
    /\ Goto(a, "call")
    /\ UNCHANGED <<run, stepVars, History, Bounds>>

(* executePreparedPlaybookAction returns a delivery or throws; a throw     *)
(* does not say whether the provider accepted.                             *)
CallProvider(a) ==
    /\ pc[a] = "call"
    /\ calls' = calls \cup {[step |-> step[a], approvalAttempt |-> approvalAttempt[a],
                             hash |-> PayloadHash(payload[a])]}
    /\ ncalls' = [ncalls EXCEPT ![step[a]] = @ + 1]
    /\ Goto(a, "finish") \/ Goto(a, "catch")
    /\ UNCHANGED <<run, stepVars, approvals, Bounds>>

ActionCompletes(a) == pc[a] = "finish" /\ CompleteStep(a, payload[a])
ActionRetries(a) == pc[a] = "catch" /\ ScheduleRetry(a)
ActionFails(a) ==
    /\ pc[a] = "catch" /\ attempt[a] >= MaxAttempts[step[a]]
    /\ FailStep(a)

-----------------------------------------------------------------------------
(* The founder, and the environment.                                       *)

(* decidePlaybookApproval and updatePlaybookApprovalBody read the run, then*)
(* lock the step row and compare what they read.                           *)
DecideRead(a) ==
    /\ pc[a] = "idle"
    /\ \E s \in Steps, n \in Attempts :
          /\ IsLatest(s, n) /\ status[s][n] = "waiting_approval"
          /\ Take(a, "decide", s, n)
          /\ readHash' = [readHash EXCEPT ![a] = hash[s][n]]
    /\ UNCHANGED <<run, stepVars, History, Bounds>>

SameHash(a) == hash[step[a]][attempt[a]] = readHash[a]                 \* mutant
Undisturbed(a) ==
    /\ status[step[a]][attempt[a]] = "waiting_approval"
    /\ hash[step[a]][attempt[a]] = readHash[a]
Decide(a, decision) ==
    /\ approvals' = approvals \cup {[step |-> step[a], attempt |-> attempt[a],
                                     hash |-> readHash[a], decision |-> decision]}
    /\ UNCHANGED <<data, hash, calls, ncalls, Bounds>>

Approve(a) ==
    /\ pc[a] = "decide" /\ Undisturbed(a)
    /\ Decide(a, "approve")
    /\ Mark(step[a], attempt[a], "completed")
    /\ SetRun("running", NoStep, run.error)
    /\ Enter(a, "begin")

Reject(a) ==
    /\ pc[a] = "decide" /\ Undisturbed(a)
    /\ Decide(a, "reject")
    /\ Mark(step[a], attempt[a], "failed")
    /\ SetRun("failed", run.current, "step")
    /\ Return(a)

EditBody(a) ==
    /\ pc[a] = "decide" /\ Undisturbed(a) /\ edits < MaxEdits
    /\ data[step[a]][attempt[a]] # NoPayload
    /\ \E p \in Payloads :
          /\ data' = [data EXCEPT ![step[a]][attempt[a]] = p]
          /\ hash' = [hash EXCEPT ![step[a]][attempt[a]] = PayloadHash(p)]
    /\ edits' = edits + 1
    /\ Return(a)
    /\ UNCHANGED <<run, status, History, overruns, crashes, expiries>>

(* 409: approval state changed; reload.                                    *)
DecideConflict(a) ==
    /\ pc[a] = "decide" /\ ~Undisturbed(a)
    /\ Return(a)
    /\ UNCHANGED <<run, stepVars, History, Bounds>>

(* The process dies and forgets; its rows stay as they are.                *)
Crash(a) ==
    /\ pc[a] # "idle" /\ crashes + expiries < MaxFaults
    /\ crashes' = crashes + 1
    /\ Return(a)
    /\ UNCHANGED <<run, stepVars, History, overruns, expiries, edits>>

(* Sixty seconds pass on a lease that nothing renews: its process is dead, *)
(* or slow.                                                                *)
LeaseExpires(s, n) ==
    /\ status[s][n] = "running"
    /\ \/ (\A a \in Advancers : ~Holds(a, s, n)) /\ UNCHANGED overruns
       \/ /\ \E a \in Advancers : Holds(a, s, n)
          /\ crashes + expiries < MaxFaults /\ overruns < MaxOverruns
          /\ overruns' = overruns + 1
    /\ expiries' = expiries + 1
    /\ Mark(s, n, "expired")
    /\ UNCHANGED <<run, data, hash, pc, memory, History, crashes, edits>>

RetryDue(s, n) ==
    /\ status[s][n] = "delayed"
    /\ Mark(s, n, "pending")
    /\ UNCHANGED <<run, data, hash, pc, memory, History, Bounds>>

Work(a) ==
    \/ RecoverStaleSteps(a) \/ ReadRun(a)
    \/ SeeWaiting(a) \/ SeeFailed(a) \/ SeeReady(a) \/ SeeNoneReady(a)
    \/ SetWaiting(a) \/ SetQueued(a) \/ FailRun(a) \/ CompleteRun(a)
    \/ ClaimStep(a) \/ ClaimLost(a) \/ SetRunning(a)
    \/ RefreshSkill(a) \/ RefreshApproval(a) \/ RefreshAction(a) \/ WaitForApproval(a)
    \/ SkillBehindApproval(a) \/ SkillCompletes(a) \/ SkillRetries(a) \/ SkillFails(a)
    \/ ActionRefused(a) \/ ActionAuthorised(a)
    \/ ActionCompletes(a) \/ ActionRetries(a) \/ ActionFails(a)
Advance(a) == Work(a) \/ CallProvider(a)
Answer(a) == Approve(a) \/ Reject(a) \/ EditBody(a) \/ DecideConflict(a)
Founder(a) == DecideRead(a) \/ Answer(a)
Time == \E s \in Steps, n \in Attempts : LeaseExpires(s, n) \/ RetryDue(s, n)

Next ==
    \/ \E a \in Advancers : StartRun(a) \/ Sweep(a) \/ Advance(a) \/ Founder(a) \/ Crash(a)
    \/ Time

Spec == Init /\ [][Next]_vars

(* The worker sweeps on a timer and a live process takes its next step,    *)
(* also in the request that carries a founder's answer; time passes.       *)
(* Nobody has to decide, and nothing has to crash.                         *)
Fairness ==
    /\ \A a \in Advancers : WF_vars(Sweep(a) \/ Advance(a) \/ Answer(a))
    /\ WF_vars(Time)
FairSpec == Spec /\ Fairness

-----------------------------------------------------------------------------
(* Properties.                                                             *)

(* Every variable keeps the shape its table or its local variables give it.*)
RunOK == run \in RunRow
RowsOK ==
    /\ status \in [Steps -> [Attempts -> StepStatus]]
    /\ data \in [Steps -> [Attempts -> Content]]
    /\ hash \in [Steps -> [Attempts -> Hashes \cup {NoHash}]]
CallsOK ==
    /\ pc \in [Advancers -> Phase]
    /\ step \in [Advancers -> Steps \cup {NoStep}]
    /\ \A a \in Advancers : pc[a] \in OnStep => step[a] \in Steps
    /\ attempt \in [Advancers -> Attempts]
    /\ seen \in [Advancers -> RunRow]
    /\ payload \in [Advancers -> Content]
    /\ readHash \in [Advancers -> Hashes \cup {NoHash}]
    /\ granted \in [Advancers -> BOOLEAN]
    /\ approvalAttempt \in [Advancers -> Attempts]
HistoryOK ==
    /\ approvals \subseteq Approval
    /\ calls \subseteq Call
    /\ ncalls \in [Steps -> Nat]
    /\ overruns \in Nat /\ crashes \in Nat /\ expiries \in Nat /\ edits \in Nat
TypeOK == RunOK /\ RowsOK /\ CallsOK /\ HistoryOK

(* runActionStep: whatever steps, edits, crashes and slow workers do, a    *)
(* provider is only ever handed a payload that a founder approved, under   *)
(* its exact hash, on the approval step the action names.                  *)
ExactApproval == \A c \in calls :
    [step |-> ApprovalOf[c.step], attempt |-> c.approvalAttempt,
     hash |-> c.hash, decision |-> "approve"] \in approvals

(* decidePlaybookApproval is the only way through an approval step: a      *)
(* completed one has its decision on record, for the payload it shows.     *)
GrantedStepHasDecision == \A s \in Steps, n \in Attempts :
    Kind[s] = "approval" /\ status[s][n] = "completed" =>
        [step |-> s, attempt |-> n, hash |-> hash[s][n],
         decision |-> "approve"] \in approvals

(* claimStep: one call at most works on an attempt, and its row says so.   *)
(* The lease of a step is 60 seconds and nothing renews it: this and the   *)
(* three properties below hold until a live call outlasts one.             *)
ClaimIsExclusive == overruns = 0 => \A a \in Advancers, s \in Steps, n \in Attempts :
    Holds(a, s, n) =>
        /\ status[s][n] = "running"
        /\ \A b \in Advancers : Holds(b, s, n) => a = b

(* Retries and recovery: a step calls its provider once per attempt, and   *)
(* once more for each lease that expired, never more often.                *)
CallsBounded == \A s \in Steps : ncalls[s] <= MaxAttempts[s] + expiries

(* completeRun decides on rows it read earlier and writes by id alone; yet *)
(* a completed run has every step completed, unless a live call outlasted  *)
(* its lease.                                                              *)
CompletedRunIsFinished == overruns = 0 /\ run.status = "completed" => AllCompleted

(* decidePlaybookApproval: once a founder has rejected an approval step, no*)
(* action behind it reaches a provider, unless a live call outlasted its   *)
(* lease: it may place a rejected attempt before the founder again.        *)
RejectionStopsTheAction == overruns = 0 => \A r \in approvals, c \in calls :
    r.decision = "reject" => ApprovalOf[c.step] # r.step

(* Every UPDATE is by id alone; still no step takes a completed attempt    *)
(* back, unless a live call outlasted its lease and works on an attempt    *)
(* that another has completed.                                             *)
CompletedAttemptStays == [][overruns' = 0 => \A s \in Steps, n \in Attempts :
    status[s][n] = "completed" => status'[s][n] = "completed"]_vars

(* The sweep and recoverStaleSteps: a queued or running run comes to its   *)
(* end or to a row that says a founder must decide, however two calls      *)
(* interleave and a process crashes on the way.  The row may say so from a *)
(* stale read, with nothing to decide: see WorkIsResumed.                  *)
Progress ==
    run.status \in {"queued", "running"} ~>
        run.status \in TerminalRun \cup {"waiting_approval"}

(* docs/control-plane-architecture.md:39: "The standalone worker resumes   *)
(* work after process or infrastructure failure."  The sweep takes up what *)
(* is queued or running: a run that still has a step to do and nothing for *)
(* the founders to decide must not stay out of its sight.                  *)
OutOfSight == run.status = "waiting_approval" /\ Waiting = {} /\ Ready # {}
WorkIsResumed == OutOfSight ~> ~OutOfSight

(* The abstract promise: what is executed was approved after being shown.  *)
Abstract == INSTANCE ApprovedExecution WITH
    Hash <- Hashes,
    approved <- {r.hash : r \in {q \in approvals : q.decision = "approve"}},
    executed <- {c.hash : c \in calls}
ImplementsApprovedExecution == Abstract!Spec
=============================================================================
