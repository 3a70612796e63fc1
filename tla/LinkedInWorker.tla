-------------------------- MODULE LinkedInWorker --------------------------
(***************************************************************************)
(* The local worker on one LinkedIn seat, src/server/linkedin: the lease   *)
(* on the seat, the batches that claim due rows of linkedin_actions and    *)
(* drive a browser (local-worker.ts), the reapers, and the operators who   *)
(* write the same rows (managed-campaigns.ts, action-ledger.ts, seats.ts). *)
(*                                                                         *)
(* A sitting is one call of the seat's lane in runDueLinkedInActions, in   *)
(* whichever worker process it lives; it opens one batch at most, which    *)
(* has its name.  A row is an action of its own campaign member.  The      *)
(* browser and LinkedIn are outside src/: a driver call is an effect, or   *)
(* none, and an answer.                                                    *)
(***************************************************************************)
EXTENDS Naturals, FiniteSets

CONSTANTS
    Sittings,     \* calls of the seat's lane
    Actions,      \* rows of linkedin_actions on the seat
    Workers,      \* worker ids
    None,         \* NULL
    WorkerOf,     \* sitting -> the worker that makes the call
    KindOf,       \* row -> kind
    Operators,    \* bound: whether operators intervene
    MaxEvents     \* bound: crashes, statements that throw, workers that freeze, and
                  \* interventions of operators

ASSUME WorkerAssumption ==
    /\ IsFiniteSet(Sittings) /\ None \notin Sittings \cup Actions \cup Workers
    /\ WorkerOf \in [Sittings -> Workers]
    /\ KindOf \in [Actions -> {"invite", "dm", "other"}]
    /\ Operators \in BOOLEAN /\ MaxEvents \in Nat

VARIABLES
    seatHolder, seatLease,         \* linkedin_seat_leases
    posture,                       \* linkedin_seats: "open", or paused or cooling down
    row,                           \* linkedin_actions: action -> row
    campaign, member, moved,       \* the campaign; action -> its member, and whether that
                                   \* has left the step of the action
    batch, asked,                  \* linkedin_batches: sitting -> status, stop_requested_at
    pc, cur, answer,               \* sitting -> where it is, its row, the driver's answer
    deferred, drifted, abandoned,  \* sitting -> what the pass remembers
    dropping, retrying,            \* rows a request has read and is about to write
    frozen,                        \* sittings of a process that is suspended
    \* history
    done,         \* row -> effects on LinkedIn
    excuses,      \* row -> events after which a second effect is nobody's surprise
    lost,         \* rows taken from the live sitting that drove them
    late,         \* sitting -> effects after its batch was stopped or written off
    overtaken,    \* sittings whose expired seat lease another worker took
    events

seatVars == <<seatHolder, seatLease, posture>>
memberVars == <<campaign, member, moved>>
batchVars == <<batch, asked>>
passVars == <<deferred, drifted, abandoned>>
sittingVars == <<pc, cur, answer, passVars>>
requestVars == <<dropping, retrying>>
outsideVars == <<frozen, events>>
historyVars == <<done, excuses, lost, late, overtaken>>
workerVars == <<seatVars, row, memberVars, batchVars, sittingVars, requestVars, historyVars,
                outsideVars>>

Row == [status : {"planned", "held", "sent", "accepted", "skipped"}, claimed : BOOLEAN,
        by : Workers \cup {None}, batch : Sittings \cup {None},
        lease : {"none", "live", "expired"}, hold : BOOLEAN,
        failure : {"none", "retryable", "other"}]
Definite == {"drift", "wall", "lost", "gone", "already", "quota"}
Answer == {"none", "sent", "unknown"} \cup Definite
Phase == {"idle", "leased", "top", "posture", "claim", "check", "gate", "beat", "recheck",
          "act", "record", "bare", "recordBare", "closing", "leaving", "done", "dead"}

Init ==
    /\ seatHolder = None /\ seatLease = "released" /\ posture = "open"
    /\ row = [a \in Actions |-> [status |-> "planned", claimed |-> FALSE, by |-> None,
                                 batch |-> None, lease |-> "none", hold |-> FALSE,
                                 failure |-> "none"]]
    /\ campaign = "running"
    /\ member = [a \in Actions |-> "waiting"] /\ moved = [a \in Actions |-> FALSE]
    /\ batch = [s \in Sittings |-> "none"] /\ asked = [s \in Sittings |-> FALSE]
    /\ pc = [s \in Sittings |-> "idle"]
    /\ cur = [s \in Sittings |-> None]
    /\ answer = [s \in Sittings |-> "none"]
    /\ deferred = [s \in Sittings |-> {}] /\ drifted = [s \in Sittings |-> {}]
    /\ abandoned = [s \in Sittings |-> {}]
    /\ dropping = {} /\ retrying = {}
    /\ done = [a \in Actions |-> 0] /\ excuses = [a \in Actions |-> 0]
    /\ lost = {} /\ late = [s \in Sittings |-> 0] /\ overtaken = {}
    /\ frozen = {} /\ events = 0

Goto(s, phase) == pc' = [pc EXCEPT ![s] = phase]
Alive(s) == pc[s] \notin {"idle", "done", "dead"}
Awake(s) == Alive(s) /\ s \notin frozen
At(s, phase) == pc[s] = phase /\ s \notin frozen
Holds(s, a) == cur[s] = a /\ s \notin frozen
Stopped(s) == asked[s] \/ batch[s] # "running"
Drives(s, a) == Alive(s) /\ cur[s] = a /\ row[a].batch = s

(* The row is done with: the loop goes round, or halts.                    *)
NextRow(s, phase) ==
    /\ Goto(s, phase)
    /\ cur' = [cur EXCEPT ![s] = None]
    /\ answer' = [answer EXCEPT ![s] = "none"]
(* What the pass remembers goes with it.                                   *)
EndPass(s) ==
    /\ deferred' = [deferred EXCEPT ![s] = {}]
    /\ drifted' = [drifted EXCEPT ![s] = {}]
    /\ abandoned' = [abandoned EXCEPT ![s] = {}]
Defer(s, a) == deferred' = [deferred EXCEPT ![s] = @ \cup {a}]
Excuse(a) == excuses' = [excuses EXCEPT ![a] = @ + 1]

Put(a, new) == row' = [row EXCEPT ![a] = new]
Unclaimed(r) == [r EXCEPT !.claimed = FALSE, !.by = None, !.lease = "none", !.batch = None]
(* Every write of a batch below names the row by its id alone.             *)
ReleaseClaim(a, failure) == Put(a, [Unclaimed(row[a]) EXCEPT !.failure = failure])
SettleSent(a) == Put(a, [row[a] EXCEPT !.status = "sent", !.by = None, !.lease = "none",
                                       !.failure = "none"])
SettleExistingInvite(a, as) ==
    Put(a, [row[a] EXCEPT !.status = as, !.claimed = FALSE, !.by = None, !.lease = "none",
                          !.failure = "none"])
SettleSkipped(a, failure) ==
    Put(a, [Unclaimed(row[a]) EXCEPT !.status = "skipped", !.failure = failure])
SettleBranchSkipped(a) ==
    Put(a, [row[a] EXCEPT !.status = "skipped", !.claimed = FALSE, !.by = None,
                          !.lease = "none", !.failure = "none"])
HoldClaim(s, a) == Put(a, [row[a] EXCEPT !.failure = "other", !.by = WorkerOf[s],
                                         !.lease = "none", !.hold = TRUE])

(* A settled row takes its member to the next step, if it waits at this.   *)
Advance(a) ==
    /\ moved' = [moved EXCEPT ![a] = @ \/ member[a] = "waiting"]
    /\ UNCHANGED <<campaign, member>>

Standing(a) ==
    IF campaign # "running" \/ member[a] = "paused" THEN "defer"
    ELSE IF member[a] # "waiting" \/ moved[a] THEN "retire" ELSE "execute"

-----------------------------------------------------------------------------
(* The seat.  A worker runs one cycle at a time; a lease is taken when it  *)
(* is the worker's own, was released or has expired.                       *)
EvenLive(w) == TRUE    \* mutant: the upsert has no condition
SeatFree(w) == seatHolder = w \/ seatLease # "live"
ClaimSeatLease(s) ==
    /\ pc[s] = "idle" /\ posture = "open"
    /\ \A t \in Sittings \ {s} : WorkerOf[t] = WorkerOf[s] => ~Alive(t)
    /\ SeatFree(WorkerOf[s])
    /\ seatHolder' = WorkerOf[s] /\ seatLease' = "live"
    /\ overtaken' = overtaken \cup
         {t \in Sittings : Alive(t) /\ seatLease = "expired" /\ WorkerOf[t] = seatHolder}
    /\ Goto(s, "leased")
    /\ UNCHANGED <<posture, row, memberVars, batchVars, cur, answer, passVars, requestVars,
                   done, excuses, lost, late, outsideVars>>

HeartbeatSeatLease(s) ==
    /\ Awake(s) /\ seatHolder = WorkerOf[s] /\ seatLease = "expired"
    /\ seatLease' = "live"
    /\ UNCHANGED <<seatHolder, posture, row, memberVars, batchVars, sittingVars, requestVars,
                   historyVars, outsideVars>>

(* No browser, no session, or a posture that refuses.                      *)
CannotSit(s) ==
    /\ At(s, "leased")
    /\ Goto(s, "leaving")
    /\ UNCHANGED <<seatVars, row, memberVars, batchVars, cur, answer, passVars, requestVars,
                   historyVars, outsideVars>>

OpenBatch(s) ==
    /\ At(s, "leased") /\ posture = "open"
    /\ batch' = [batch EXCEPT ![s] = "running"]
    /\ Goto(s, "top")
    /\ UNCHANGED <<seatVars, row, memberVars, asked, cur, answer, passVars, requestVars,
                   historyVars, outsideVars>>

CloseBatch(s) ==
    /\ At(s, "closing")
    /\ batch' = [batch EXCEPT ![s] = "finished"]
    /\ Goto(s, "leaving") /\ EndPass(s)
    /\ UNCHANGED <<seatVars, row, memberVars, asked, cur, answer, requestVars, historyVars,
                   outsideVars>>

ReleaseSeatLease(s) ==
    /\ At(s, "leaving")
    /\ seatLease' = IF seatHolder = WorkerOf[s] THEN "released" ELSE seatLease
    /\ Goto(s, "done")
    /\ UNCHANGED <<seatHolder, posture, row, memberVars, batchVars, cur, answer, passVars,
                   requestVars, historyVars, outsideVars>>

-----------------------------------------------------------------------------
(* The loop, up to the driver.                                             *)
StopIsOnlyAsked(s) == asked[s]    \* mutant: a batch that was written off drives on
StopRequested(s) == Stopped(s)
CheckStop(s) ==
    /\ At(s, "top")
    /\ Goto(s, IF StopRequested(s) THEN "closing" ELSE "posture")
    /\ UNCHANGED <<seatVars, row, memberVars, batchVars, cur, answer, passVars, requestVars,
                   historyVars, outsideVars>>

CheckPosture(s) ==
    /\ At(s, "posture")
    /\ Goto(s, IF posture = "open" THEN "claim" ELSE "closing")
    /\ UNCHANGED <<seatVars, row, memberVars, batchVars, cur, answer, passVars, requestVars,
                   historyVars, outsideVars>>

ClaimableTwice(a) == row[a].status = "planned"    \* mutant: claimed_at is not compared
Claimable(a) == row[a].status = "planned" /\ ~row[a].claimed
ClaimNextDueAction(s, a) ==
    /\ At(s, "claim") /\ Claimable(a) /\ a \notin deferred[s]
    /\ Put(a, [row[a] EXCEPT !.claimed = TRUE, !.by = WorkerOf[s], !.batch = s,
                             !.lease = "live"])
    /\ cur' = [cur EXCEPT ![s] = a]
    /\ Goto(s, "check")
    /\ UNCHANGED <<seatVars, memberVars, batchVars, answer, passVars, requestVars, historyVars,
                   outsideVars>>

(* No row is due, or the pass has spent its budget.                        *)
NothingDue(s) ==
    /\ At(s, "claim")
    /\ Goto(s, "closing")
    /\ UNCHANGED <<seatVars, row, memberVars, batchVars, cur, answer, passVars, requestVars,
                   historyVars, outsideVars>>

(* The row goes back and the pass leaves it alone: its kind was given up,  *)
(* its campaign or member is paused, its branch is pending, or the gate    *)
(* refuses it.                                                             *)
GivenUp(s, a) == pc[s] = "check" /\ KindOf[a] \in abandoned[s]
Refused(s, a) ==
    \/ GivenUp(s, a)
    \/ pc[s] \in {"check", "recheck"} /\ Standing(a) = "defer"
    \/ pc[s] = "gate"
PutBack(s, a) ==
    /\ Holds(s, a) /\ Refused(s, a)
    /\ ReleaseClaim(a, "none") /\ Defer(s, a) /\ NextRow(s, "top")
    /\ UNCHANGED <<seatVars, memberVars, batchVars, drifted, abandoned, requestVars,
                   historyVars, outsideVars>>

(* The member moved on, or the branch can never be taken.                  *)
Retired(s, a) ==
    \/ pc[s] \in {"check", "recheck"} /\ Standing(a) = "retire"
    \/ pc[s] = "gate"
Retire(s, a) ==
    /\ Holds(s, a) /\ Retired(s, a) /\ ~GivenUp(s, a)
    /\ SettleBranchSkipped(a) /\ Advance(a) /\ NextRow(s, "top")
    /\ UNCHANGED <<seatVars, batchVars, passVars, requestVars, historyVars, outsideVars>>

(* The state, the branch or the gate cannot be read.                       *)
CannotTell(s, a) ==
    /\ Holds(s, a) /\ pc[s] \in {"check", "gate"} /\ ~GivenUp(s, a)
    /\ ReleaseClaim(a, "none") /\ NextRow(s, "closing")
    /\ UNCHANGED <<seatVars, memberVars, batchVars, passVars, requestVars, historyVars,
                   outsideVars>>

After == [check |-> "gate", gate |-> "beat", recheck |-> "act"]
Pass(s, a) ==
    /\ Holds(s, a) /\ pc[s] \in DOMAIN After /\ ~GivenUp(s, a)
    /\ pc[s] \in {"check", "recheck"} => Standing(a) = "execute"
    /\ Goto(s, After[pc[s]])
    /\ UNCHANGED <<seatVars, row, memberVars, batchVars, cur, answer, passVars, requestVars,
                   historyVars, outsideVars>>

(* Its result is not looked at: the loop goes on without the row.          *)
Heartbeat(s, a) ==
    /\ Holds(s, a) /\ pc[s] = "beat"
    /\ IF row[a].batch = s /\ row[a].by = WorkerOf[s]
       THEN Put(a, [row[a] EXCEPT !.lease = "live"]) ELSE UNCHANGED row
    /\ Goto(s, "recheck")
    /\ UNCHANGED <<seatVars, memberVars, batchVars, cur, answer, passVars, requestVars,
                   historyVars, outsideVars>>

-----------------------------------------------------------------------------
(* The driver.  Of "sent" and of the definite refusals it is believed; an  *)
(* unknown answer may hide an effect.                                      *)
MayHide(ans) == IF ans = "sent" THEN {1} ELSE IF ans = "unknown" THEN {0, 1} ELSE {0}
Call(s, a, ans, effect) ==
    /\ answer' = [answer EXCEPT ![s] = ans]
    /\ done' = [done EXCEPT ![a] = @ + effect]
    /\ late' = [late EXCEPT ![s] = IF Stopped(s) THEN @ + effect ELSE @]

Drive(s, a) ==
    /\ Holds(s, a) /\ pc[s] = "act"
    /\ \E ans \in Answer \ {"none"} : \E effect \in MayHide(ans) :
          /\ ans = "quota" => KindOf[a] = "invite"
          /\ Call(s, a, ans, effect)
    /\ Goto(s, "record")
    /\ UNCHANGED <<seatVars, row, memberVars, batchVars, cur, passVars, requestVars, excuses,
                   lost, overtaken, outsideVars>>

(* The same invite again, without the note there is no quota for.          *)
DriveBare(s, a) ==
    /\ Holds(s, a) /\ pc[s] = "bare"
    /\ \E ans \in Answer \ {"none"} : \E effect \in MayHide(ans) : Call(s, a, ans, effect)
    /\ Goto(s, "recordBare")
    /\ UNCHANGED <<seatVars, row, memberVars, batchVars, cur, passVars, requestVars, excuses,
                   lost, overtaken, outsideVars>>

Answered(s, a, ans) == Holds(s, a) /\ pc[s] = "record" /\ answer[s] = ans
Recorded(s, phase) ==
    /\ NextRow(s, phase)
    /\ UNCHANGED <<seatHolder, seatLease, batchVars, requestVars, done, lost, late, overtaken,
                   outsideVars>>

RecordSent(s, a) ==
    /\ Holds(s, a) /\ pc[s] \in {"record", "recordBare"} /\ answer[s] = "sent"
    /\ SettleSent(a) /\ Advance(a) /\ Recorded(s, "top")
    /\ UNCHANGED <<posture, passVars, excuses>>

(* A wall or a challenge: the seat cools down.                             *)
RecordWall(s, a) ==
    /\ Answered(s, a, "wall")
    /\ ReleaseClaim(a, "retryable") /\ posture' = "refused" /\ Recorded(s, "closing")
    /\ UNCHANGED <<memberVars, passVars, excuses>>

RecordExisting(s, a) ==
    /\ Answered(s, a, "already") /\ KindOf[a] = "invite"
    /\ \E as \in {"accepted", "sent"} : SettleExistingInvite(a, as)
    /\ Advance(a) /\ Recorded(s, "top")
    /\ UNCHANGED <<posture, passVars, excuses>>

RecordImpossible(s, a) ==
    /\ \/ Answered(s, a, "gone") /\ SettleSkipped(a, "retryable")
       \/ Answered(s, a, "already") /\ KindOf[a] # "invite" /\ SettleSkipped(a, "other")
    /\ member' = [member EXCEPT ![a] = IF @ = "waiting" THEN "failed" ELSE @]
    /\ Recorded(s, "top")
    /\ UNCHANGED <<posture, campaign, moved, passVars, excuses>>

RecordSessionLost(s, a) ==
    /\ Answered(s, a, "lost")
    /\ ReleaseClaim(a, "retryable") /\ Recorded(s, "closing")
    /\ UNCHANGED <<posture, memberVars, passVars, excuses>>

(* DRIFT_HALT_THRESHOLD is 2.  A message to a person who has not accepted  *)
(* the invite yet is no drift.                                             *)
RecordDrift(s, a) ==
    /\ Answered(s, a, "drift")
    /\ Defer(s, a) /\ Recorded(s, "top")
    /\ \/ /\ ReleaseClaim(a, "retryable")
          /\ drifted' = [drifted EXCEPT ![s] = @ \cup {a}]
          /\ abandoned' = [abandoned EXCEPT ![s] =
                @ \cup {KindOf[b] : b \in {b \in drifted[s] \ {a} : KindOf[b] = KindOf[a]}}]
       \/ KindOf[a] = "dm" /\ ReleaseClaim(a, "none") /\ UNCHANGED <<drifted, abandoned>>
    /\ UNCHANGED <<posture, memberVars, excuses>>

GiveUpKind(s, a) ==
    /\ ReleaseClaim(a, "other") /\ Defer(s, a)
    /\ abandoned' = [abandoned EXCEPT ![s] = @ \cup {KindOf[a]}]
    /\ Recorded(s, "top")
    /\ UNCHANGED <<posture, memberVars, drifted>>
RecordQuota(s, a) ==
    /\ Answered(s, a, "quota")
    /\ GiveUpKind(s, a) /\ UNCHANGED excuses
(* The setting of the seat, read now, allows the invite without its note.  *)
DropNote(s, a) ==
    /\ Answered(s, a, "quota")
    /\ Goto(s, "bare") /\ answer' = [answer EXCEPT ![s] = "none"]
    /\ UNCHANGED <<seatVars, row, memberVars, batchVars, cur, passVars, requestVars,
                   historyVars, outsideVars>>
(* Whatever the second call answers, short of "sent", the claim is given   *)
(* back: also when it answers that it does not know.                       *)
RecordBareFailure(s, a) ==
    /\ Holds(s, a) /\ pc[s] = "recordBare" /\ answer[s] # "sent"
    /\ GiveUpKind(s, a)
    /\ IF answer[s] = "unknown" THEN Excuse(a) ELSE UNCHANGED excuses

RecordUnknown(s, a) ==
    /\ Answered(s, a, "unknown")
    /\ HoldClaim(s, a) /\ Recorded(s, "closing")
    /\ UNCHANGED <<posture, memberVars, passVars, excuses>>

-----------------------------------------------------------------------------
(* Faults.  What the browser did and nobody wrote down is an excuse.       *)
Event == events < MaxEvents /\ events' = events + 1
Unrecorded(s) == pc[s] \in {"record", "recordBare"} /\ answer[s] \in {"sent", "unknown"}
Forget(s, phase) ==
    /\ Alive(s) /\ Event /\ frozen' = frozen \ {s}
    /\ IF Unrecorded(s) THEN Excuse(cur[s]) ELSE UNCHANGED excuses
    /\ NextRow(s, phase) /\ EndPass(s)
    /\ UNCHANGED <<seatVars, row, memberVars, batchVars, requestVars, done, lost, late,
                   overtaken>>
Crash(s) == Forget(s, "dead")
(* A statement nobody catches ends the lane; the batch stays open and the  *)
(* row claimed.                                                            *)
StatementThrows(s) ==
    /\ s \notin frozen
    /\ pc[s] \in {"top", "posture", "claim", "beat", "recheck", "record", "recordBare", "closing"}
    /\ Forget(s, "leaving")

(* A suspended process sits out its leases, and goes on when it wakes.     *)
Freeze(s) ==
    /\ Awake(s) /\ Event /\ frozen' = frozen \cup {s}
    /\ UNCHANGED <<seatVars, row, memberVars, batchVars, sittingVars, requestVars, historyVars>>
Thaw(s) ==
    /\ s \in frozen /\ frozen' = frozen \ {s}
    /\ UNCHANGED <<seatVars, row, memberVars, batchVars, sittingVars, requestVars, historyVars,
                   events>>

(* A lease runs out when nobody drives the row, or the process sleeps.     *)
ActionLeaseExpires(a) ==
    /\ row[a].lease = "live" /\ \A s \in Sittings : Drives(s, a) => s \in frozen
    /\ Put(a, [row[a] EXCEPT !.lease = "expired"])
    /\ UNCHANGED <<seatVars, memberVars, batchVars, sittingVars, requestVars, historyVars,
                   outsideVars>>
SeatLeaseExpires ==
    /\ seatLease = "live"
    /\ \A s \in Sittings : Awake(s) => WorkerOf[s] # seatHolder
    /\ seatLease' = "expired"
    /\ UNCHANGED <<seatHolder, posture, row, memberVars, batchVars, sittingVars, requestVars,
                   historyVars, outsideVars>>

(* Every pass reaps first.  The second case is a claim an earlier          *)
(* settlement left behind.                                                 *)
EvenHeld(a) == row[a].status = "planned" /\ row[a].claimed    \* mutant: holds, leases ignored
OnlyLeftBehind(a) ==    \* mutant: expired leases are not reaped
    /\ row[a].status = "planned" /\ row[a].claimed /\ ~row[a].hold
    /\ row[a].lease = "none" /\ row[a].failure = "none" /\ row[a].by = None
Reapable(a) ==
    /\ row[a].status = "planned" /\ row[a].claimed /\ ~row[a].hold
    /\ \/ row[a].lease = "expired"
       \/ /\ row[a].lease = "none" /\ row[a].failure = "none" /\ row[a].by = None
          /\ \E s \in Sittings : row[a].batch = s /\ batch[s] = "finished"
ReapExpiredActionLease(a) ==
    /\ Reapable(a)
    /\ Put(a, Unclaimed(row[a]))
    /\ IF \E s \in Sittings : Drives(s, a)
       THEN Excuse(a) /\ lost' = lost \cup {a} ELSE UNCHANGED <<excuses, lost>>
    /\ UNCHANGED <<seatVars, memberVars, batchVars, sittingVars, requestVars, done, late,
                   overtaken, outsideVars>>

(* Two hours: longer than any batch whose process is awake.                *)
OnlyAsleep(s) == s \in frozen    \* mutant: the batch of a dead process stays
Stale(s) == ~Awake(s)
ReapStaleLinkedInBatch(s) ==
    /\ batch[s] = "running" /\ Stale(s)
    /\ batch' = [batch EXCEPT ![s] = "finished"]
    /\ UNCHANGED <<seatVars, row, memberVars, asked, sittingVars, requestVars, historyVars,
                   outsideVars>>

-----------------------------------------------------------------------------
(* Operators.  A pause parks what is queued, an end drops it; both leave   *)
(* claimed rows to the sitting that holds them.                            *)
Operate == Operators /\ Event /\ UNCHANGED frozen
Untouched == UNCHANGED <<batchVars, sittingVars, requestVars, historyVars>>
PauseSeat ==
    /\ Operate /\ posture = "open" /\ posture' = "refused"
    /\ UNCHANGED <<seatHolder, seatLease, row, memberVars>> /\ Untouched
ResumeSeat ==
    /\ Operate /\ posture = "refused" /\ posture' = "open"
    /\ UNCHANGED <<seatHolder, seatLease, row, memberVars>> /\ Untouched
StopLinkedInBatches ==
    /\ Operate
    /\ asked' = [s \in Sittings |-> asked[s] \/ batch[s] = "running"]
    /\ asked' # asked
    /\ UNCHANGED <<seatVars, row, memberVars, batch, sittingVars, requestVars, historyVars>>

Queued(a, status) == row[a].status \in status /\ ~row[a].claimed
Turn(which, status) ==
    row' = [a \in Actions |-> IF a \in which THEN [row[a] EXCEPT !.status = status] ELSE row[a]]

PauseCampaign ==
    /\ Operate /\ campaign = "running" /\ campaign' = "paused"
    /\ Turn({a \in Actions : Queued(a, {"planned"})}, "held")
    /\ UNCHANGED <<seatVars, member, moved>> /\ Untouched
HandBackNothing == {}    \* mutant: the parked rows are forgotten
HandedBack == {a \in Actions : row[a].status = "held" /\ member[a] # "paused"}
StartCampaign ==
    /\ Operate /\ campaign = "paused" /\ campaign' = "running"
    /\ Turn(HandedBack, "planned")
    /\ UNCHANGED <<seatVars, member, moved>> /\ Untouched
StopCampaign ==
    /\ Operate /\ campaign # "stopped" /\ campaign' = "stopped"
    /\ member' = [a \in Actions |-> IF member[a] \in {"waiting", "paused"} THEN "over"
                                    ELSE member[a]]
    /\ Turn({a \in Actions : Queued(a, {"planned", "held"})}, "skipped")
    /\ UNCHANGED <<seatVars, moved>> /\ Untouched

SetMember(a, as) == member' = [member EXCEPT ![a] = as]
PauseMember(a) ==
    /\ Operate /\ member[a] = "waiting" /\ SetMember(a, "paused")
    /\ Turn({b \in {a} : Queued(b, {"planned"})}, "held")
    /\ UNCHANGED <<seatVars, campaign, moved>> /\ Untouched
UnpauseMember(a) ==
    /\ Operate /\ member[a] = "paused" /\ SetMember(a, "waiting")
    /\ Turn({b \in {a} : row[b].status = "held" /\ campaign = "running"}, "planned")
    /\ UNCHANGED <<seatVars, campaign, moved>> /\ Untouched
DropQueued(a) == Turn({b \in {a} : Queued(b, {"planned", "held"})}, "skipped")
EndMember(a) ==
    /\ Operate /\ member[a] \in {"waiting", "paused"} /\ SetMember(a, "over")
    /\ DropQueued(a)
    /\ UNCHANGED <<seatVars, campaign, moved>> /\ Untouched
(* Refused while an unknown outcome is unresolved.                         *)
SkipStep(a) ==
    /\ Operate /\ ~row[a].hold /\ member[a] \in {"waiting", "paused"} /\ ~moved[a]
    /\ SetMember(a, "waiting") /\ moved' = [moved EXCEPT ![a] = TRUE]
    /\ DropQueued(a)
    /\ UNCHANGED <<seatVars, campaign>> /\ Untouched
ResumeAtStep(a) ==
    /\ Operate /\ ~row[a].hold /\ member[a] # "over"
    /\ SetMember(a, "waiting") /\ moved' = [moved EXCEPT ![a] = FALSE]
    /\ DropQueued(a)
    /\ UNCHANGED <<seatVars, campaign>> /\ Untouched

(* A human says what became of a held row.                                 *)
ResolveRetry(a) ==
    /\ Operate /\ row[a].hold
    /\ Put(a, [Unclaimed(row[a]) EXCEPT !.status = "planned", !.failure = "none",
                                        !.hold = FALSE])
    /\ SetMember(a, "waiting") /\ Excuse(a)
    /\ UNCHANGED <<seatVars, campaign, moved, batchVars, sittingVars, requestVars, done, lost,
                   late, overtaken>>
ResolveAs(a, status) ==
    /\ Operate /\ row[a].hold
    /\ Put(a, [Unclaimed(row[a]) EXCEPT !.status = status, !.failure = "none", !.hold = FALSE])
    /\ moved' = [moved EXCEPT ![a] = @ \/ member[a] \in {"waiting", "paused"}]
    /\ SetMember(a, IF member[a] = "paused" /\ ~moved[a] THEN "waiting" ELSE member[a])
    /\ UNCHANGED <<seatVars, campaign>> /\ Untouched

(* Two statements: the rows, then their members.  A row that was dropped   *)
(* under its claim is requeued while its sitting may still drive it.       *)
Retryable(a) == row[a].status = "skipped" /\ row[a].failure = "retryable"
RetryFailures ==
    LET again == {a \in Actions : Retryable(a)} IN
    /\ Operate /\ retrying = {} /\ again # {} /\ retrying' = again
    /\ row' = [a \in Actions |-> IF a \in again
                 THEN [Unclaimed(row[a]) EXCEPT !.status = "planned", !.failure = "none",
                                                !.hold = FALSE]
                 ELSE row[a]]
    /\ excuses' = [a \in Actions |-> IF a \in again /\ row[a].claimed THEN excuses[a] + 1
                                     ELSE excuses[a]]
    /\ lost' = lost \cup {a \in again : row[a].claimed}
    /\ UNCHANGED <<seatVars, memberVars, batchVars, sittingVars, dropping, done, late,
                   overtaken>>
ResumeMembers ==
    /\ retrying # {} /\ retrying' = {}
    /\ member' = [a \in Actions |-> IF a \in retrying /\ member[a] = "failed" THEN "waiting"
                                    ELSE member[a]]
    /\ UNCHANGED <<seatVars, row, campaign, moved, batchVars, sittingVars, dropping,
                   historyVars, outsideVars>>

(* skipAction reads the status in one statement and writes in another.     *)
ReadSkippable(a) ==
    /\ Operate /\ row[a].status \in {"planned", "held", "skipped"}
    /\ dropping' = dropping \cup {a}
    /\ UNCHANGED <<seatVars, row, memberVars, batchVars, sittingVars, retrying, historyVars>>
WriteSkipped(a) ==
    /\ a \in dropping /\ dropping' = dropping \ {a}
    /\ Put(a, [row[a] EXCEPT !.status = "skipped"])
    /\ UNCHANGED <<seatVars, memberVars, batchVars, sittingVars, retrying, historyVars,
                   outsideVars>>

-----------------------------------------------------------------------------
Sit(s) ==
    \/ CannotSit(s) \/ OpenBatch(s) \/ CloseBatch(s) \/ ReleaseSeatLease(s)
    \/ CheckStop(s) \/ CheckPosture(s) \/ NothingDue(s)
    \/ \E a \in Actions : ClaimNextDueAction(s, a)
Prepare(s, a) == PutBack(s, a) \/ Retire(s, a) \/ CannotTell(s, a) \/ Pass(s, a) \/ Heartbeat(s, a)
Act(s, a) == Drive(s, a) \/ DriveBare(s, a)
Record(s, a) ==
    \/ RecordSent(s, a) \/ RecordWall(s, a) \/ RecordExisting(s, a) \/ RecordImpossible(s, a)
    \/ RecordSessionLost(s, a) \/ RecordDrift(s, a) \/ RecordQuota(s, a) \/ DropNote(s, a)
    \/ RecordBareFailure(s, a) \/ RecordUnknown(s, a)
Work(s) == Sit(s) \/ \E a \in Actions : Prepare(s, a) \/ Act(s, a) \/ Record(s, a)

Fault == \E s \in Sittings : Crash(s) \/ StatementThrows(s) \/ Freeze(s)
Time ==
    \/ SeatLeaseExpires \/ \E a \in Actions : ActionLeaseExpires(a)
    \/ \E s \in Sittings : HeartbeatSeatLease(s) \/ Thaw(s)
Reap ==
    \/ \E a \in Actions : ReapExpiredActionLease(a)
    \/ \E s \in Sittings : ReapStaleLinkedInBatch(s)
OperateMember(a) ==
    \/ PauseMember(a) \/ UnpauseMember(a) \/ EndMember(a) \/ SkipStep(a) \/ ResumeAtStep(a)
OperateRow(a) ==
    \/ ResolveRetry(a) \/ ReadSkippable(a) \/ WriteSkipped(a)
    \/ \E status \in {"sent", "skipped"} : ResolveAs(a, status)
Operator ==
    \/ PauseSeat \/ ResumeSeat \/ StopLinkedInBatches
    \/ PauseCampaign \/ StartCampaign \/ StopCampaign \/ RetryFailures \/ ResumeMembers
    \/ \E a \in Actions : OperateMember(a) \/ OperateRow(a)

Next ==
    \/ \E s \in Sittings : ClaimSeatLease(s) \/ Work(s)
    \/ Fault \/ Time \/ Reap \/ Operator

Spec == Init /\ [][Next]_workerVars

(* The lane runs on, time passes, and every pass reaps first.              *)
FairSpec ==
    /\ Spec
    /\ \A s \in Sittings : /\ WF_workerVars(Work(s)) /\ WF_workerVars(Thaw(s))
                           /\ WF_workerVars(ReapStaleLinkedInBatch(s))
    /\ \A a \in Actions : WF_workerVars(ActionLeaseExpires(a))
                          /\ WF_workerVars(ReapExpiredActionLease(a))

-----------------------------------------------------------------------------
TypeOK ==
    /\ seatHolder \in Workers \cup {None} /\ seatLease \in {"released", "live", "expired"}
    /\ posture \in {"open", "refused"}
    /\ row \in [Actions -> Row]
    /\ campaign \in {"running", "paused", "stopped"}
    /\ member \in [Actions -> {"waiting", "paused", "failed", "over"}]
    /\ moved \in [Actions -> BOOLEAN]
    /\ batch \in [Sittings -> {"none", "running", "finished"}]
    /\ asked \in [Sittings -> BOOLEAN]
    /\ pc \in [Sittings -> Phase]
    /\ cur \in [Sittings -> Actions \cup {None}]
    /\ answer \in [Sittings -> Answer]
    /\ deferred \in [Sittings -> SUBSET Actions] /\ drifted \in [Sittings -> SUBSET Actions]
    /\ abandoned \in [Sittings -> SUBSET {"invite", "dm", "other"}]
    /\ dropping \in SUBSET Actions /\ retrying \in SUBSET Actions
    /\ done \in [Actions -> Nat] /\ excuses \in [Actions -> Nat]
    /\ lost \in SUBSET Actions /\ overtaken \in SUBSET Sittings
    /\ late \in [Sittings -> Nat]
    /\ frozen \in SUBSET Sittings /\ events \in Nat

(* local-worker.ts:108, claim before act: whatever races, LinkedIn sees a  *)
(* row once, and once more only for each event that names its reason: an   *)
(* effect nobody recorded, a claim reaped under a frozen worker, an        *)
(* unknown answer to the bare invite, or a human who asked again.          *)
ActsBounded == \A a \in Actions : done[a] <= 1 + excuses[a]

(* Two sittings are on the seat only after the lease of one ran out under  *)
(* it; one that lost the seat cannot hand it on by leaving.                *)
OneDriverPerSeat == \A s, t \in Sittings :
    s # t /\ Alive(s) /\ Alive(t) => s \in overtaken \/ t \in overtaken

(* The kill switch, and a batch written off: of what the sitting still     *)
(* does, LinkedIn sees the one row already under way and no other.         *)
LateActsBounded == \A s \in Sittings : late[s] <= 1

(* An outcome only a human can settle is out of every pass's reach, unless *)
(* its claim had been taken from the sitting that held it.                 *)
HeldWaitsForHuman == \A a \in Actions :
    row[a].hold /\ row[a].status = "planned" /\ ~row[a].claimed => a \in lost

(* Pauses are reversible: no row stays parked once neither the campaign    *)
(* nor the member is paused, in whatever order they were paused.           *)
ParkedHasAPause == \A a \in Actions :
    row[a].status = "held" => campaign # "running" \/ member[a] = "paused"

(* A claimed row comes back, is settled or waits for a human, even if the  *)
(* process that claimed it is gone; and no batch stays open for ever.      *)
InFlight(a) == row[a].status = "planned" /\ row[a].claimed /\ ~row[a].hold
ClaimsSettle == \A a \in Actions : InFlight(a) ~> ~InFlight(a)
BatchesClose == \A s \in Sittings : batch[s] = "running" ~> batch[s] # "running"

(* local-worker.ts:109 says an outcome nobody learned holds its claim, for *)
(* a duplicate invite cannot be taken back.  With no fault, nobody asleep  *)
(* and no operator, then, LinkedIn sees a row once.                        *)
NoDuplicate == \A a \in Actions : done[a] <= 1
=============================================================================
