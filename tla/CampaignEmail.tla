--------------------------- MODULE CampaignEmail ---------------------------
(***************************************************************************)
(* The email steps of a managed campaign: the planner that queues them     *)
(* (src/server/linkedin/runner.ts), the channel runners that claim and     *)
(* send them (campaign-channels.ts), the operators who pause, move, retry  *)
(* and resolve (managed-campaigns.ts), and the mailbox events that answer  *)
(* them.  Sending goes through the ledger of EmailDelivery, instantiated   *)
(* here: a channel runner is one of its workers, and the row of a member   *)
(* and a step, whose idempotency key the planner derives from the two, is  *)
(* one of its keys.                                                        *)
(*                                                                         *)
(* Every step of the workflow is an email.  Time is abstract: a row is due *)
(* or deferred.  'active' and 'waiting' members are treated alike by every *)
(* statement modelled here and are one value.                              *)
(***************************************************************************)
EXTENDS Naturals, FiniteSets

CONSTANTS
    Members, Last,  \* campaign members; the steps of the workflow are 1..Last
    Runners,        \* concurrent calls of runCampaignChannelActions
    Enabled,        \* what operators do in this instance: a set of names, below
    EventKinds,     \* mailbox events that arrive: "reply", "unsubscribe", "bounce"
    Addressed,      \* the members whose contact has an email address
    Conns, Cap, NoConn, NoRow,
    MaxLeft,        \* bound: claims left behind, in each of the two tables
    MaxDeferrals    \* bound: times a mailbox is found closed

Rows == Members \X (1..Last)
ASSUME CampaignAssumption ==
    /\ EventKinds \subseteq {"reply", "unsubscribe", "bounce"}
    /\ Last \in Nat \ {0} /\ Cap \in Nat \ {0}
    /\ NoConn \notin Conns /\ NoRow \notin Rows
    /\ Addressed \subseteq Members
    /\ MaxLeft \in Nat /\ MaxDeferrals \in Nat

VARIABLES
    campaign,       \* linkedin_campaigns.status
    memberStatus,   \* linkedin_campaign_members.status
    cursor,         \* current_step_id; Last + 1 stands for NULL
    rowStatus,      \* linkedin_campaign_channel_actions.status, "none": no row
    phase, row,     \* where a channel runner is, and the row it claimed
    plan,           \* what the planner holds between its statements
    move,           \* what an operator's skip or resume holds between its own
    verdicts,       \* what operators hold who resolve unknown outcomes
    inbox,          \* how far recordCampaignEmailEvent is, for each member
    recorded,       \* linkedin_campaign_email_events: member, kind
    answered,       \* members with a 'replied' row in linkedin_actions
    judged,         \* history: what operators decided of unknown outcomes
    stranded,       \* history: rows whose runner ended and left them claimed
    unfiled,        \* history: events whose filing ended after the event row
    deferrals,
    \* the ledger's variables, see EmailDelivery
    status, boundTo, recent, simulated, pc, key, conn, result,
    suppressed, accepted, told, left

Ledger == INSTANCE EmailDelivery WITH
    Keys <- Rows, SourceOf <- [r \in Rows |-> r], RecipientOf <- [r \in Rows |-> r[1]],
    Outreach <- Rows, Workers <- Runners, DemoConns <- {}, AllowSimulation <- FALSE,
    NoKey <- NoRow

ledgerVars == <<status, boundTo, recent, simulated, pc, key, conn, result,
                suppressed, accepted, told, left>>
runnerVars == <<phase, row>>
memberVars == <<memberStatus, cursor>>
processVars == <<plan, move, verdicts, inbox>>
history == <<recorded, answered, judged>>
bounds == <<stranded, unfiled, deferrals>>
campaignVars == <<campaign, memberVars, rowStatus, runnerVars, processVars, history, bounds>>
vars == <<campaignVars, ledgerVars>>

(* "deferred" is a planned row whose planned_for is still to come.         *)
RowStatus == {"none", "planned", "deferred", "claimed", "sent", "failed", "unknown", "skipped"}
PlannedStatus == {"planned", "deferred"}
Withdrawable == PlannedStatus \cup {"failed"}
MemberStatus == {"waiting", "paused", "replied", "removed", "completed"}
Open == {"waiting", "paused"}
RunnerPhase == {"idle", "mailbox", "send", "sending"}
Moves == {"skip", "resume"}
Verdicts == {"sent", "retry", "skip"}

NoPlan == [phase |-> "idle", member |-> NoRow, step |-> 1, seen |-> "none"]
NoMove == [kind |-> "none", member |-> NoRow, from |-> 1, to |-> 1]

Init ==
    /\ campaign = "running"
    /\ memberStatus = [m \in Members |-> "waiting"]
    /\ cursor = [m \in Members |-> 1]
    /\ rowStatus = [r \in Rows |-> "none"]
    /\ phase = [w \in Runners |-> "idle"]
    /\ row = [w \in Runners |-> NoRow]
    /\ plan = NoPlan /\ move = NoMove /\ verdicts = {}
    /\ inbox = [m \in Members |-> "idle"]
    /\ recorded = {} /\ answered = {} /\ judged = {}
    /\ stranded = {} /\ unfiled = {} /\ deferrals = 0
    /\ Ledger!Init

SetRow(r, s) == rowStatus' = [rowStatus EXCEPT ![r] = s]
(* UPDATE ... SET status='skipped' WHERE status IN from, for some rows.    *)
SkipRows(R, from) ==
    rowStatus' = [r \in Rows |-> IF r \in R /\ rowStatus[r] \in from THEN "skipped"
                                 ELSE rowStatus[r]]
RowsOf(m) == {m} \X (1..Last)
Place(m, i, s) ==
    /\ cursor' = [cursor EXCEPT ![m] = i]
    /\ memberStatus' = [memberStatus EXCEPT ![m] = s]
StatusAt(i) == IF i <= Last THEN "waiting" ELSE "completed"

-----------------------------------------------------------------------------
(* The planner, one at a time under an advisory lock.  It reads the due    *)
(* members, then in a transaction each one's row, and writes back without  *)
(* looking at the member again.                                            *)

PlanMember(m) ==
    /\ plan.phase = "idle" /\ campaign = "running" /\ memberStatus[m] = "waiting"
    /\ plan' = [phase |-> "look", member |-> m, step |-> cursor[m], seen |-> "none"]
    /\ UNCHANGED <<campaign, memberVars, rowStatus, runnerVars, move, verdicts, inbox, history,
                   bounds, ledgerVars>>

(* Nobody to write to, and no row from the time when there was.            *)
HasNoAddress(m, i) == m \notin Addressed /\ rowStatus[<<m, i>>] = "none"

PlanLook ==
    /\ plan.phase = "look"
    /\ plan' = [plan EXCEPT !.phase = "write",
                  !.seen = IF plan.step > Last THEN "no step"
                           ELSE IF plan.member \in answered THEN "replied"
                           ELSE IF HasNoAddress(plan.member, plan.step) THEN "no address"
                           ELSE rowStatus[<<plan.member, plan.step>>]]
    /\ UNCHANGED <<campaign, memberVars, rowStatus, runnerVars, move, verdicts, inbox, history,
                   bounds, ledgerVars>>

(* INSERT ... ON CONFLICT (idempotency_key) DO NOTHING.                    *)
PlannedRows == [rowStatus EXCEPT ![<<plan.member, plan.step>>] =
                   IF @ = "none" THEN "planned" ELSE @]

(* flushMemberWrites: status and cursor, by id alone.                      *)
PlanWrite ==
    /\ plan.phase = "write"
    /\ CASE plan.seen = "no step" -> Place(plan.member, plan.step, "completed")
         [] plan.seen = "replied" -> Place(plan.member, Last + 1, "replied")
         [] plan.seen \in {"sent", "failed", "no address"} ->
               Place(plan.member, plan.step + 1, StatusAt(plan.step + 1))
         [] plan.seen = "skipped" -> UNCHANGED memberVars
         [] OTHER -> Place(plan.member, plan.step, "waiting")
    /\ rowStatus' = IF plan.seen = "none" THEN PlannedRows ELSE rowStatus
    /\ plan' = NoPlan
    /\ UNCHANGED <<campaign, runnerVars, move, verdicts, inbox, history, bounds, ledgerVars>>

-----------------------------------------------------------------------------
(* A channel runner.                                                       *)

Current(r) ==
    /\ campaign = "running" /\ memberStatus[r[1]] = "waiting" /\ cursor[r[1]] = r[2]
    /\ r[1] \notin answered
Turn(w, p, r) == phase' = [phase EXCEPT ![w] = p] /\ row' = [row EXCEPT ![w] = r]
Drop(w) == Turn(w, "idle", NoRow)

ClaimedIsClaimable(r) == rowStatus[r] \in {"planned", "claimed"} /\ Current(r)  \* mutant
Claimable(r) == rowStatus[r] = "planned" /\ Current(r)

(* claimNext: one UPDATE with FOR UPDATE SKIP LOCKED.                      *)
ClaimNext(w) ==
    /\ phase[w] = "idle"
    /\ \E r \in Rows :
          Claimable(r) /\ SetRow(r, "claimed") /\ Turn(w, "mailbox", r)
    /\ UNCHANGED <<campaign, memberVars, processVars, history, bounds, ledgerVars>>

(* mailboxMaySend: outside its hours, or its limit is reached.             *)
ClosedKeepsClaim(w) ==                  \* mutant: claimed_at not cleared
    /\ phase[w] = "mailbox" /\ deferrals < MaxDeferrals
    /\ deferrals' = deferrals + 1
    /\ Drop(w)
    /\ UNCHANGED <<campaign, memberVars, rowStatus, processVars, history, stranded, unfiled,
                   ledgerVars>>
MailboxClosed(w) ==
    /\ phase[w] = "mailbox" /\ deferrals < MaxDeferrals
    /\ deferrals' = deferrals + 1
    /\ SetRow(row[w], "deferred") /\ Drop(w)
    /\ UNCHANGED <<campaign, memberVars, processVars, history, stranded, unfiled, ledgerVars>>

(* claimedChannelActionStillCurrent.                                       *)
StillCurrent(r) == rowStatus[r] = "claimed" /\ Current(r)

Recheck(w) ==
    /\ phase[w] = "mailbox" /\ StillCurrent(row[w])
    /\ Turn(w, "send", row[w])
    /\ UNCHANGED <<campaign, memberVars, rowStatus, processVars, history, bounds, ledgerVars>>

RetireStaleClaim(w) ==
    /\ phase[w] = "mailbox" /\ ~StillCurrent(row[w])
    /\ SkipRows({row[w]}, {"claimed"}) /\ Drop(w)
    /\ UNCHANGED <<campaign, memberVars, processVars, history, bounds, ledgerVars>>

ExecuteEmail(w) ==
    /\ phase[w] = "send"
    /\ Ledger!Begin(w, row[w])
    /\ Turn(w, "sending", row[w])
    /\ UNCHANGED <<campaign, memberVars, rowStatus, processVars, history, bounds>>

(* The mailbox look-up, the second look at the member, or the tracking of  *)
(* the body throws: no message left, but the error does not say so.        *)
CallThrows(w) ==
    /\ phase[w] \in {"mailbox", "send"}
    /\ SetRow(row[w], "unknown") /\ Drop(w)
    /\ UNCHANGED <<campaign, memberVars, processVars, history, bounds, ledgerVars>>

Deliver(w) ==
    /\ phase[w] = "sending" /\ Ledger!Deliver(w)
    /\ UNCHANGED campaignVars

(* advanceMemberAfterKnownOutcome: only a member still waiting on the step.*)
Advance(r) ==
    IF memberStatus[r[1]] = "waiting" /\ cursor[r[1]] = r[2]
    THEN Place(r[1], r[2] + 1, StatusAt(r[2] + 1))
    ELSE UNCHANGED memberVars

(* A template rendered to nothing: recipient, subject or body is missing.  *)
EmailIncomplete(w) ==
    /\ phase[w] = "send"
    /\ SetRow(row[w], "failed") /\ Advance(row[w]) /\ Drop(w)
    /\ UNCHANGED <<campaign, processVars, history, bounds, ledgerVars>>

(* definiteFailure: the messages of a refused call and of a missing mailbox*)
(* match its pattern; those of the suppression list, the ledger's own      *)
(* refusals and the daily cap do not.                                      *)
AnyErrorIsDefinite == {"rejected", "unconnected", "ambiguous"}   \* mutant
Definite == {"rejected", "unconnected"}

BlockedIsSent(w) == result[w] \in {"ok", "blocked"}            \* mutant
Succeeded(w) == result[w] = "ok"

SettleSuccess(w) ==
    /\ phase[w] = "sending" /\ pc[w] = "done" /\ Succeeded(w)
    /\ SetRow(row[w], "sent") /\ Advance(row[w])
    /\ Ledger!Return(w) /\ Drop(w)
    /\ UNCHANGED <<campaign, processVars, history, bounds>>

SettleFailed(w) ==
    /\ phase[w] = "sending" /\ pc[w] = "done" /\ result[w] \in Definite
    /\ SetRow(row[w], "failed") /\ Advance(row[w])
    /\ Ledger!Return(w) /\ Drop(w)
    /\ UNCHANGED <<campaign, processVars, history, bounds>>

(* Also when the transaction of settleSuccess itself fails.                *)
UnknownAdvances(w) ==                   \* mutant
    /\ phase[w] = "sending" /\ pc[w] = "done" /\ result[w] \notin Definite
    /\ SetRow(row[w], "unknown") /\ Advance(row[w])
    /\ Ledger!Return(w) /\ Drop(w)
    /\ UNCHANGED <<campaign, processVars, history, bounds>>
SettleUnknown(w) ==
    /\ phase[w] = "sending" /\ pc[w] = "done" /\ result[w] \notin Definite
    /\ SetRow(row[w], "unknown")
    /\ Ledger!Return(w) /\ Drop(w)
    /\ UNCHANGED <<campaign, memberVars, processVars, history, bounds>>

-----------------------------------------------------------------------------
(* Operators.                                                              *)

Pause ==
    /\ "pause" \in Enabled /\ campaign = "running"
    /\ campaign' = "paused"
    /\ UNCHANGED <<memberVars, rowStatus, runnerVars, processVars, history, bounds, ledgerVars>>

Start ==
    /\ "pause" \in Enabled /\ campaign = "paused"
    /\ campaign' = "running"
    /\ UNCHANGED <<memberVars, rowStatus, runnerVars, processVars, history, bounds, ledgerVars>>

Stop ==
    /\ "stop" \in Enabled /\ campaign # "stopped"
    /\ campaign' = "stopped"
    /\ memberStatus' = [m \in Members |-> IF memberStatus[m] \in Open THEN "removed"
                                          ELSE memberStatus[m]]
    /\ SkipRows(Rows, Withdrawable)
    /\ UNCHANGED <<cursor, runnerVars, processVars, history, bounds, ledgerVars>>

(* setCampaignMemberPaused.                                                *)
PauseMember(m) ==
    /\ "member" \in Enabled /\ memberStatus[m] \in Open
    /\ memberStatus' = [memberStatus EXCEPT ![m] = IF @ = "paused" THEN "waiting" ELSE "paused"]
    /\ UNCHANGED <<campaign, cursor, rowStatus, runnerVars, processVars, history, bounds,
                   ledgerVars>>

(* endManagedCampaignMember and removeCampaignMember.                      *)
EndMember(m) ==
    /\ "member" \in Enabled /\ memberStatus[m] \in Open
    /\ \E s \in {"completed", "removed"} : memberStatus' = [memberStatus EXCEPT ![m] = s]
    /\ SkipRows(RowsOf(m), Withdrawable)
    /\ UNCHANGED <<campaign, cursor, runnerVars, processVars, history, bounds, ledgerVars>>

(* skipManagedCampaignMemberStep and resumeManagedCampaignMemberAtStep read*)
(* the member and its unresolved outcomes, then write in a transaction.    *)
MoveRead(m) ==
    /\ move = NoMove /\ \A r \in RowsOf(m) : rowStatus[r] # "unknown"
    /\ \/ /\ "skip" \in Enabled /\ memberStatus[m] \in Open /\ cursor[m] <= Last
          /\ move' = [kind |-> "skip", member |-> m, from |-> cursor[m], to |-> cursor[m] + 1]
       \/ /\ "resume" \in Enabled /\ memberStatus[m] \notin {"replied", "removed"}
          /\ \E i \in 1..Last :
                move' = [kind |-> "resume", member |-> m, from |-> cursor[m], to |-> i]
    /\ UNCHANGED <<campaign, memberVars, rowStatus, runnerVars, plan, verdicts, inbox, history, bounds,
                   ledgerVars>>

SkipStep ==
    /\ move.kind = "skip"
    /\ SkipRows({<<move.member, move.from>>}, Withdrawable)
    /\ Place(move.member, move.to, StatusAt(move.to))
    /\ move' = NoMove
    /\ UNCHANGED <<campaign, runnerVars, plan, verdicts, inbox, history, bounds, ledgerVars>>

ResumeAtStep ==
    /\ move.kind = "resume"
    /\ SkipRows(RowsOf(move.member), Withdrawable)
    /\ IF memberStatus[move.member] \in {"replied", "removed"} THEN UNCHANGED memberVars
       ELSE Place(move.member, move.to, "waiting")
    /\ move' = NoMove
    /\ UNCHANGED <<campaign, runnerVars, plan, verdicts, inbox, history, bounds, ledgerVars>>

(* resolveCampaignChannelUnknownOutcome reads the row, then decides it in a*)
(* transaction.  Only the row's own UPDATE asks whether it is still open.  *)
ResolveRead(r, verdict) ==
    /\ "resolve" \in Enabled /\ rowStatus[r] = "unknown"
    /\ verdicts' = verdicts \cup {<<r, verdict>>}
    /\ UNCHANGED <<campaign, memberVars, rowStatus, runnerVars, plan, move, inbox, history,
                   bounds, ledgerVars>>

Decides(r, verdict) == <<r, verdict>> \in verdicts /\ verdicts' = verdicts \ {<<r, verdict>>}
Judge(r, verdict) == judged' = IF rowStatus[r] = "unknown" THEN judged \cup {<<r, verdict>>}
                               ELSE judged
SettleUnknownAs(r, s) == rowStatus' = [rowStatus EXCEPT ![r] = IF @ = "unknown" THEN s ELSE @]

RetryReopensDelivery(r) ==              \* mutant: frees what may have been sent
    /\ Decides(r, "retry")
    /\ SettleUnknownAs(r, "planned")
    /\ memberStatus' = [memberStatus EXCEPT ![r[1]] = "waiting"]
    /\ Judge(r, "retry")
    /\ status' = [status EXCEPT ![r] = "failed"]
    /\ UNCHANGED <<campaign, cursor, runnerVars, plan, move, inbox, recorded, answered,
                   bounds, boundTo, recent, simulated, pc, key, conn, result, suppressed,
                   accepted, told, left>>
ResolveRetry(r) ==
    /\ Decides(r, "retry")
    /\ SettleUnknownAs(r, "planned")
    /\ memberStatus' = [memberStatus EXCEPT ![r[1]] = "waiting"]
    /\ Judge(r, "retry")
    /\ UNCHANGED <<campaign, cursor, runnerVars, plan, move, inbox, recorded, answered,
                   bounds, ledgerVars>>

ResolveSent(r) ==
    /\ Decides(r, "sent")
    /\ SettleUnknownAs(r, "sent") /\ Advance(r)
    /\ Judge(r, "sent")
    /\ UNCHANGED <<campaign, runnerVars, plan, move, inbox, recorded, answered, bounds,
                   ledgerVars>>

ResolveSkip(r) ==
    /\ Decides(r, "skip")
    /\ SettleUnknownAs(r, "skipped") /\ Advance(r)
    /\ UNCHANGED <<campaign, runnerVars, plan, move, inbox, history, bounds, ledgerVars>>

(* retryCampaignChannelAction and retryManagedCampaignFailures.            *)
RetryFailed(r) ==
    /\ "retry" \in Enabled /\ rowStatus[r] = "failed"
    /\ SetRow(r, "planned")
    /\ UNCHANGED <<campaign, memberVars, runnerVars, processVars, history, bounds, ledgerVars>>

-----------------------------------------------------------------------------
(* recordCampaignEmailEvent: the event row, the suppression and the stop   *)
(* are three commits; an event row that exists ends the call at once.      *)

FiledAsReply(kind) == IF kind = "bounce" THEN kind ELSE "reply"    \* mutant
Filed(kind) == kind
RecordEvent(m, kind) ==
    /\ inbox[m] = "idle" /\ <<m, kind>> \notin recorded
    /\ \E r \in RowsOf(m) : rowStatus[r] = "sent"
    /\ recorded' = recorded \cup {<<m, kind>>}
    /\ inbox' = [inbox EXCEPT ![m] = Filed(kind)]
    /\ UNCHANGED <<campaign, memberVars, rowStatus, runnerVars, plan, move, verdicts, answered,
                   judged, bounds, ledgerVars>>

SuppressRecipient(m) ==
    /\ inbox[m] \in {"unsubscribe", "bounce"}
    /\ Ledger!Suppress(<<m, 1>>)
    /\ inbox' = [inbox EXCEPT ![m] = IF @ = "bounce" THEN "idle" ELSE "reply"]
    /\ UNCHANGED <<campaign, memberVars, rowStatus, runnerVars, plan, move, verdicts, history, bounds>>

StopMember(m) ==
    /\ inbox[m] = "reply"
    /\ IF memberStatus[m] \in Open
       THEN memberStatus' = [memberStatus EXCEPT ![m] = "replied"]
       ELSE UNCHANGED memberStatus
    /\ SkipRows(RowsOf(m), PlannedStatus)
    /\ inbox' = [inbox EXCEPT ![m] = "idle"]
    /\ UNCHANGED <<campaign, cursor, runnerVars, plan, move, verdicts, recorded, answered, judged,
                   bounds, ledgerVars>>

(* The LinkedIn inbox finds a reply.                                       *)
LinkedInReply(m) ==
    /\ "linkedin" \in Enabled
    /\ answered' = answered \cup {m}
    /\ UNCHANGED <<campaign, memberVars, rowStatus, runnerVars, processVars, recorded,
                   judged, bounds, ledgerVars>>

-----------------------------------------------------------------------------
(* What ends half-way, and time.  Nothing takes a claimed row back.        *)

(* A runner ends and its row stays claimed: the process dies, or the       *)
(* statements that should settle the row throw and the error leaves the    *)
(* loop of runCampaignChannelActions.                                      *)
LeaveRow(w) ==
    /\ Cardinality(stranded) < MaxLeft
    /\ stranded' = stranded \cup {row[w]}
    /\ Drop(w)
    /\ UNCHANGED <<campaign, memberVars, rowStatus, processVars, history, unfiled, deferrals>>

RunnerDies(w) ==
    /\ phase[w] # "idle" /\ LeaveRow(w)
    /\ IF phase[w] = "sending" THEN Ledger!Crash(w) ELSE UNCHANGED ledgerVars

SettleThrows(w) ==
    /\ phase[w] = "sending" /\ pc[w] = "done" /\ LeaveRow(w)
    /\ Ledger!Return(w)

RunnerEnds(w) == RunnerDies(w) \/ SettleThrows(w)

(* recordCampaignEmailEvent ends after its event row: the process dies, or *)
(* a statement throws and the poll swallows the error.  The next poll      *)
(* leaves out what has an event row.                                       *)
FilingEnds(m) ==
    /\ inbox[m] # "idle"
    /\ unfiled' = unfiled \cup {<<m, inbox[m]>>}
    /\ inbox' = [inbox EXCEPT ![m] = "idle"]
    /\ UNCHANGED <<campaign, memberVars, rowStatus, runnerVars, plan, move, verdicts, history,
                   stranded, deferrals, ledgerVars>>

Due(r) ==
    /\ rowStatus[r] = "deferred" /\ SetRow(r, "planned")
    /\ UNCHANGED <<campaign, memberVars, runnerVars, processVars, history, bounds, ledgerVars>>

DayPasses(r) == Ledger!DayPasses(r) /\ UNCHANGED campaignVars

Run(w) ==
    \/ MailboxClosed(w) \/ Recheck(w) \/ RetireStaleClaim(w) \/ CallThrows(w)
    \/ ExecuteEmail(w) \/ EmailIncomplete(w) \/ Deliver(w)
    \/ SettleSuccess(w) \/ SettleFailed(w) \/ SettleUnknown(w)
Plan == (\E m \in Members : PlanMember(m)) \/ PlanLook \/ PlanWrite
Operate ==
    \/ Pause \/ Start \/ Stop \/ SkipStep \/ ResumeAtStep
    \/ \E m \in Members : PauseMember(m) \/ EndMember(m) \/ MoveRead(m)
    \/ \E r \in Rows : 
          \/ ResolveRetry(r) \/ ResolveSent(r) \/ ResolveSkip(r) \/ RetryFailed(r)
          \/ \E verdict \in Verdicts : ResolveRead(r, verdict)
Listen ==
    \E m \in Members :
        \/ SuppressRecipient(m) \/ StopMember(m) \/ LinkedInReply(m) \/ FilingEnds(m)
        \/ \E kind \in EventKinds : RecordEvent(m, kind)

Next ==
    \/ \E w \in Runners : ClaimNext(w) \/ Run(w) \/ RunnerEnds(w)
    \/ Plan \/ Operate \/ Listen
    \/ \E r \in Rows : Due(r) \/ DayPasses(r)

Spec == Init /\ [][Next]_vars

(* The local worker ticks planner and channel runners on a timer; a tick   *)
(* plans every due member of a running campaign in turn.                   *)
Fairness ==
    /\ WF_vars(PlanLook \/ PlanWrite) /\ \A m \in Members : SF_vars(PlanMember(m))
    /\ \A w \in Runners : WF_vars(ClaimNext(w)) /\ WF_vars(Run(w))
    /\ \A r \in Rows : WF_vars(Due(r))
FairSpec == Spec /\ Fairness

-----------------------------------------------------------------------------
(* Properties.                                                             *)

(* The tables and the processes keep their shapes.                         *)
TypeOK ==
    /\ campaign \in {"running", "paused", "stopped"}
    /\ memberStatus \in [Members -> MemberStatus]
    /\ cursor \in [Members -> 1..(Last + 1)]
    /\ rowStatus \in [Rows -> RowStatus]
    /\ phase \in [Runners -> RunnerPhase]
    /\ row \in [Runners -> Rows \cup {NoRow}]
    /\ \A w \in Runners : phase[w] # "idle" => row[w] \in Rows
    /\ recorded \subseteq Members \X EventKinds
    /\ answered \subseteq Members
    /\ judged \subseteq Rows \X {"sent", "retry"}
    /\ inbox \in [Members -> {"idle", "reply", "unsubscribe", "bounce"}]
    /\ verdicts \subseteq Rows \X Verdicts
    /\ stranded \subseteq Rows
    /\ unfiled \subseteq Members \X {"reply", "unsubscribe", "bounce"}
    /\ deferrals \in Nat

(* Operators retry, resolve and move members back, runners die: whatever   *)
(* they do, one step of one member is emailed at most once.                *)
StepEmailedOnce == \A r \in Rows : accepted[r] <= 1

(* claimNext: two runners never hold one row, and nobody but its holder    *)
(* changes a claimed row.                                                  *)
ClaimIsExclusive == \A w \in Runners : phase[w] # "idle" =>
    /\ rowStatus[row[w]] = "claimed"
    /\ \A v \in Runners : row[v] = row[w] => v = w

(* settleFailure: a failure the member moves past, and that operators may  *)
(* retry, is one the provider never took, unless an operator had an unknown*)
(* outcome retried.                                                        *)
KnownFailureIsUnsent == \A r \in Rows :
    rowStatus[r] = "failed" => accepted[r] = 0 \/ <<r, "retry">> \in judged

(* settleSuccess: a step counts as sent because the provider took it, or   *)
(* because an operator who looked said so.                                 *)
SentIsAccepted == \A r \in Rows :
    rowStatus[r] = "sent" => accepted[r] = 1 \/ <<r, "sent">> \in judged

(* Campaigns use the ledger by its protocol and in no other way: all that  *)
(* is shown of EmailDelivery holds of it here.                             *)
UsesTheLedger == Ledger!Spec

(* advanceMemberAfterKnownOutcome and the planner: as long as no operator  *)
(* intervenes, the cursor leaves a step only when its email has a known    *)
(* outcome, however stale what the planner writes.  The exception is a     *)
(* member without an address, whom the planner moves past with no row.     *)
CursorWaitsForOutcome == [][\A m \in Members :
    cursor'[m] > cursor[m] /\ memberStatus'[m] \in {"waiting", "completed"} =>
        rowStatus'[<<m, cursor[m]>>] \in {"sent", "failed"} \/ m \notin Addressed]_vars

(* With nobody intervening, a member moves on from each email, unless its  *)
(* outcome stays unknown until a human looks, its row was left claimed, or *)
(* a reply withdrew the row and a stale planner put the member back on it. *)
MembersMoveOn == \A m \in Members, i \in 1..Last :
    (cursor[m] = i /\ memberStatus[m] = "waiting") ~>
        \/ cursor[m] # i \/ memberStatus[m] # "waiting"
        \/ rowStatus[<<m, i>>] \in {"unknown", "skipped"} \/ <<m, i>> \in stranded

(* recordCampaignEmailEvent: a recorded unsubscribe that no call is still  *)
(* working on has suppressed its recipient, in whatever order the events of*)
(* a member arrive, unless the call that filed this very event ended after *)
(* the event row; those are lost for good.                                 *)
UnsubscribeIsDurable == \A m \in Members :
    <<m, "unsubscribe">> \in recorded /\ inbox[m] # "unsubscribe"
    /\ <<m, "unsubscribe">> \notin unfiled => m \in suppressed
=============================================================================
