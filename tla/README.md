# Trevra in TLA+

Specifications of the parts of Trevra that act on the outside world on behalf of a
founder: the playbook engine that asks for approval before it acts, the ledgers that
stand in front of every email, reply, CRM note and draft, the campaigns that send
sequences of emails, the worker that drives a LinkedIn seat, and the hosted agent with
its budget. Each module is translated from the TypeScript under `src/src/server`;
`PROJECT.json` names, for every definition, the lines it stands for.

Check a model with `tlc -config PlaybookRaces.cfg MCPlaybookEngine` and a proof with
`tlapm PlaybookEngineProofs.tla`, from this directory.

## 1. Inventory

Trevra is one Node process type (HTTP server) and one worker process type, any number of
each, in front of one Postgres database. There are no in-memory locks between requests:
every guarantee rests on single SQL statements, transactions, row locks, unique
constraints and advisory locks. What goes wrong goes wrong *between* two statements.

### Components modelled

| Component | Code | State | Operations |
|---|---|---|---|
| Playbook engine | `playbooks/engine.ts`, `template.ts` | `playbook_runs`, `playbook_step_runs`, `playbook_approvals` | start a run, advance it (recover, read, claim, resolve, run, settle, retry), sweep, decide, edit |
| Control-plane execution | `control-plane/execution.ts`, `payload.ts`, `policy.ts` | policy decisions, receipts | execute a prepared action; hash a payload |
| Shared email ledger | `email-deliveries.ts` | `gtm_deliveries` | claim, check capacity, mark sent, mark failure |
| Connected email execution | `integration-service.ts` | (none of its own) | `executeConnectedAction`: suppression, mailbox, ledger, provider |
| Suppression list | `suppressions.ts` | `suppressions` | suppress, assert not suppressed |
| Campaign planner | `linkedin/runner.ts` | `linkedin_campaign_members` cursor and status | plan due members, queue channel rows, flush member writes |
| Campaign channel actions | `linkedin/campaign-channels.ts` | `linkedin_campaign_channel_actions`, `linkedin_campaign_email_events` | claim, recheck, send, settle, resolve, retry, record mailbox events |
| Managed campaigns | `linkedin/managed-campaigns.ts` | `linkedin_campaigns`, members | start, pause, stop, pause or end a member, skip, resume at a step, retry failures |
| LinkedIn worker and action ledger | `linkedin/local-worker.ts`, `action-ledger.ts`, `seats.ts` | `linkedin_seat_leases`, `linkedin_batches`, `linkedin_actions` | lease a seat, open a batch, claim, check, drive, settle or hold a row, reap; pause, resolve, skip |
| Hosted agent | `agent/*` | `agent_runs`, `agent_run_steps`, schedule, budget | claim a due schedule, start, charge, append, stop, finish, reap; one loop with the SDK, one with a child process |
| Community outreach | `outreach/publish.ts`, `store.ts` | `outreach_posts` | replay guard, limits, claim or hand off, publish, settle |
| CRM activity | `crm/activity.ts` | `crm_activities` | look up, insert, write the note, settle |
| Buffer drafts | `content/buffer.ts` | `content_buffer_drafts` | claim, create, settle |
| Background worker | `worker/index.ts` | timers | reapers before every pass; appears as order and fairness |

How they interact: the HTTP handlers and the worker's timers call the engine and the
campaign runners directly. The engine hands an approved payload to
`executePreparedPlaybookAction`, which for an email calls `executeConnectedAction` and
otherwise `executeApprovedActionTarget`: a reply, a handoff, a CRM note or a draft. So
does a campaign runner for its emails. Each of these claims a row of a ledger, calls the
provider, and settles the row. Mailbox events and LinkedIn replies come back through the
campaign's event handler and write the same member rows the planner writes. The LinkedIn
worker claims rows the planner queued; operators write those rows, their members and
their campaigns at any moment. The hosted agent's runs are started by the worker's
schedule or by a request and read the stop flag and the budget other requests write.

### Components not modelled

| Component | State and operations | Why not |
|---|---|---|
| LinkedIn pacing, limits, guard; campaign sequences and branching | pure functions over windows, shares and workflow graphs | their verdicts are free choices of the modules that ask them; planned as operators against reference definitions |
| LinkedIn invite withdrawal | a second claim-and-settle cycle over `linkedin_actions` | same pattern as `LinkedInWorker`; planned |
| LinkedIn companion | devices, pairing codes, a websocket relay | planned |
| LinkedIn inbox, posts, leads, lists | browser reads that upsert rows, imports | single transactions over data; the reply they detect is an action of `CampaignEmail` |
| Automation sweep, brand watch, lead capture, accounts, qualified demand | due claims and idempotent upserts | small transactions, planned last |
| Temporal orchestration | none of its own | serialises calls that the engine's model allows to overlap |
| Browser drivers, model providers, skills, channels, crawl, research | none shared | I/O and text; their outcomes are choices of the modules that call them |
| Registry storefront, secrets, authentication, HTTP routes, database layer | rows or none | single statements or third-party code |
| Client, command-line packages, MCP server, infrastructure, sandbox gateway | none | user interface, front ends, I/O |
| `action-service.ts` | older approval path | called only by its own tests |

Most of the repository's lines are in the last rows: React components, routes that parse
input, page automation, SQL migrations and test data. What is modelled is the part of the
server where two steps can be interleaved, lost or repeated.

### What is hard here

* **Several callers advance one run.** The worker's sweep, the request that started a
  run and the request that approved a step all call `advancePlaybookRun`. Only the
  conditional UPDATE in `claimStep` separates them; the status of the *run* is written
  by id alone from earlier reads.
* **Time of check, time of use.** An action's payload, its approval step's hash and the
  founder's decision are read by different statements. A founder may edit meanwhile. The
  agent's budget, the day's limits of outreach and of a mailbox are read before the claim
  they guard.
* **Lost answers.** A provider may accept a write and its answer may be lost; a process
  may die between the provider's answer and the UPDATE that books it. Each ledger has its
  own idea of what a failure means (`definiteEmailFailure`, `definiteFailure`, the
  settlement of `publish.ts`, the pattern of `activity.ts`, `quota` and `unknown` of the
  LinkedIn driver).
* **Stale writers.** The planner, an operator's skip and a mailbox event each read a
  member and then write status and cursor by id; so does every settlement of the LinkedIn
  worker.
* **Leases that run out under live workers.** Steps of playbooks, seats, claimed actions,
  batches and agent runs are all reaped on a clock, and whoever was slow wakes up.
* **Long operator histories.** Unknown, resolved as retry, failed, requeued, moved back,
  sent: no test walks such sequences.

### What makes each component correct

* Engine: only approved bytes reach a provider; a rejected action never runs; claims
  exclude; retries are counted; a run ends or waits for a founder who can act.
* Ledgers: at most one acceptance per payload and per source; truthful replays; limits
  that are overshot by at most a send per concurrent caller; claims are settled.
* Campaigns: one email per member and step whatever operators do; what is called sent or
  failed was; the cursor waits for a known outcome; members move on.
* LinkedIn worker: one driver on a seat; LinkedIn sees a row once for each reason to see
  it; outcomes nobody knows wait for a human; parked rows have a pause; claims come back.
* Agent: a run ends once and gains no step after; its answers are charged and written
  down; a stop and a full budget let at most one more call through; every run ends.

`PROJECT.json` lists the hazards one by one, at their lines, with the properties that
cover them.

## 2. Modules

| Module | Models |
|---|---|
| `PlaybookEngine` | one run and its concurrent callers |
| `ApprovedExecution` | what the engine promises: only approved hashes are executed |
| `EmailDelivery` | the email ledger and the calls that send through it |
| `ApprovedWrites` | replies, handoffs, CRM notes and drafts, with their three ledgers |
| `ApprovedEmail` | a run whose actions send email: `PlaybookEngine` and `EmailDelivery` together, and the call between them |
| `AtMostOnceSend` | what `EmailDelivery` and `ApprovedWrites` both promise |
| `CampaignEmail` | planner, channel runners, operators, mailbox events; instantiates `EmailDelivery` |
| `LinkedInWorker` | one seat, its workers, its rows and the operators |
| `HostedAgent` | the agent runs of a workspace, both loops, budget, schedule, reaper |
| `AgentRunLedger` | what the agent's ledger promises |
| `...Proofs` | theorems about each of the seven specifications |
| `PlaybookAttemptsProofs` | the engine's attempts: exclusion, completion, dependencies, rejection, number of calls |
| `MC...` | the small instances TLC checks |

### PlaybookEngine

An *advancer* is one call of `advancePlaybookRun`, `startPlaybookRun`,
`decidePlaybookApproval` or `updatePlaybookApprovalBody`. Its program counter `pc` names
the statement it is about to run; `step`, `attempt`, `seen`, `payload`, `readHash`,
`granted` and `approvalAttempt` are the local variables that survive from one statement
to the next. The loop of `advancePlaybookRun` is

    RecoverStaleSteps -> ReadRun -> See... -> SetWaiting | FailRun | SetQueued | CompleteRun
                                           -> ClaimStep -> SetRunning -> Refresh... -> step

and a step is a skill (`SkillCompletes`, `SkillRetries`, `SkillFails`,
`SkillBehindApproval`), an approval (`WaitForApproval`) or an action (`ActionAuthorised`
or `ActionRefused`, `CallProvider`, then `ActionCompletes`, `ActionRetries` or
`ActionFails`). A retry inserts the next attempt (`PlaceRetry`) or is aborted by the unique
index because somebody else inserted it (`RetryAborts`). One action is one SQL statement or transaction. The two SELECTs of an
iteration are separate (`ReadRun`, then one of the `See` actions), because another caller
can write between them. Founders: `DecideRead` reads the step and its hash, `Approve`,
`Reject` or `DecideConflict` is the transaction that locks the row and compares again,
`EditBody` the editing transaction.

Abstractions: skills, policies and providers are the outcomes they may have; a payload is
a value of a small set and its hash is injective, for `canonicalPayloadHash` sorts keys
and uses SHA-256; a skill drafts one of `Drafts`, a founder's edit any of `Payloads`; a lease
is live or expired and a retry due or not; the loop's limit of
100 turns is the possibility of leaving the loop after a lost claim. The 60 s lease of a step
is never renewed, so it may expire under a live call, which `overruns` counts (`MaxOverruns`
bounds it); the properties that need a call to end within its lease say so by
`overruns = 0`. `PayloadFrom` says which
step the template of an action refers to, so that both a payload taken from the approval
and one taken from the draft are covered.

### EmailDelivery

A *worker* is one call of `executeConnectedAction`; a key is an idempotency key, which
the code derives from the approved payload. `Begin` is the suppression check, `NoMailbox`
and `PickMailbox` the look-up of a connection, the four `Claim...` actions the outcomes of
the transaction `claimEmailDelivery`, `CheckCapacity` the count of the day,
`ProviderAccepts` and `ProviderFails` the HTTP call, `MarkSent` and
`MarkFailure` the settlement. `MarkFailure` uses `FailureStatus`, the translation of
`definiteEmailFailure`. Either settling UPDATE may throw. After a real send `MarkSentFails`
leads to `MarkFailure`; on the demo path, whose UPDATE stands outside the `try`, it ends the
call, and so does `MarkFailureFails`: the row stays in `sending` though no process died.
`Crash` does the same to a call that owns a row. The keys of all such rows are in `left`
(`MaxLeft` bounds them). `accepted`, `told` and `left` are
history: what the provider and the callers know, which no row records.

Abstractions: message building, token handling and replies in a thread are left out;
`recent` stands for `sent_at > now - 24 h`; a demo mailbox simulates.

### ApprovedEmail

The callers of the engine are the workers of the ledger: an advancer in the phase `call`
of the engine is somewhere in `executeConnectedAction`, where `mail` is its program
counter and `key` the hash of the payload it resolved, which is the idempotency key.
`SendEmail` enters the ledger (`RefusePayload` is the schema check that throws before),
`Deliver` is a step in it, `EmailReturns` takes its answer back to `runActionStep`: only
"ok" may finish the step, anything else, and a failure of the UPDATE that follows a
delivery, is caught. `EngineWorks` is every other step of the engine; it may take the step
over, expire its lease or decide about it while the call lasts. `CallDies` is a crash,
which ends both halves of a call; `Elsewhere` the opt-outs and the passing day. The
variables of `PlaybookEngine` keep their names; `delivery` and `mail` are the
ledger's `status` and `pc`. So `CallProvider`, one step of the engine, is here
as long as the ledger makes it.

Abstractions: those of its two parts. A payload names its source action in its metadata,
so `SourceOf` is a function of the hash.

### CampaignEmail

Every step of the workflow is an email. The planner is three actions: `PlanMember` picks a
member the pass had read as due, `PlanLook` reads its channel row and replies, `PlanWrite`
is the INSERT and the flush of status and cursor, by id. A member who has no address
(not in `Addressed`) and no row is moved past the step without one (`HasNoAddress`). A
channel runner claims
(`ClaimNext`), finds the mailbox closed (`MailboxClosed`), rechecks (`Recheck`,
`RetireStaleClaim`), hands over to the ledger (`ExecuteEmail`, `Deliver`) and settles
(`SettleSuccess`, `SettleFailed`, `SettleUnknown`). What throws before the ledger is booked
as it is in the code: an incomplete email as failed (`EmailIncomplete`), a mailbox look-up,
the second look at the member or the tracking as unknown (`CallThrows`). A runner whose
process dies, or whose settling statements throw (`RunnerDies`, `SettleThrows`), leaves its
row claimed, which `stranded` records. While it is sending, its state is a
worker of the instantiated ledger: `Deliver(w)` is `Ledger!Deliver(w)`. `Enabled` says
which operator handlers an instance includes; all are in the module. A skip and a resume
are a read (`MoveRead`) and a write, and so is the resolution of an unknown outcome
(`ResolveRead`, then `ResolveRetry`, `ResolveSent` or `ResolveSkip`, which write the member
even when the row has been resolved meanwhile); a mailbox event is three commits
(`RecordEvent`, `SuppressRecipient`, `StopMember`), and its filing may end after any of them
(`FilingEnds`): the process dies, or a statement throws and the poll swallows the error.
`unfiled` records it, for the next poll leaves out what has an event row. `MaxDeferrals`
bounds how often a mailbox is found closed, `MaxLeft` the rows left behind in each table.

Abstractions: `active` and `waiting` members are one status, for every statement modelled
treats them alike; the reasons a mailbox may be closed (window, warm-up, daily cap,
spacing) are one nondeterministic deferral; finding an address (`find_email`),
conditions, monitors and LinkedIn steps are left out; the campaign uses real mailboxes,
not demo ones. The step a member returns to is any earlier or later one.

### LinkedInWorker

A *sitting* is one call of a seat's lane in `runDueLinkedInActions`; it takes the seat
(`ClaimSeatLease`), opens one batch at most, and is named like it. The loop is

    CheckStop -> CheckPosture -> ClaimNextDueAction -> check -> gate -> Heartbeat -> recheck
        -> Drive -> one of the Record actions -> CheckStop ...

with `PutBack`, `Retire` and `CannotTell` for every early return of the checks, and
`CloseBatch`, `ReleaseSeatLease` at the end. `Standing` is what the reads of campaign and
member say: execute, defer, retire. The driver's answer is sent, unknown or one of six
definite ones; `RecordDrift`, `RecordQuota` and `DropNote` are the branches that give a
claim back, `RecordUnknown` holds it for a human (`hold`). An invite for which there is no
note quota is driven a second time without its note (`DriveBare`, `RecordBareFailure`).
`ReapExpiredActionLease` and `ReapStaleLinkedInBatch` are the reapers; `Crash`,
`StatementThrows` and `Freeze`/`Thaw` (a suspended process) the faults. Operators pause
and resume the seat, the campaign and single members, skip, resume at a step, end, stop
all batches, resolve a held outcome, retry failures (`RetryFailures`, then
`ResumeMembers`: two statements) and skip a row (`ReadSkippable`, `WriteSkipped`).
`done`, `excuses`, `lost`, `late` and `overtaken` are history.

Abstractions: the gate and the branch are nondeterministic; the driver's definite answers
are trusted; a settlement and the member's advance are one action, and so are entering a
cooldown and releasing the claim; `halted` and `completed` batches are both `finished`;
the standing's read is one step with the write it leads to; the seat's heartbeat does not
fail while the process is awake. Left out: the reaper of rows that predate leases, host
affinity, the side tasks between rows, the inbox pass. As in the code, `resolve` with
`retry` sets the member to `waiting`, and a row claimed after its campaign was stopped
stays planned and is claimed and deferred by every pass.

### HostedAgent

A run is named after the call of `runHostedAgent` that drives it. `ClaimDueSchedule` is
the UPDATE that moves `next_run_at`; `CheckInFlight` asks in another statement whether a
run is in flight, `StartManual` does not ask; `Preflight` reads the budget and
`StartAgentRun` inserts the row. A worker's cycle awaits the scheduled run it began, and that
worker begins no other cycle meanwhile: `cycle` holds those calls, one per busy worker of
`Workers`. On the `byok` backend the loop of `loop.ts` calls the
model (`BeginModelCall`, `ModelAnswers`, `ModelFails`). On `claude` and `codex` the driver of
`cli.ts` spawns a child that drives itself and prints events (`SpawnChild`, `ChildPrints`,
`ReadToolResult`, `ReadFailure`, `ReadEnd`, `KillChild`), and the two dialects differ: an
event of Claude Code is a message and a step (`ReadTurn`), charged and then written down; a
Codex child reports messages, which are written down and not charged (`ReadMessage`), and
completed turns, which are charged and not written down (`ReadTurnCompleted`). An answer is
accounted for by `ChargeStep`, `AppendModelRow` and `AppendToolRow`, a statement each; a
failure there is latched or thrown (`AccountingFails`), and the stop conditions are read one statement at a time, in any
order by the SDK and in sequence by the driver (`ReadBudget`, `ReadStop`, `Decide`).
`Settle`, `RecordFailure`, the stop requests, the reaper and the budget's switch are the
other writers of the row; `NextMonth` makes the budget row one of an earlier month.

Abstractions: a model call costs one unit; the cap is fixed; one tool row per answer that
asked for tools; a crash of the driver's process takes the child's pipe with it. `heard`,
`charged`, `written`, `late` and `logged` are history. That a schedule's check and a manual start may
together put two runs in flight is in the model, and is not called an error: nothing in
the code says there may be one only.

### ApprovedWrites

An *executor* is one call of `executeApprovedActionTarget` for an action: a reply, a
handoff (a reply on a platform without an API), a note or a draft. `CheckReplay` and
`AssertPostingWindow` are reads, `ClaimPost` and `RecordHandoff` the inserts the partial
unique index guards, `ClaimDraft` a transaction under an advisory lock, `Write` the
platform, `Settle` the three outcomes. The CRM's `LookUpNote`, `InsertSkipped`,
`InsertActivity`, `LogActivity`, `SettleActivity` follow a delivered reply or are an
action of their own. `nangoProxy` posts a note with `retries: 2`, so one `LogActivity` may
leave up to `Retries` more notes than one; each repeat is an event and a reason. `Interrupted` is a crash or a statement that throws, anywhere.

Abstractions: `pending`, `creating` and `unknown` are one status, `held`: what the code
does with them is the same, and only a human settles them; no day ends, so that the limit
counts everything; a community's cooldown is a free refusal; checks before any claim that
end the call are a call that did not begin.

## 3. Runs

All configurations use model values and small sets of strings. `agent_races`,
`approved_email`, `campaign_operators`, `linkedin_seat` and `outreach_claims` use symmetry (of
runs, callers and payloads, runners, sittings with their workers, executors): they check
invariants and, in three cases, a refinement whose own formulas treat those sets alike; no
liveness property is checked under symmetry. `CHECK_DEADLOCK FALSE`
is set for playbooks, campaigns, agent and LinkedIn, because a finished run, a completed
campaign and a sitting that has left stop, as they should; the two ledgers never stop and
are checked for deadlock.

| Run | Question | Bounds |
|---|---|---|
| `playbook_races` | Do claims exclude, do completed attempts and finished runs stay, does a rejection hold? Does a run end or say that a founder must decide? | 2 advancers; draft, approval, action; 1 payload drafted, 1 more by edit; 1 retry of the draft and 1, delayed, of the action; 1 fault (a crash), no overrun lease, 1 edit; fairness |
| `approved_email` | Is only an approved payload emailed when the action resolves it from the draft and callers outlast their leases inside the ledger? Did a completed action send its email? How often is the provider called? Is `ApprovedExecution` implemented by the two together? | 2 advancers, 2 drafts of one source to one person, 1 real mailbox, 1 retry, 1 fault (a crash, or a lease that expires under a live caller); symmetry |
| `playbook_resume` | Is work always taken up again? A statement the documentation makes, see below | 2 advancers, 1 retry of the action, no faults, no edits, fairness |
| `delivery_races` | At most once and never forgotten; is `AtMostOnceSend`, with its truthful answers, implemented; what does somebody who opted out still receive; is every claim settled that was not left behind? | 2 workers, 3 payloads of 2 sources to one person, cap 1, a real and a demo mailbox, 1 row left (a crash, or a settling UPDATE that throws), opt-outs at any moment, fairness of calls |
| `campaign_operators` | One email per step, truthful rows, the ledger's protocol, an unsubscribe that lasts, whatever operators and mailboxes do | 1 member, 1 step, 2 runners, every operator, unsubscribes, 1 row left in each table, filings that end half-way; symmetry |
| `campaign_progress` | Does the cursor wait for an outcome, and does everyone move on? | 2 members, one without an address, 2 steps, 1 runner, replies by email and on LinkedIn, 1 row left in each table, 1 deferral, fairness |
| `agent_races` | How far do two loops overshoot the cap, how late does a stop arrive, and is "stopped" only what was stopped? | 2 runs on `byok`, cap 2, 2 steps, stops, switch, schedule, reaper, crashes; symmetry |
| `agent_progress` | Is the ledger of runs implemented, is a completed run accounted for, does every run end? | 1 run on any of the 3 backends, 1 worker, cap 3, 2 steps, one change of month, 3 events of the child, statements that throw, fairness |
| `linkedin_seat` | Does the seat have one driver, does LinkedIn see a row once per reason, do held rows wait and parked rows have a pause? | 2 sittings of 2 workers, 1 message, every operator, 2 events (faults and operations together); symmetry |
| `linkedin_progress` | Do claims and batches settle, and what does a stopped batch still do? | 1 sitting, 2 invites, 2 faults, fairness |
| `linkedin_bare` | A statement the code makes and does not keep, see below | 2 sittings of 1 worker, 1 invite, no faults, no operators |
| `outreach_claims` | Is a reply published, a draft created, a handoff made once; how far is the day's limit overshot; when does the CRM get a second note? | 2 executors; 3 replies, 1 handoff, 1 draft, 1 note; limit 1; 1 event (a crash, a repeated request, a repeat by the proxy, a 408 or a lost insert); symmetry |

Why these bounds are enough: every hazard listed is a matter of two parties (two callers,
a caller and a founder, a runner and an operator, two workers) and one or two accidents;
two callers, one retry and one crash produce all of their interleavings. A campaign needs a
second step only for what a stale planner or a late answer does *behind* the step it read,
and a second member only to see that one does not starve the other: `campaign_progress` has
both. Moving back and requeuing, which `SkipStep`, `ResumeAtStep` and `RetryFailed` do, needs
one step and two runners: `campaign_operators`. Caps are
as small as the number of sends makes them matter: in `agent_races` two loops can reach a
cap of 2 and pass it, in `outreach_claims` three replies meet a limit of 1. `MaxFaults` bounds
the engine's crashes together with the leases that expire, and `MaxOverruns` those that
expire under a live caller; a lease whose process is dead always expires. With one run and
one worker `agent_progress` says nothing of a hung run that blocks the reaping of *another*
run; `RunEnds` excludes that case by name (`AllWorkersHang`). Every action of the modules
fires in some passing run. Two things are in the modules and in no run: bounces, which take the path of
an unsubscribe and are covered by the theorems about them, and more than one mailbox of a
campaign. The type invariants of the modules with proofs
are not repeated in runs; they are theorems.

Each property of a passing run has a mutant: a plausible bug of the mapped definition
(a dropped status guard, a failure taken as definite, a claim that also takes claimed
rows) that breaks it.

### Disagreements found

`linkedin_bare`: "An outcome we never learned (`unknown`) HOLDS its claim forever rather
than being retried, because a duplicate invite cannot be withdrawn from the recipient's
notifications" (`src/src/server/linkedin/local-worker.ts:109`). When an invite is refused
for want of note quota it is driven again without its note (`local-worker.ts:1579`); any
answer but "sent" then gives the claim back, the unknown one included, and the next batch
invites the same person again. TLC finds two effects of one row with no fault and no
operator.

`playbook_resume`: "The standalone worker resumes work after process or infrastructure
failure" (`docs/control-plane-architecture.md:39`). A caller reads the run while its approval
waits, and is slow; the founder approves, the action fails and its retry is scheduled, for
which the run is `queued`; then the slow caller's `setRunStatus`
(`engine.ts`, by id alone) writes `waiting_approval` over it. The retry falls due, nothing
waits for a founder, and the sweep looks only at queued and running runs. TLC finds it with
two callers and no fault at all. `Progress`, which `playbook_races` checks, is what does hold:
a run ends or comes to a row that *says* a founder must decide.

Met while modelling, true of the models, and without a run of their own:

* Two callers can fail a run as "blocked because one or more dependencies cannot complete"
  (`engine.ts:178`) while a step is about to complete.
* The planner's flush (`flushMemberWrites`, by id alone) turns `replied` back into `waiting`,
  and the next email is claimed. "**Reply stops automation globally.**"
  (`docs/superpowers/plans/2026-08-20-linkedin-campaign-waves-market-parity.md:258`); a test
  says that "an email reply stops LinkedIn and channel work for the same member"
  (`campaign-channels.test.ts:401`). The same flush can put a member back on a step whose row
  a reply has withdrawn: the member waits on a skipped row that nobody leaves, which
  `MembersMoveOn` exempts by name.
* A pause between claim and recheck retires the channel row as skipped; the idempotency
  key forbids another, and the member stays. "Resume is lossless."
  (`managed-campaigns.ts:1542`)
* An unsubscribe is lost when its filing ends between event row and suppression: the process
  dies, or a statement throws and the poll swallows it (`campaign-channels.ts:1151`). Later
  polls leave out events that have a row (`campaign-channels.ts:1070`).
  `UnsubscribeIsDurable` exempts exactly these (`unfiled`).
* A claimed channel row stays claimed for ever when the statements of `settleFailure` throw
  (`campaign-channels.ts:743`), also without a death; `stranded` holds these rows.
* `settleFailure` advances the member past a failed email and `claimNext` takes only rows
  of the current step, so a row `retryManagedCampaignFailures` requeues cannot be claimed
  unless the member is moved back.
* `definiteFailure` does not recognise the ledger's refusal at the cap ("no provider call
  was attempted"), so a send that never left is booked as an unknown outcome.
* A Codex child that exits with code 0 and without `turn.completed` (`cli.ts:749-806`) leaves
  messages of the model on record that nobody counted or paid for; `CompletedIsAccounted`
  demands for Codex that turns are paid and messages written, not that they are as many.
* A scheduled run whose model or child never answers keeps its worker's cycle open
  (`worker/index.ts:110-135`, the note at `schedule.ts:253`), and with it the reaper: this run, and any
  stale run of any other workspace, stays in flight as long as no other worker reaps.
* Two executors can both pass the CRM's look-up; the insert of the second does nothing and
  nobody looks, so both write a note. `migrations/014_crm_activities.sql:41` says that a
  retry cannot leave two identical notes. The note is posted with `retries: 2`, so the proxy
  may write it again by itself after a 5xx or a lost answer; `buffer.ts:61` sets 0 for this
  reason. A 408 from the CRM is classed as a refusal with
  every other 4xx, which `publish.ts` does not do. `SecondNoteHasAReason` names these three as
  the only reasons for a second note.
* A Mastodon reply's idempotency key names its thread, so a second approved reply to the
  same thread could be answered with the first one and reported as posted; the model's
  platform answers for the reply it was given.

Also modelled as the code is: a crash, and a settling UPDATE that throws, leave a claimed
channel row, a `sending` delivery,
a `pending` post or note, a `creating` draft for ever (nothing reaps them; `ClaimsSettle`
of the ledger and `MembersMoveOn` exempt it by name); `uncertain` deliveries do not count
against the cap; HTTP 408, 409 and 429 count as definite rejections of an email, which
assumes the provider did not take it; the 60 s lease of a step is not renewed; an unknown
outcome resolved as retry revives members that were replied, removed or completed.

## 4. Fairness

* Engine: weak fairness of each caller's steps together, that is of its sweep
  (`src/src/worker/index.ts` sweeps on a timer for ever), the steps of an advance, and the
  transaction of an answer already read (a live process runs on); and of time. No
  founder has to decide, and nothing has to crash. A crash is not fair, and neither is a
  lease that expires under a live worker.
* Email ledger: weak fairness of the steps of a call.
* Campaigns: weak fairness of the planner's statements and of each runner, and strong
  fairness of `PlanMember(m)` for each member: a tick plans *every* due member in turn,
  so a member cannot be passed over for ever. A deferred row becomes due, as time does.
* Agent: strong fairness of the reaper, which can run only while some worker's cycle is
  not taken up by a scheduled run (`SomeWorkerFree`): each cycle begins by reaping
  (`worker/index.ts:105` to `135`), but a worker skips cycles while one runs, so weak fairness
  would promise too much. Weak fairness of a running row growing old and of each loop's own
  steps (`Proceeds`). Whether a model answers and a child ends is not fair. `RunEnds` therefore
  holds unless every worker awaits, for ever, a scheduled run of its own that hangs.
* LinkedIn: weak fairness of a sitting's next step (`Work`: an awake lane runs on), of a
  suspended process waking, of leases running out and of both reapers, which every pass
  runs first (`local-worker.ts:5062`). New sittings, operators and faults are not fair.

## 5. Proofs

All theorems are proved for every value of the constants: every playbook the registry
accepts (`PlaybookAssumption`, from `validatePlaybook`), any number of callers, workers,
payloads, mailboxes, members, steps, sittings, rows, runs and executors, and any bound on
faults. The assumptions are the ASSUMEs of the modules and nothing else; TLC evaluates
them in the runs.

**PlaybookEngineProofs.** `PlaybookTypeCorrect`; then `PlaybookExactApproval`,
`PlaybookGrantedStepHasDecision` and `PlaybookRefines` from one invariant, `BoundaryInv`.
`ExactApproval` by itself is not inductive: between the look-up of the decision and the
call to the provider other callers retry, edit and decide. The invariant adds what a call
carries with it. `PhaseFitsKind`: a call that is checking or calling is on an action step,
one that decides is on an approval. `CallIsApproved`: a call about to reach the provider
has in its local variables an approval step and attempt whose decision for exactly its
payload's hash is on record; since `approvals` only grows, nobody can take this away.
`WaitingShowsHash`: a waiting approval shows the hash of its data, so the hash decided on is
that of what the founder saw. Leases that are overrun make no difference: the proof never
uses that a claim is exclusive.

**PlaybookAttemptsProofs.** Each step of the specification is first shown to be one of ten
kinds (`NextKinds`): it claims an attempt, calls, settles, retries, rules on an approval,
recovers, starts, is a tick of the clock, or does nothing that counts. The theorems then
argue about ten kinds and not forty actions. `PlaybookClaimsExclusive` rests on
`AttemptsInv`: before a run exists nothing works on it (`Fresh`), and only the latest
attempt of a step is still to be worked on (`LiveIsLatest`), so a retry never lands on an
attempt somebody holds. A step with no live attempt is frozen (`FrozenStays`), whence
`PlaybookCompletedStays`, `PlaybookCompletedFinished` (what `completeRun` read cannot have
changed) and, with `PlaybookExactApproval`, `PlaybookRejectionStops` (a decision stands on
the latest attempt of its step, so a step cannot have both). `PlaybookNeedsFirst` says that
nothing is begun, and no provider called, before all it depends on is completed: the choice
of a step rests on rows read before the claim (`ChosenAreReady`), and holds up because
completed steps are frozen. These five hold until a live call outlasts its lease, and say so
in what they state (`overruns = 0`): a worker that outlives its lease does overwrite what its
successor did, and without the condition TLC refutes them. `PlaybookCallsBounded` does not need it, only
that the callers are finitely many: an attempt that can be claimed and a caller that
claimed one and has not called yet are tokens for one call; a claim passes the token on, a
call spends it, only an expired lease mints one.

**EmailDeliveryProofs.** `DeliveryTypeCorrect`, and from `DeliveryInv` the five theorems
`DeliveryAtMostOnce`, `DeliveryOneOwner`, `DeliveryNeverForgotten`,
`DeliveryOnePayloadPerSource`, `DeliveryToldMeansSent`, and `DeliveryRefines`. At-most-once
depends on exclusive ownership and on never forgetting an acceptance, each of which needs
the others: a row is retried only when failed, it is failed only if nothing was accepted,
and that is known only to the one call that owned it. `OwnerKnows` says what each phase of
a call implies about its row, `RowKnows` what a status implies about acceptance,
`SourceOwnsOneRow` that a source has one row at most. `DeliveryCapOvershootBounded` is
about the day's cap: sends counted plus calls past the check stay below the cap plus the
number of calls; by counting, with the library's theorems on finite sets.
Three more need the types alone. `DeliveryAnswersAreTold`: a call that ends well was told
that its own payload was sent. `DeliverySuppressionSettles`: once somebody opted out and
the calls under way to them have ended, no row of theirs moves and no provider takes
anything more for them. The proviso is the code's: the list is asked before the claim
and not again, and without it TLC finds the email that leaves after the opt-out.
`DeliveryNoOrphans`: a row in flight has a call that will settle it, unless the call that
claimed it died or the statement that should settle it threw; with the fairness of calls this
is what `ClaimsSettle` rests on.

**CampaignEmailProofs.** `CampaignUsesTheLedger`: whatever planner, runners, operators and
mailbox events do, each step of a campaign is a step of the ledger's specification or
leaves the ledger alone. It needs of campaigns only that a runner at work holds a row
(`RunnersHoldRows`). `CampaignEmailsOnce` then is composition: every behaviour of a
campaign is one of the ledger, so `DeliveryAtMostOnce`, instantiated for rows and runners,
applies. Note what this does *not* rest on: the campaign's own claims, rechecks and
classification of errors. They may be wrong (some are, see above) and no step is emailed
twice. `CampaignKeepsThePromise` and `CampaignNoOrphans`, with the ledger's exception, follow in the
same way.

The rest of the module is about a campaign's own rows: `CampaignTypeCorrect`, `CampaignClaimsExclusive`,
`CampaignUnsubscribes`, `CampaignFailuresUnsent`, `CampaignSentAccepted`,
`CampaignCursorWaits`, `CampaignClaimsAttended`. Exclusion needs that an idle runner holds
no row (`HoldersOnly`). Since nothing takes a claimed row back, somebody must be about to
settle it: `CampaignClaimsAttended` shows it of every path of a runner but the two that leave
the row behind, its death and a settling statement that throws. `CampaignUnsubscribes` is
about every recorded unsubscribe but those whose filing ended after the event row, and
`CampaignUnsubscribedStaysUnsent` joins campaign and ledger: such an
unsubscribe has suppressed the member, and with no call under way to them
`DeliverySuppressionSettles` holds from then on, whatever operators requeue or resume.
What a status says of the provider is shown row by row and call by call (`Outcomes`): a
row that may be sent again was never accepted, or an operator had it retried; a call
carries the same knowledge from the claim through the ledger to the settlement. That the
planner may write what it read two statements earlier is harmless because the outcome it
saw still stands (`PlanStillTrue`); `CampaignCursorWaits` is about members with an address and
assumes `Enabled \subseteq {"linkedin"}`, no operator but any LinkedIn reply, since operators
may move a member over an email whose outcome is unknown.

**ApprovedEmailProofs.** `SystemUsesTheEngine` and `SystemUsesTheLedger`: each step of the
two together is a step of the engine or none, and a step of the ledger or none. All
theorems of the two modules therefore hold of the system, among them `SystemCallsBounded`,
`SystemEmailedOnce`, `SystemSuppressionSettles` and `SystemNoOrphans`. What neither part
says alone comes from `Between`, the invariant of the seam: a caller in the ledger asks for
the hash of the payload it resolved (`AsksForItsPayload`), one about to complete its step
was told that this payload was sent (`FinishesTold`), a completed action row shows such a
payload (`CompletedTold`), action rows never wait for an approval (`ActionsNeverWait`,
`OnlyApprovalsArePlaced`), and what was emailed was approved (EmailedHashes is a subset of
ApprovedHashes). `SystemCompletedMeansSent` follows with what the ledger proves of its
answers, `SystemCompletedRunWasSent` with `PlaybookCompletedFinished`, and `SystemRefines`
shows that what a provider *accepts* was approved before: the approval boundary end to
end, with overrun leases, edits and retries in between.

**HostedAgentProofs.** `AgentTypeCorrect`, `SpendAlwaysLogged`, `StoppedAlwaysAsked`,
`LedgerImplemented`, `CompletedAlwaysAccounted`, `LateCallsAlwaysBounded`,
`OvershootAlwaysBounded`. Each has a strengthening of its own: what a loop knows of a stop it
has read (`StopInv`), what it has heard, counted, charged and written by phase and by backend
unless a failure is latched (`LoopInv`), which phases a backend can be in (`BackendInv`). The
cap (`CapInv`) is proved by giving every loop an
*allowance* of one call, used when it charges and renewed only when it reads the budget
again: what is logged stays below the cap plus the allowances in use.

**LinkedInWorkerProofs.** `WorkerTypeCorrect`, `OneDriverOnSeat`, `ParkedAlwaysPaused`,
`HeldAlwaysWaits`, `LateActsAlwaysBounded`, `ActsAlwaysBounded`. `OneDriverOnSeat` rests on
`SeatInv`: an awake sitting that was not overtaken is of the worker the lease names. For
`ActsAlwaysBounded` a row has a *token*, permission for one more effect: it is spare while
the row can be claimed or its claim reaped, the claim hands it to the sitting that drives
the row, an answer that proves there was no effect returns it, and each event that frees a
row while an effect may exist is counted in `excuses`. `ActInv` says that effects plus
tokens never exceed one plus the excuses.

**ApprovedWritesProofs.** `WritesTypeCorrect`, `HandedAtMostOnce`, `WritesRefine`,
`PostsAlwaysBounded`, `SecondNoteAlwaysHasAReason`. `OnceInv` says who may write: one
executor per held claim, which knows that nothing was delivered before. `LimitInv` counts
the executors between the check and the claim. `NoteInv` uses tokens as above: an
executor that is about to write a note holds one, from the insert or from an excuse, and
one that was refused still holds it, to free the row.

**Only model-checked.** Every safety property of the passing runs is a theorem. Some
theorems have no run of their own: the type invariants, the cap of a mailbox, the engine's
`GrantedStepHasDecision`, `PlaybookRefines` and `PlaybookNeedsFirst`, the no-orphan
theorems. Liveness
(`Progress`, both `ClaimsSettle`, `MembersMoveOn`, `RunEnds`, `BatchesClose`) stays with
TLC: TLAPS does not handle fairness and ENABLED here, nor induction over recursive
definitions.

## 6. Plan

Done: `PlaybookEngine`, `EmailDelivery`, `CampaignEmail` composed with it, `HostedAgent`,
`LinkedInWorker`, `ApprovedWrites`, and `ApprovedEmail`, which composes engine and ledger,
each with its proofs.

To come, in this order:

1. Campaign admission and waves, LinkedIn invite withdrawal, companion pairing.
2. Pure operators against reference definitions: `allocateCampaignCapacity`, the sliding
   windows of limits and pacing, branching conditions.
3. Automation sweep, brand watch, lead capture.
