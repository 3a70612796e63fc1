--------------------------- MODULE ApprovedEmail ---------------------------
(***************************************************************************)
(* A playbook run whose actions are "email.send": the engine of            *)
(* PlaybookEngine, the ledger of EmailDelivery, and between the two the    *)
(* function executePreparedPlaybookAction of control-plane/execution.ts.   *)
(* The provider call of the engine, one step there, is here the whole call *)
(* of executeConnectedAction: while it lasts its step lease may expire,    *)
(* another caller take the step over, a founder decide, the process die.   *)
(*                                                                         *)
(* The idempotency key of an email is the hash of the approved payload,    *)
(* which names the recipient and, in its metadata, the source action.      *)
(***************************************************************************)
EXTENDS PlaybookEngine

CONSTANTS
    SourceOf, RecipientOf, Outreach,    \* hash of a payload -> what it says
    Conns, DemoConns, AllowSimulation, Cap, NoConn, NoKey

VARIABLES
    delivery, boundTo, recent, simulated,   \* gtm_deliveries
    mail, key, conn, result,                \* executeConnectedAction, by caller
    suppressed, accepted, told, left        \* see EmailDelivery

emailVars == <<delivery, boundTo, recent, simulated, mail, key, conn, result,
               suppressed, accepted, told, left>>
systemVars == <<vars, emailVars>>

(* A template that resolved to nothing is no email.                        *)
Emails == {PayloadHash(p) : p \in Payloads}

Ledger == INSTANCE EmailDelivery WITH
    Keys <- Emails, Workers <- Advancers,
    status <- delivery, pc <- mail, MaxLeft <- MaxFaults

ASSUME EmailAssumption == Ledger!DeliveryAssumption

SystemInit == Init /\ Ledger!Init

-----------------------------------------------------------------------------
(* executePreparedPlaybookAction.                                          *)

(* emailPayloadSchema.parse throws before anything is sent.                *)
RefusePayload(a) ==
    /\ CallProvider(a) /\ payload[a] = NoPayload /\ pc'[a] = "catch"
    /\ UNCHANGED emailVars

SendEmail(a) ==
    /\ pc[a] = "call" /\ payload[a] # NoPayload
    /\ Ledger!Begin(a, PayloadHash(payload[a]))
    /\ UNCHANGED vars

Deliver(a) == Ledger!Deliver(a) /\ UNCHANGED vars

(* What the ledger throws fails the step; after a delivery the UPDATE of   *)
(* the recommendation may still throw.                                     *)
AnswerIsTaken(a) == result[a] \in {"ok", "blocked"}                  \* mutant
Answered(a) == result[a] = "ok"
EmailReturns(a) ==
    /\ mail[a] = "done"
    /\ CallProvider(a) /\ (pc'[a] = "finish" => Answered(a))
    /\ Ledger!Return(a)

(* A process dies with both halves of its call.                            *)
CallDies(a) ==
    /\ Crash(a)
    /\ IF mail[a] = "idle" THEN UNCHANGED emailVars ELSE Ledger!Crash(a)

EngineWorks ==
    /\ Time \/ \E a \in Advancers : StartRun(a) \/ Sweep(a) \/ Work(a) \/ Founder(a)
    /\ UNCHANGED emailVars

Elsewhere ==
    /\ \E k \in Emails : Ledger!Suppress(k) \/ Ledger!DayPasses(k)
    /\ UNCHANGED vars

SystemNext ==
    \/ EngineWorks \/ Elsewhere
    \/ \E a \in Advancers :
          \/ RefusePayload(a) \/ SendEmail(a) \/ Deliver(a) \/ EmailReturns(a)
          \/ CallDies(a)

SystemSpec == SystemInit /\ [][SystemNext]_systemVars

-----------------------------------------------------------------------------
(* Properties.                                                             *)

(* executePreparedPlaybookAction after runActionStep: a completed action   *)
(* sent its email, once, or the demo mailbox simulated it; a refusal of the*)
(* ledger never counts as done.                                            *)
WasSent(k) == k \in Emails /\ (accepted[k] = 1 \/ simulated[k])
CompletedMeansSent == \A s \in Steps, n \in Attempts :
    Kind[s] = "action" /\ status[s][n] = "completed" => WasSent(PayloadHash(data[s][n]))

(* completeRun: of a completed run every action sent its email, unless a   *)
(* live call outlasted its lease.                                          *)
CompletedRunWasSent == overruns = 0 /\ run.status = "completed" =>
    \A s \in Steps : Kind[s] = "action" =>
        \E n \in Attempts : status[s][n] = "completed" /\ WasSent(PayloadHash(data[s][n]))

(* Two callers of one step, an attempt repeated after a lost answer, a     *)
(* crash after the send: an approved payload is emailed once at most, and  *)
(* of the payloads of one source action one at most.                       *)
EmailedOnce == Ledger!AtMostOnce /\ Ledger!OnePayloadPerSource

(* The approval boundary, end to end: however slow callers are, whatever   *)
(* they edit, retry and take over, a provider accepts an email only if a   *)
(* founder approved that exact payload before.                             *)
ApprovedHashes == {r.hash : r \in {q \in approvals : q.decision = "approve"}}
EmailedHashes == {k \in Emails : accepted[k] > 0}
Promise == INSTANCE ApprovedExecution WITH
    Hash <- Hashes, approved <- ApprovedHashes, executed <- EmailedHashes
EmailImplementsApprovedExecution == Promise!Spec

(* The engine and the ledger are used by their protocols and in no other   *)
(* way: all that is shown of each holds of the two together.               *)
UsesTheEngine == Spec
UsesTheLedger == Ledger!Spec
=============================================================================
