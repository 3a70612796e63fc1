--------------------------- MODULE EmailDelivery ---------------------------
(***************************************************************************)
(* The shared email ledger, src/server/email-deliveries.ts, and the one    *)
(* function that sends through it, executeConnectedAction of               *)
(* src/server/integration-service.ts: playbooks, campaigns and replies all *)
(* end here.  A delivery row is known by its idempotency key (the hash of  *)
(* the approved payload, which fixes recipient, purpose and source); a     *)
(* worker is one call of executeConnectedAction.                           *)
(*                                                                         *)
(* The provider (Gmail or Microsoft through Nango) is outside src/: a call *)
(* is accepted, definitely rejected (HTTP 4xx), or fails in a way that     *)
(* leaves open whether the message was accepted.                           *)
(***************************************************************************)
EXTENDS Naturals, FiniteSets

CONSTANTS
    Keys,             \* idempotency keys
    SourceOf,         \* key -> (source_type, source_id)
    RecipientOf,      \* key -> recipient, lower case
    Outreach,         \* the keys whose purpose is "outreach"
    Workers,          \* concurrent calls of executeConnectedAction
    Conns,            \* connected mailboxes
    DemoConns,        \* those with is_demo = 1
    AllowSimulation,  \* not production, or ALLOW_SIMULATED_EXECUTION
    Cap,              \* daily_limit of a mailbox
    NoKey, NoConn,
    MaxLeft           \* bound: claims that stay behind, see "left"

ASSUME DeliveryAssumption ==
    /\ DemoConns \subseteq Conns /\ NoConn \notin Conns
    /\ Outreach \subseteq Keys /\ NoKey \notin Keys
    /\ Keys \subseteq DOMAIN SourceOf /\ Keys \subseteq DOMAIN RecipientOf
    /\ AllowSimulation \in BOOLEAN
    /\ Cap \in Nat \ {0} /\ MaxLeft \in Nat

VARIABLES
    \* gtm_deliveries, by column: key -> value
    status,      \* "absent" while there is no row
    boundTo,     \* connection_id
    recent,      \* sent_at lies within the last 24 hours
    simulated,   \* simulated = 1
    \* what each call of executeConnectedAction remembers: worker -> value
    pc, key, conn, result,
    \* the workspace and its surroundings
    suppressed,  \* recipients on the suppression list
    accepted,    \* history: how often the provider accepted each key
    told,        \* history: keys a caller was told were sent
    left         \* history: keys whose call ended without settling the claim:
                 \* its process died, or the UPDATE that settles threw

rowVars == <<status, boundTo, recent, simulated>>
callVars == <<pc, key, conn, result>>
deliveryVars == <<rowVars, callVars, suppressed, accepted, told, left>>

Status == {"absent", "sending", "sent", "failed", "uncertain"}
Result == {"none", "ok", "suppressed", "unconnected", "blocked", "capacity",
           "rejected", "ambiguous"}
Phase == {"idle", "claim", "capacity", "call", "accepted", "simulated", "failing", "done"}
Owning == {"capacity", "call", "accepted", "simulated", "failing"}

Init ==
    /\ status = [k \in Keys |-> "absent"]
    /\ boundTo = [k \in Keys |-> NoConn]
    /\ recent = [k \in Keys |-> FALSE]
    /\ simulated = [k \in Keys |-> FALSE]
    /\ pc = [w \in Workers |-> "idle"]
    /\ key = [w \in Workers |-> NoKey]
    /\ conn = [w \in Workers |-> NoConn]
    /\ result = [w \in Workers |-> "none"]
    /\ suppressed = {}
    /\ accepted = [k \in Keys |-> 0]
    /\ told = {}
    /\ left = {}

Goto(w, phase) == pc' = [pc EXCEPT ![w] = phase]
End(w, phase, r) == Goto(w, phase) /\ result' = [result EXCEPT ![w] = r]
Finish(w, r) == End(w, "done", r) /\ UNCHANGED <<key, conn>>
Fail(w, r) == End(w, "failing", r) /\ UNCHANGED <<key, conn>>
Continue(w, phase) == Goto(w, phase) /\ UNCHANGED <<key, conn, result>>
SetStatus(k, s) == status' = [status EXCEPT ![k] = s]
(* The call ends here and its row stays in 'sending'.                      *)
LeaveClaim(w) == Cardinality(left) < MaxLeft /\ left' = left \cup {key[w]}

-----------------------------------------------------------------------------
(* executeConnectedAction up to the claim: the suppression list, then the  *)
(* mailbox: the one the action names if connected, else any connected one. *)
BeginUnchecked(w, k) ==                 \* mutant: no look at the list
    /\ pc[w] = "idle"
    /\ key' = [key EXCEPT ![w] = k]
    /\ End(w, "claim", "none")
    /\ UNCHANGED <<rowVars, conn, suppressed, accepted, told, left>>
Begin(w, k) ==
    /\ pc[w] = "idle"
    /\ key' = [key EXCEPT ![w] = k]
    /\ IF RecipientOf[k] \in suppressed THEN End(w, "done", "suppressed")
       ELSE End(w, "claim", "none")
    /\ UNCHANGED <<rowVars, conn, suppressed, accepted, told, left>>

NoMailbox(w) ==
    /\ pc[w] = "claim" /\ conn[w] = NoConn
    /\ Finish(w, "unconnected")
    /\ UNCHANGED <<rowVars, suppressed, accepted, told, left>>

PickMailbox(w) ==
    /\ pc[w] = "claim" /\ conn[w] = NoConn
    /\ \E c \in Conns : conn' = [conn EXCEPT ![w] = c]
    /\ UNCHANGED <<rowVars, pc, key, result, suppressed, accepted, told, left>>

(* claimEmailDelivery: one transaction; the row lock and the two UNIQUE    *)
(* constraints make it atomic.                                             *)
KeyIsFree(k) == status[k] = "absent"    \* mutant: UNIQUE on the source missing
SourceIsFree(k) == \A j \in Keys : SourceOf[j] = SourceOf[k] => status[j] = "absent"
SameContext(w) == boundTo[key[w]] = conn[w]
Claimable(w) == pc[w] = "claim" /\ conn[w] # NoConn
UncertainIsReplayable(k) == status[k] \in {"sent", "uncertain"}    \* mutant
Replayable(k) == status[k] = "sent"
Retryable(k) == status[k] = "failed"

ClaimFresh(w) ==
    /\ Claimable(w) /\ SourceIsFree(key[w])
    /\ SetStatus(key[w], "sending")
    /\ boundTo' = [boundTo EXCEPT ![key[w]] = conn[w]]
    /\ Continue(w, "capacity")
    /\ UNCHANGED <<recent, simulated, suppressed, accepted, told, left>>

ClaimReplay(w) ==
    /\ Claimable(w) /\ Replayable(key[w]) /\ SameContext(w)
    /\ Finish(w, "ok")
    /\ told' = told \cup {key[w]}
    /\ UNCHANGED <<rowVars, suppressed, accepted, left>>

ClaimRetry(w) ==
    /\ Claimable(w) /\ Retryable(key[w]) /\ SameContext(w)
    /\ SetStatus(key[w], "sending")
    /\ Continue(w, "capacity")
    /\ UNCHANGED <<boundTo, recent, simulated, suppressed, accepted, told, left>>

(* In flight, uncertain, bound to another mailbox, or its source already   *)
(* owns another payload.                                                   *)
ClaimBlocked(w) ==
    /\ Claimable(w) /\ ~SourceIsFree(key[w])
    /\ ~((Replayable(key[w]) \/ Retryable(key[w])) /\ SameContext(w))
    /\ Finish(w, "blocked")
    /\ UNCHANGED <<rowVars, suppressed, accepted, told, left>>

-----------------------------------------------------------------------------
(* After the claim: capacity, the provider, and the two settling updates,  *)
(* each conditional on status = 'sending'.                                 *)

(* assertEmailDeliveryCapacity counts confirmed sends of the last 24 hours.*)
SentToday(c) == {k \in Outreach : status[k] = "sent" /\ recent[k] /\ boundTo[k] = c}

CapReached(w) == key[w] \in Outreach /\ Cardinality(SentToday(conn[w])) >= Cap

(* Where its own SELECT throws, the outcome is booked as unknown.          *)
CheckCapacity(w) ==
    /\ pc[w] = "capacity"
    /\ \/ IF CapReached(w) THEN Fail(w, "capacity") ELSE Continue(w, "call")
       \/ Fail(w, "ambiguous")
    /\ UNCHANGED <<rowVars, suppressed, accepted, told, left>>

Simulate(w) ==
    /\ pc[w] = "call" /\ conn[w] \in DemoConns
    /\ IF AllowSimulation THEN Continue(w, "simulated") ELSE Fail(w, "rejected")
    /\ UNCHANGED <<rowVars, suppressed, accepted, told, left>>

(* The provider took the message; the answer may still be lost.            *)
ProviderAccepts(w) ==
    /\ pc[w] = "call" /\ conn[w] \notin DemoConns
    /\ accepted' = [accepted EXCEPT ![key[w]] = @ + 1]
    /\ Continue(w, "accepted") \/ Fail(w, "ambiguous")
    /\ UNCHANGED <<rowVars, suppressed, told, left>>

ProviderFails(w) ==
    /\ pc[w] = "call" /\ conn[w] \notin DemoConns
    /\ Fail(w, "rejected") \/ Fail(w, "ambiguous")
    /\ UNCHANGED <<rowVars, suppressed, accepted, told, left>>

MarkSent(w) ==
    /\ pc[w] \in {"accepted", "simulated"} /\ status[key[w]] = "sending"
    /\ SetStatus(key[w], "sent")
    /\ recent' = [recent EXCEPT ![key[w]] = TRUE]
    /\ simulated' = [simulated EXCEPT ![key[w]] = (pc[w] = "simulated")]
    /\ told' = told \cup {key[w]}
    /\ Finish(w, "ok")
    /\ UNCHANGED <<boundTo, suppressed, accepted, left>>

(* The UPDATE throws.  After a provider call the sent message is booked as *)
(* uncertain; the demo path stands outside the try and ends the call.      *)
MarkSentFails(w) ==
    \/ /\ pc[w] = "accepted"
       /\ Fail(w, "ambiguous")
       /\ UNCHANGED <<rowVars, suppressed, accepted, told, left>>
    \/ /\ pc[w] = "simulated"
       /\ LeaveClaim(w) /\ Finish(w, "ambiguous")
       /\ UNCHANGED <<rowVars, suppressed, accepted, told>>

(* definiteEmailFailure decides between failed and uncertain.              *)
EveryFailureIsDefinite(w) == "failed"   \* mutant
AmbiguousStaysClaimed(w) ==             \* mutant: settles definite failures only
    IF result[w] = "ambiguous" THEN "sending" ELSE "failed"
FailureStatus(w) == IF result[w] = "ambiguous" THEN "uncertain" ELSE "failed"

MarkFailure(w) ==
    /\ pc[w] = "failing" /\ status[key[w]] = "sending"
    /\ SetStatus(key[w], FailureStatus(w))
    /\ Continue(w, "done")
    /\ UNCHANGED <<boundTo, recent, simulated, suppressed, accepted, told, left>>

(* markEmailDeliveryFailure throws: its error takes the place of the first.*)
MarkFailureFails(w) ==
    /\ pc[w] = "failing"
    /\ LeaveClaim(w) /\ Finish(w, "ambiguous")
    /\ UNCHANGED <<rowVars, suppressed, accepted, told>>

-----------------------------------------------------------------------------
(* The caller takes the result; processes die; recipients opt out; the     *)
(* 24-hour window slides.                                                  *)
Forget(w) ==
    /\ pc' = [pc EXCEPT ![w] = "idle"]
    /\ key' = [key EXCEPT ![w] = NoKey]
    /\ conn' = [conn EXCEPT ![w] = NoConn]
    /\ result' = [result EXCEPT ![w] = "none"]

Return(w) ==
    /\ pc[w] = "done"
    /\ Forget(w)
    /\ UNCHANGED <<rowVars, suppressed, accepted, told, left>>

Crash(w) ==
    /\ pc[w] # "idle"
    /\ IF pc[w] \in Owning THEN LeaveClaim(w) ELSE UNCHANGED left
    /\ Forget(w)
    /\ UNCHANGED <<rowVars, suppressed, accepted, told>>

Suppress(k) ==
    /\ suppressed' = suppressed \cup {RecipientOf[k]}
    /\ UNCHANGED <<rowVars, callVars, accepted, told, left>>

DayPasses(k) ==
    /\ recent[k]
    /\ recent' = [recent EXCEPT ![k] = FALSE]
    /\ UNCHANGED <<status, boundTo, simulated, callVars, suppressed, accepted, told, left>>

Deliver(w) ==
    \/ NoMailbox(w) \/ PickMailbox(w)
    \/ ClaimFresh(w) \/ ClaimReplay(w) \/ ClaimRetry(w) \/ ClaimBlocked(w)
    \/ CheckCapacity(w) \/ Simulate(w) \/ ProviderAccepts(w) \/ ProviderFails(w)
    \/ MarkSent(w) \/ MarkSentFails(w) \/ MarkFailure(w) \/ MarkFailureFails(w)
Environment ==
    \/ \E k \in Keys : Suppress(k) \/ DayPasses(k)
    \/ \E w \in Workers : Crash(w)

Next ==
    \/ \E w \in Workers : Deliver(w) \/ Return(w) \/ \E k \in Keys : Begin(w, k)
    \/ Environment

Spec == Init /\ [][Next]_deliveryVars
FairSpec == Spec /\ \A w \in Workers : WF_deliveryVars(Deliver(w))

-----------------------------------------------------------------------------
(* Properties.                                                             *)

(* The rows, the calls and the histories keep their shapes.                *)
TypeOK ==
    /\ status \in [Keys -> Status]
    /\ boundTo \in [Keys -> Conns \cup {NoConn}]
    /\ recent \in [Keys -> BOOLEAN]
    /\ simulated \in [Keys -> BOOLEAN]
    /\ pc \in [Workers -> Phase]
    /\ key \in [Workers -> Keys \cup {NoKey}]
    /\ \A w \in Workers : pc[w] # "idle" => key[w] \in Keys
    /\ conn \in [Workers -> Conns \cup {NoConn}]
    /\ result \in [Workers -> Result]
    /\ suppressed \subseteq {RecipientOf[k] : k \in Keys}
    /\ accepted \in [Keys -> Nat]
    /\ told \subseteq Keys
    /\ left \subseteq Keys

(* claimEmailDelivery: however calls race, retry or crash, a provider      *)
(* accepts one exact payload at most once.                                 *)
AtMostOnce == \A k \in Keys : accepted[k] <= 1

(* A claim has one owner: between the claim and the settling update no two *)
(* calls work on the same delivery, and the row says it is in flight.      *)
OneOwner == \A w \in Workers : pc[w] \in Owning =>
    /\ status[key[w]] = "sending"
    /\ \A v \in Workers : pc[v] \in Owning /\ key[v] = key[w] => v = w

(* definiteEmailFailure: a delivery the provider took is never booked as   *)
(* failed, the one status a later call may send again.                     *)
AcceptedIsNeverForgotten == \A k \in Keys :
    accepted[k] > 0 => status[k] \in {"sending", "sent", "uncertain"}

(* A source action owns one delivery: two payloads of one source are never *)
(* both accepted.                                                          *)
OnePayloadPerSource == \A j, k \in Keys :
    accepted[j] > 0 /\ accepted[k] > 0 /\ SourceOf[j] = SourceOf[k] => j = k

(* Replays are truthful: whoever is told "sent" is told so of a message a  *)
(* provider took or the demo mailbox simulated.                            *)
ToldMeansSent == \A k \in told : accepted[k] = 1 \/ simulated[k]

(* assertNotSuppressed is asked before the claim and never again: who opts *)
(* out may still hear from the calls that were under way.  Once those have *)
(* ended nothing more reaches that person, whoever asks, and no row of     *)
(* theirs moves.                                                           *)
UnderWay(k) == \E w \in Workers : key[w] = k /\ pc[w] # "done"
Closed(k) == RecipientOf[k] \in suppressed /\ ~UnderWay(k)
SuppressionSettles == [][\A k \in Keys : Closed(k) =>
    Closed(k)' /\ accepted'[k] = accepted[k] /\ status'[k] = status[k]]_deliveryVars

(* Capacity is read before the call and spent after it; the confirmed sends*)
(* of a day exceed the cap by less than the number of calls at once.       *)
CapOvershootBounded == \A c \in Conns :
    Cardinality(SentToday(c)) < Cap + Cardinality(Workers)

(* A claimed delivery is settled, unless the process that owned it died or *)
(* the UPDATE that settles it threw; nothing but those two leaves a claim  *)
(* behind, and each leaves its own claim only.                             *)
ClaimsSettle == \A k \in Keys :
    status[k] = "sending" ~> status[k] # "sending" \/ k \in left

(* The abstract promise.                                                   *)
Abstract == INSTANCE AtMostOnceSend WITH
    Key <- Keys, simulated <- {k \in Keys : simulated[k]}
ImplementsAtMostOnceSend == Abstract!Spec
=============================================================================
