------------------------ MODULE EmailDeliveryProofs ------------------------
(***************************************************************************)
(* Proofs about EmailDelivery, for any number of payloads, sources,        *)
(* mailboxes and concurrent calls.                                         *)
(***************************************************************************)
EXTENDS EmailDelivery, FiniteSetTheorems, TLAPS

(* The ledger and its callers keep the shapes of their tables and records. *)
LEMMA TypeInitial == ASSUME DeliveryAssumption, Init PROVE TypeOK
BY DEF DeliveryAssumption, Init, TypeOK, Status, Phase, Result

LEMMA TypeStep == ASSUME DeliveryAssumption, TypeOK, [Next]_deliveryVars PROVE TypeOK'
<1> USE DEF DeliveryAssumption, TypeOK, Status, Phase, Result, Owning, rowVars, callVars
<1>1. CASE UNCHANGED deliveryVars
  BY <1>1 DEF deliveryVars
<1>2. ASSUME NEW w \in Workers, NEW k \in Keys, Begin(w, k) PROVE TypeOK'
  BY <1>2 DEF Begin, End, Goto
<1>3. ASSUME NEW w \in Workers, Return(w) PROVE TypeOK'
  BY <1>3 DEF Return, Forget
<1>4. ASSUME NEW w \in Workers, Deliver(w) PROVE TypeOK'
  <2> USE DEF Goto, End, Finish, Fail, Continue, SetStatus, Claimable, Replayable, Retryable
  <2>1. CASE NoMailbox(w) BY <2>1 DEF NoMailbox
  <2>2. CASE PickMailbox(w) BY <2>2 DEF PickMailbox
  <2>3. CASE ClaimFresh(w) BY <2>3 DEF ClaimFresh
  <2>4. CASE ClaimReplay(w) BY <2>4 DEF ClaimReplay
  <2>5. CASE ClaimRetry(w) BY <2>5 DEF ClaimRetry
  <2>6. CASE ClaimBlocked(w) BY <2>6 DEF ClaimBlocked
  <2>7. CASE CheckCapacity(w) BY <2>7 DEF CheckCapacity, CapReached
  <2>8. CASE Simulate(w) BY <2>8 DEF Simulate
  <2>9. CASE ProviderAccepts(w) BY <2>9 DEF ProviderAccepts
  <2>10. CASE ProviderFails(w) BY <2>10 DEF ProviderFails
  <2>11. CASE MarkSent(w) BY <2>11 DEF MarkSent
  <2>12. CASE MarkSentFails(w) BY <2>12 DEF MarkSentFails, LeaveClaim
  <2>13. CASE MarkFailure(w) BY <2>13 DEF MarkFailure, FailureStatus
  <2>14. CASE MarkFailureFails(w) BY <2>14 DEF MarkFailureFails, LeaveClaim
  <2> QED
    BY <1>4, <2>1, <2>2, <2>3, <2>4, <2>5, <2>6, <2>7, <2>8, <2>9, <2>10, <2>11,
       <2>12, <2>13, <2>14 DEF Deliver
<1>5. CASE Environment
  <2>1. ASSUME NEW k \in Keys, Suppress(k) PROVE TypeOK'
    BY <2>1 DEF Suppress
  <2>2. ASSUME NEW k \in Keys, DayPasses(k) PROVE TypeOK'
    BY <2>2 DEF DayPasses
  <2>3. ASSUME NEW w \in Workers, Crash(w) PROVE TypeOK'
    BY <2>3 DEF Crash, Forget, LeaveClaim
  <2> QED BY <1>5, <2>1, <2>2, <2>3 DEF Environment
<1> QED BY <1>1, <1>2, <1>3, <1>4, <1>5 DEF Next

(* Type correctness of every reachable state.                              *)
THEOREM DeliveryTypeCorrect == Spec => []TypeOK
<1>1. Init => TypeOK BY DeliveryAssumption, TypeInitial
<1>2. TypeOK /\ [Next]_deliveryVars => TypeOK' BY DeliveryAssumption, TypeStep
<1> QED BY <1>1, <1>2, PTL DEF Spec

-----------------------------------------------------------------------------
(* What a delivery and its owner know of each other.  AtMostOnce alone is  *)
(* not inductive: that a call about to reach the provider is the first one *)
(* follows from the status of its row, and from being its only owner.      *)
OwnerKnows == \A w \in Workers :
    /\ pc[w] = "accepted" => accepted[key[w]] = 1
    /\ pc[w] \in Owning /\ accepted[key[w]] > 0 =>
          pc[w] = "accepted" \/ (pc[w] = "failing" /\ result[w] = "ambiguous")
RowKnows == \A k \in Keys :
    /\ status[k] = "sent" => accepted[k] = 1 \/ simulated[k]
    /\ simulated[k] => status[k] = "sent"
    /\ k \in told => status[k] = "sent"
SourceOwnsOneRow == \A j, k \in Keys :
    status[j] # "absent" /\ status[k] # "absent" /\ SourceOf[j] = SourceOf[k] => j = k

DeliveryInv ==
    /\ TypeOK
    /\ OneOwner
    /\ AtMostOnce
    /\ AcceptedIsNeverForgotten
    /\ OwnerKnows
    /\ RowKnows
    /\ SourceOwnsOneRow

LEMMA InvInitial == ASSUME DeliveryAssumption, Init PROVE DeliveryInv
<1>1. TypeOK BY TypeInitial
<1> QED
  BY <1>1 DEF Init, DeliveryInv, OneOwner, AtMostOnce, AcceptedIsNeverForgotten,
     OwnerKnows, RowKnows, SourceOwnsOneRow, Owning

LEMMA InvStep == ASSUME DeliveryAssumption, DeliveryInv, [Next]_deliveryVars PROVE DeliveryInv'
<1> DEFINE Facts == OneOwner /\ AtMostOnce /\ AcceptedIsNeverForgotten /\ OwnerKnows
                     /\ RowKnows /\ SourceOwnsOneRow
<1>0. TypeOK /\ TypeOK' BY TypeStep DEF DeliveryInv
<1>a. Facts BY DEF DeliveryInv
<1> SUFFICES Facts' BY <1>0 DEF DeliveryInv
<1> USE <1>0, <1>a DEF DeliveryAssumption, TypeOK, Status, Phase, Result, Owning, rowVars, callVars,
      OneOwner, AtMostOnce, AcceptedIsNeverForgotten, OwnerKnows, RowKnows, SourceOwnsOneRow
<1>1. CASE UNCHANGED deliveryVars
  BY <1>1 DEF deliveryVars
<1>2. ASSUME NEW w \in Workers, NEW k \in Keys, Begin(w, k) PROVE Facts'
  BY <1>2 DEF Begin, End, Goto
<1>3. ASSUME NEW w \in Workers, Return(w) PROVE Facts'
  BY <1>3 DEF Return, Forget
<1>4. ASSUME NEW w \in Workers, Deliver(w) PROVE Facts'
  <2> USE DEF Goto, End, Finish, Fail, Continue, SetStatus, Claimable, Replayable, Retryable
  <2>1. CASE NoMailbox(w) BY <2>1 DEF NoMailbox
  <2>2. CASE PickMailbox(w) BY <2>2 DEF PickMailbox
  <2>3. CASE ClaimFresh(w) BY <2>3 DEF ClaimFresh, SourceIsFree
  <2>4. CASE ClaimReplay(w) BY <2>4 DEF ClaimReplay
  <2>5. CASE ClaimRetry(w) BY <2>5 DEF ClaimRetry
  <2>6. CASE ClaimBlocked(w) BY <2>6 DEF ClaimBlocked
  <2>7. CASE CheckCapacity(w) BY <2>7 DEF CheckCapacity, CapReached
  <2>8. CASE Simulate(w) BY <2>8 DEF Simulate
  <2>9. CASE ProviderAccepts(w) BY <2>9 DEF ProviderAccepts
  <2>10. CASE ProviderFails(w) BY <2>10 DEF ProviderFails
  <2>11. CASE MarkSent(w)
    <3>1. /\ key[w] \in Keys /\ status[key[w]] = "sending"
          /\ pc[w] = "accepted" => accepted[key[w]] = 1
      BY <2>11 DEF MarkSent
    <3>2. OneOwner' BY <2>11 DEF MarkSent
    <3>3. AtMostOnce' /\ AcceptedIsNeverForgotten' BY <2>11, <3>1 DEF MarkSent
    <3>4. OwnerKnows' BY <2>11 DEF MarkSent
    <3>5. RowKnows'
      <4> SUFFICES ASSUME NEW k \in Keys
                   PROVE  /\ status'[k] = "sent" => accepted'[k] = 1 \/ simulated'[k]
                          /\ simulated'[k] => status'[k] = "sent"
                          /\ k \in told' => status'[k] = "sent"
        BY DEF RowKnows
      <4>1. CASE k # key[w] BY <2>11, <4>1 DEF MarkSent
      <4>2. CASE k = key[w] /\ pc[w] = "simulated"
        <5>1. simulated'[k] BY <2>11, <4>2 DEF MarkSent
        <5> QED BY <2>11, <3>1, <4>2, <5>1 DEF MarkSent
      <4>3. CASE k = key[w] /\ pc[w] = "accepted" BY <2>11, <3>1, <4>3 DEF MarkSent
      <4> QED BY <2>11, <4>1, <4>2, <4>3 DEF MarkSent
    <3>6. SourceOwnsOneRow' BY <2>11, <3>1 DEF MarkSent
    <3> QED BY <3>2, <3>3, <3>4, <3>5, <3>6
  <2>12. CASE MarkSentFails(w) BY <2>12 DEF MarkSentFails, LeaveClaim
  <2>13. CASE MarkFailure(w) BY <2>13 DEF MarkFailure, FailureStatus
  <2>14. CASE MarkFailureFails(w) BY <2>14 DEF MarkFailureFails, LeaveClaim
  <2> QED
    BY <1>4, <2>1, <2>2, <2>3, <2>4, <2>5, <2>6, <2>7, <2>8, <2>9, <2>10, <2>11,
       <2>12, <2>13, <2>14 DEF Deliver
<1>5. CASE Environment
  <2>1. ASSUME NEW k \in Keys, Suppress(k) PROVE Facts'
    BY <2>1 DEF Suppress
  <2>2. ASSUME NEW k \in Keys, DayPasses(k) PROVE Facts'
    BY <2>2 DEF DayPasses
  <2>3. ASSUME NEW w \in Workers, Crash(w) PROVE Facts'
    BY <2>3 DEF Crash, Forget
  <2> QED BY <1>5, <2>1, <2>2, <2>3 DEF Environment
<1> QED BY <1>1, <1>2, <1>3, <1>4, <1>5 DEF Next

LEMMA Invariance == Spec => []DeliveryInv
<1>1. Init => DeliveryInv BY DeliveryAssumption, InvInitial
<1>2. DeliveryInv /\ [Next]_deliveryVars => DeliveryInv' BY DeliveryAssumption, InvStep
<1> QED BY <1>1, <1>2, PTL DEF Spec

(* However many calls race, retry or die, and however many payloads and    *)
(* mailboxes there are, a provider accepts one exact payload at most once. *)
THEOREM DeliveryAtMostOnce == Spec => []AtMostOnce
BY Invariance, PTL DEF DeliveryInv

(* A claimed delivery has one owner and is in flight.                      *)
THEOREM DeliveryOneOwner == Spec => []OneOwner
BY Invariance, PTL DEF DeliveryInv

(* A delivery some provider took is never booked as failed.                *)
THEOREM DeliveryNeverForgotten == Spec => []AcceptedIsNeverForgotten
BY Invariance, PTL DEF DeliveryInv

(* Of the payloads of one source action, one at most is ever accepted.     *)
THEOREM DeliveryOnePayloadPerSource == Spec => []OnePayloadPerSource
<1>1. DeliveryInv => OnePayloadPerSource
  BY DEF DeliveryInv, AcceptedIsNeverForgotten, SourceOwnsOneRow, OnePayloadPerSource
<1> QED BY <1>1, Invariance, PTL

(* Nobody is told "sent" of a message that was neither accepted nor        *)
(* simulated.                                                              *)
THEOREM DeliveryToldMeansSent == Spec => []ToldMeansSent
<1>1. DeliveryInv => ToldMeansSent
  BY DEF DeliveryInv, TypeOK, RowKnows, ToldMeansSent
<1> QED BY <1>1, Invariance, PTL

-----------------------------------------------------------------------------
(* Whoever holds the answer "ok" was told so, of the payload it asked for, *)
(* and what somebody was told stays told.                                  *)
AnswersAreTold == \A w \in Workers : result[w] = "ok" => key[w] \in told

LEMMA AnswersStep ==
  ASSUME TypeOK, AnswersAreTold, [Next]_deliveryVars
  PROVE  AnswersAreTold' /\ told \subseteq told'
<1> USE DEF TypeOK, AnswersAreTold, rowVars, callVars
<1>1. CASE UNCHANGED deliveryVars BY <1>1 DEF deliveryVars
<1>2. ASSUME NEW w \in Workers, NEW k \in Keys, Begin(w, k)
      PROVE  AnswersAreTold' /\ told \subseteq told'
  BY <1>2 DEF Begin, End, Goto
<1>3. ASSUME NEW w \in Workers, Return(w) \/ Crash(w)
      PROVE  AnswersAreTold' /\ told \subseteq told'
  BY <1>3 DEF Return, Crash, Forget
<1>4. CASE \E k \in Keys : Suppress(k) \/ DayPasses(k) BY <1>4 DEF Suppress, DayPasses
<1>5. ASSUME NEW w \in Workers, Deliver(w) PROVE AnswersAreTold' /\ told \subseteq told'
  <2> USE DEF Goto, End, Finish, Fail, Continue
  <2>1. CASE NoMailbox(w) \/ PickMailbox(w) BY <2>1 DEF NoMailbox, PickMailbox
  <2>2. CASE ClaimFresh(w) \/ ClaimRetry(w) BY <2>2 DEF ClaimFresh, ClaimRetry
  <2>3. CASE ClaimReplay(w) \/ ClaimBlocked(w) BY <2>3 DEF ClaimReplay, ClaimBlocked
  <2>4. CASE CheckCapacity(w) \/ Simulate(w) BY <2>4 DEF CheckCapacity, Simulate
  <2>5. CASE ProviderAccepts(w) \/ ProviderFails(w) BY <2>5 DEF ProviderAccepts, ProviderFails
  <2>6. CASE MarkSent(w) BY <2>6 DEF MarkSent
  <2>7. CASE MarkSentFails(w) \/ MarkFailure(w) \/ MarkFailureFails(w)
    BY <2>7 DEF MarkSentFails, MarkFailure, MarkFailureFails
  <2> QED BY <1>5, <2>1, <2>2, <2>3, <2>4, <2>5, <2>6, <2>7 DEF Deliver
<1> QED BY <1>1, <1>2, <1>3, <1>4, <1>5 DEF Next, Environment

(* A call that ends well was told that its payload was sent.               *)
THEOREM DeliveryAnswersAreTold == Spec => []AnswersAreTold
<1>1. Init => AnswersAreTold BY DEF Init, AnswersAreTold
<1>2. TypeOK /\ AnswersAreTold /\ [Next]_deliveryVars => AnswersAreTold' BY AnswersStep
<1> QED BY <1>1, <1>2, DeliveryTypeCorrect, PTL DEF Spec

-----------------------------------------------------------------------------
(* Opting out.  A step of a call touches the row the call is about, and a  *)
(* call about somebody who opted out ends where it begins.                 *)
LEMMA SuppressionStep ==
  ASSUME DeliveryAssumption, TypeOK, [Next]_deliveryVars, NEW k \in Keys, Closed(k)
  PROVE  Closed(k)' /\ accepted'[k] = accepted[k] /\ status'[k] = status[k]
<1> DEFINE Quiet == Closed(k)' /\ accepted'[k] = accepted[k] /\ status'[k] = status[k]
<1> USE DEF DeliveryAssumption, TypeOK, Closed, UnderWay, rowVars, callVars
<1>1. CASE UNCHANGED deliveryVars BY <1>1 DEF deliveryVars
<1>2. ASSUME NEW w \in Workers, NEW j \in Keys, Begin(w, j) PROVE Quiet
  <2>1. CASE j = k BY <1>2, <2>1 DEF Begin, End, Goto
  <2>2. CASE j # k BY <1>2, <2>2 DEF Begin, End, Goto
  <2> QED BY <2>1, <2>2
<1>3. ASSUME NEW w \in Workers, Return(w) \/ Crash(w) PROVE Quiet
  BY <1>3 DEF Return, Crash, Forget
<1>4. CASE \E j \in Keys : Suppress(j) \/ DayPasses(j) BY <1>4 DEF Suppress, DayPasses
<1>5. ASSUME NEW w \in Workers, Deliver(w) PROVE Quiet
  <2> USE DEF Goto, End, Finish, Fail, Continue, SetStatus, Claimable
  <2>1. CASE NoMailbox(w) \/ PickMailbox(w) BY <2>1 DEF NoMailbox, PickMailbox
  <2>2. CASE ClaimFresh(w) \/ ClaimRetry(w) BY <2>2 DEF ClaimFresh, ClaimRetry
  <2>3. CASE ClaimReplay(w) \/ ClaimBlocked(w) BY <2>3 DEF ClaimReplay, ClaimBlocked
  <2>4. CASE CheckCapacity(w) \/ Simulate(w) BY <2>4 DEF CheckCapacity, Simulate
  <2>5. CASE ProviderAccepts(w) \/ ProviderFails(w) BY <2>5 DEF ProviderAccepts, ProviderFails
  <2>6. CASE MarkSent(w) BY <2>6 DEF MarkSent
  <2>7. CASE MarkSentFails(w) \/ MarkFailure(w) \/ MarkFailureFails(w)
    BY <2>7 DEF MarkSentFails, MarkFailure, MarkFailureFails
  <2> QED BY <1>5, <2>1, <2>2, <2>3, <2>4, <2>5, <2>6, <2>7 DEF Deliver
<1> QED BY <1>1, <1>2, <1>3, <1>4, <1>5 DEF Next, Environment

(* Once somebody opted out and the calls under way to them have ended,     *)
(* nothing more is sent to them and no row of theirs moves, for good.      *)
THEOREM DeliverySuppressionSettles == Spec => SuppressionSettles
<1>1. TypeOK /\ [Next]_deliveryVars =>
        [\A k \in Keys : Closed(k) =>
           Closed(k)' /\ accepted'[k] = accepted[k] /\ status'[k] = status[k]]_deliveryVars
  BY DeliveryAssumption, SuppressionStep
<1> QED BY <1>1, DeliveryTypeCorrect, PTL DEF Spec, SuppressionSettles

-----------------------------------------------------------------------------
(* No orphans.  A delivery in flight has a call that will settle it, unless*)
(* that very call ended without settling: the safety core of ClaimsSettle. *)
Owned(k) == \E w \in Workers : pc[w] \in Owning /\ key[w] = k
NoOrphans == \A k \in Keys :
    /\ status[k] = "sending" => Owned(k) \/ k \in left
    /\ k \in left => status[k] = "sending" /\ ~Owned(k)

LEMMA OrphanStep ==
  ASSUME DeliveryAssumption, TypeOK, OneOwner, NoOrphans, [Next]_deliveryVars
  PROVE  NoOrphans'
<1> USE DEF DeliveryAssumption, TypeOK, OneOwner, NoOrphans, Owned, Owning, rowVars, callVars
<1>1. CASE UNCHANGED deliveryVars BY <1>1 DEF deliveryVars
<1>2. ASSUME NEW w \in Workers, NEW k \in Keys, Begin(w, k) PROVE NoOrphans'
  BY <1>2 DEF Begin, End, Goto
<1>3. ASSUME NEW w \in Workers, Return(w) PROVE NoOrphans'
  BY <1>3 DEF Return, Forget
<1>4. ASSUME NEW w \in Workers, Crash(w) PROVE NoOrphans'
  BY <1>4 DEF Crash, Forget, LeaveClaim
<1>5. CASE \E k \in Keys : Suppress(k) \/ DayPasses(k) BY <1>5 DEF Suppress, DayPasses
<1>6. ASSUME NEW w \in Workers, Deliver(w) PROVE NoOrphans'
  <2> USE DEF Goto, End, Finish, Fail, Continue, SetStatus, Claimable
  <2>1. CASE NoMailbox(w) \/ PickMailbox(w) BY <2>1 DEF NoMailbox, PickMailbox
  <2>2. CASE ClaimFresh(w)
    <3>1. key[w] \in Keys /\ key[w] \notin left /\ Owned(key[w])'
      BY <2>2 DEF ClaimFresh, SourceIsFree, Phase
    <3> QED BY <2>2, <3>1 DEF ClaimFresh
  <2>3. CASE ClaimRetry(w)
    <3>1. key[w] \in Keys /\ key[w] \notin left /\ Owned(key[w])'
      BY <2>3 DEF ClaimRetry, Retryable, Phase
    <3> QED BY <2>3, <3>1 DEF ClaimRetry
  <2>4. CASE ClaimReplay(w) \/ ClaimBlocked(w) BY <2>4 DEF ClaimReplay, ClaimBlocked
  <2>5. CASE CheckCapacity(w) \/ Simulate(w) BY <2>5 DEF CheckCapacity, Simulate
  <2>6. CASE ProviderAccepts(w) \/ ProviderFails(w) BY <2>6 DEF ProviderAccepts, ProviderFails
  <2>7. CASE MarkSent(w) BY <2>7 DEF MarkSent
  <2>8. CASE MarkSentFails(w) BY <2>8 DEF MarkSentFails, LeaveClaim
  <2>9. CASE MarkFailure(w) BY <2>9 DEF MarkFailure, FailureStatus
  <2>10. CASE MarkFailureFails(w) BY <2>10 DEF MarkFailureFails, LeaveClaim
  <2> QED BY <1>6, <2>1, <2>2, <2>3, <2>4, <2>5, <2>6, <2>7, <2>8, <2>9, <2>10 DEF Deliver
<1> QED BY <1>1, <1>2, <1>3, <1>4, <1>5, <1>6 DEF Next, Environment

(* However calls fail, each settles the row it claimed; the exceptions are *)
(* the calls whose process died and those whose settling UPDATE threw, and *)
(* they leave no other row behind than their own.  Such a row stays in     *)
(* flight: no call owns it again.                                          *)
THEOREM DeliveryNoOrphans == Spec => []NoOrphans
<1>1. Init => NoOrphans BY DEF Init, NoOrphans
<1>2. DeliveryInv /\ NoOrphans /\ [Next]_deliveryVars => NoOrphans'
  BY DeliveryAssumption, OrphanStep DEF DeliveryInv
<1> QED BY <1>1, <1>2, Invariance, PTL DEF Spec

-----------------------------------------------------------------------------
(* The cap.  What the confirmed sends exceed it by is the calls that passed*)
(* the check and have not booked their send yet: the sum of the two is what*)
(* stays below cap and calls together.                                     *)
Bound == \A w \in Workers : pc[w] \in Owning => boundTo[key[w]] = conn[w]
Clears(w, c) == pc[w] \in {"call", "accepted", "simulated"} /\ conn[w] = c /\ key[w] \in Outreach
Cleared(c) == {w \in Workers : Clears(w, c)}
CapInv == \A c \in Conns :
    /\ IsFiniteSet(SentToday(c))
    /\ Cardinality(SentToday(c)) + Cardinality(Cleared(c)) < Cap + Cardinality(Workers)

LEMMA BoundStep ==
  ASSUME DeliveryAssumption, TypeOK, OneOwner, Bound, [Next]_deliveryVars PROVE Bound'
<1> USE DEF TypeOK, Bound, OneOwner, Owning, rowVars, callVars, Phase, Status
<1>1. CASE UNCHANGED deliveryVars BY <1>1 DEF deliveryVars
<1>2. ASSUME NEW w \in Workers, NEW k \in Keys, Begin(w, k) PROVE Bound'
  BY <1>2 DEF Begin, End, Goto
<1>3. ASSUME NEW w \in Workers, Return(w) \/ Crash(w) PROVE Bound'
  BY <1>3 DEF Return, Crash, Forget
<1>4. CASE \E k \in Keys : Suppress(k) \/ DayPasses(k) BY <1>4 DEF Suppress, DayPasses
<1>5. ASSUME NEW w \in Workers, Deliver(w) PROVE Bound'
  <2> USE DEF Goto, End, Finish, Fail, Continue, SetStatus, Claimable
  <2>1. CASE NoMailbox(w) \/ PickMailbox(w) BY <2>1 DEF NoMailbox, PickMailbox
  <2>2. CASE ClaimFresh(w) BY <2>2 DEF ClaimFresh, SourceIsFree
  <2>3. CASE ClaimReplay(w) \/ ClaimBlocked(w) BY <2>3 DEF ClaimReplay, ClaimBlocked
  <2>4. CASE ClaimRetry(w) BY <2>4 DEF ClaimRetry, SameContext
  <2>5. CASE CheckCapacity(w) \/ Simulate(w) BY <2>5 DEF CheckCapacity, Simulate
  <2>6. CASE ProviderAccepts(w) \/ ProviderFails(w) BY <2>6 DEF ProviderAccepts, ProviderFails
  <2>7. CASE MarkSent(w) \/ MarkSentFails(w) \/ MarkFailure(w) \/ MarkFailureFails(w)
    BY <2>7 DEF MarkSent, MarkSentFails, MarkFailure, MarkFailureFails
  <2> QED BY <1>5, <2>1, <2>2, <2>3, <2>4, <2>5, <2>6, <2>7 DEF Deliver
<1> QED BY <1>1, <1>2, <1>3, <1>4, <1>5 DEF Next, Environment

(* A step keeps both sets, lets a call pass below the cap, or books a send.*)
Keeps(c) == SentToday(c)' \subseteq SentToday(c) /\ \A w \in Workers : Clears(w, c)' => Clears(w, c)
Lets(c) == SentToday(c)' = SentToday(c) /\ ~(Cardinality(SentToday(c)) >= Cap)
Books(c) == \E w \in Workers, k \in Keys :
    /\ Clears(w, c) /\ ~Clears(w, c)' /\ SentToday(c)' = SentToday(c) \cup {k}
    /\ \A v \in Workers : Clears(v, c)' => Clears(v, c)
Capped(c) == Keeps(c) \/ Lets(c) \/ Books(c)

LEMMA CapMoves ==
  ASSUME DeliveryAssumption, TypeOK, OneOwner, Bound, [Next]_deliveryVars, NEW c \in Conns
  PROVE  Capped(c)
<1> USE DEF DeliveryAssumption, TypeOK, Clears, SentToday, rowVars, callVars, Phase, Status
<1>0. TypeOK' BY TypeStep
<1>1. CASE UNCHANGED deliveryVars BY <1>1 DEF deliveryVars, Capped, Keeps
<1>2. ASSUME NEW w \in Workers, NEW k \in Keys, Begin(w, k) PROVE Keeps(c)
  BY <1>2 DEF Begin, End, Goto, Keeps
<1>3. ASSUME NEW w \in Workers, Return(w) \/ Crash(w) PROVE Keeps(c)
  BY <1>3 DEF Return, Crash, Forget, Keeps
<1>4. CASE \E k \in Keys : Suppress(k) \/ DayPasses(k)
  <2>1. Keeps(c) BY <1>4 DEF Suppress, DayPasses, Keeps
  <2> QED BY <2>1 DEF Capped
<1>5. ASSUME NEW w \in Workers, Deliver(w) PROVE Capped(c)
  <2> USE DEF Goto, End, Finish, Fail, Continue, SetStatus, Claimable
  <2>1. NoMailbox(w) \/ PickMailbox(w) => Keeps(c) BY DEF NoMailbox, PickMailbox, Keeps
  <2>2. ClaimFresh(w) => Keeps(c) BY DEF ClaimFresh, Keeps
  <2>3. ClaimReplay(w) \/ ClaimBlocked(w) => Keeps(c) BY DEF ClaimReplay, ClaimBlocked, Keeps
  <2>4. ClaimRetry(w) => Keeps(c) BY DEF ClaimRetry, Keeps
  <2>5. CheckCapacity(w) => Keeps(c) \/ Lets(c)
    <3> SUFFICES ASSUME CheckCapacity(w) PROVE Keeps(c) \/ Lets(c) OBVIOUS
    <3>1. SentToday(c)' = SentToday(c) BY DEF CheckCapacity
    <3>2. CASE CapReached(w) BY <3>1, <3>2 DEF CheckCapacity, Keeps
    <3>3. CASE ~CapReached(w) /\ key[w] \in Outreach /\ conn[w] = c
      <4>1. ~(Cardinality(SentToday(c)) >= Cap) BY <3>3 DEF CapReached
      <4> QED BY <3>1, <4>1 DEF Lets
    <3>4. CASE key[w] \notin Outreach \/ conn[w] # c
      BY <3>1, <3>4 DEF CheckCapacity, Keeps
    <3> QED BY <3>2, <3>3, <3>4
  <2>6. Simulate(w) => Keeps(c) BY DEF Simulate, Keeps
  <2>7. ProviderAccepts(w) \/ ProviderFails(w) => Keeps(c)
    BY DEF ProviderAccepts, ProviderFails, Keeps
  <2>8. MarkSentFails(w) \/ MarkFailure(w) \/ MarkFailureFails(w) => Keeps(c)
    BY DEF MarkSentFails, MarkFailure, MarkFailureFails, FailureStatus, Keeps, Result
  <2>9. MarkSent(w) => Keeps(c) \/ Books(c)
    <3> SUFFICES ASSUME MarkSent(w) PROVE Keeps(c) \/ Books(c) OBVIOUS
    <3>1. key[w] \in Keys /\ boundTo[key[w]] = conn[w] BY DEF MarkSent, Bound, Owning
    <3>2. ~Clears(w, c)' /\ \A v \in Workers : Clears(v, c)' => Clears(v, c) BY DEF MarkSent
    <3>3. CASE Clears(w, c)
      <4>1. SentToday(c)' = SentToday(c) \cup {key[w]} BY <3>1, <3>3 DEF MarkSent
      <4> QED BY <3>1, <3>2, <3>3, <4>1 DEF Books
    <3>4. CASE ~Clears(w, c)
      <4>1. SentToday(c)' \subseteq SentToday(c) BY <3>1, <3>4 DEF MarkSent
      <4> QED BY <3>2, <4>1 DEF Keeps
    <3> QED BY <3>3, <3>4
  <2> QED
    BY <1>5, <2>1, <2>2, <2>3, <2>4, <2>5, <2>6, <2>7, <2>8, <2>9 DEF Deliver, Capped
<1> QED BY <1>1, <1>2, <1>3, <1>4, <1>5 DEF Next, Environment, Capped

LEMMA CapStep ==
  ASSUME DeliveryAssumption, IsFiniteSet(Workers), TypeOK, OneOwner, Bound, CapInv,
         [Next]_deliveryVars
  PROVE  CapInv'
<1> SUFFICES ASSUME NEW c \in Conns
             PROVE  /\ IsFiniteSet(SentToday(c)')
                    /\ Cardinality(SentToday(c)') + Cardinality(Cleared(c)')
                         < Cap + Cardinality(Workers)
  BY DEF CapInv
<1> DEFINE S == SentToday(c)  T == SentToday(c)'  A == Cleared(c)  B == Cleared(c)'
<1> HIDE DEF S, T, A, B
<1>1. IsFiniteSet(S) /\ Cardinality(S) + Cardinality(A) < Cap + Cardinality(Workers)
  BY DEF CapInv, S, A
<1>2. /\ IsFiniteSet(A) /\ IsFiniteSet(B) /\ Cardinality(B) <= Cardinality(Workers)
      /\ Cardinality(S) \in Nat /\ Cardinality(A) \in Nat /\ Cardinality(B) \in Nat
      /\ Cardinality(Workers) \in Nat /\ Cap \in Nat
  <2>1. A \subseteq Workers /\ B \subseteq Workers BY DEF A, B, Cleared
  <2> QED BY <1>1, <2>1, FS_Subset, FS_CardinalityType DEF DeliveryAssumption
<1>3. CASE Keeps(c)
  <2>1. T \subseteq S /\ B \subseteq A BY <1>3 DEF Keeps, S, T, A, B, Cleared
  <2>2. /\ IsFiniteSet(T) /\ Cardinality(T) \in Nat
        /\ Cardinality(T) <= Cardinality(S) /\ Cardinality(B) <= Cardinality(A)
    BY <1>1, <1>2, <2>1, FS_Subset, FS_CardinalityType
  <2> QED BY <1>1, <1>2, <2>2 DEF T, B
<1>4. CASE Lets(c)
  <2>1. T = S /\ ~(Cardinality(S) >= Cap) BY <1>4 DEF Lets, S, T
  <2> QED BY <1>1, <1>2, <2>1 DEF T, B
<1>5. CASE Books(c)
  <2>1. PICK w \in Workers, k \in Keys :
          w \in A /\ w \notin B /\ T = S \cup {k} /\ B \subseteq A
    BY <1>5 DEF Books, S, T, A, B, Cleared
  <2>2. /\ IsFiniteSet(T) /\ Cardinality(T) \in Nat
        /\ Cardinality(T) <= Cardinality(S) + 1
    <3>1. IsFiniteSet(T) /\ (Cardinality(T) = Cardinality(S) \/ Cardinality(T) = Cardinality(S) + 1)
      BY <1>1, <2>1, FS_AddElement
    <3> QED BY <1>2, <3>1
  <2>3. /\ IsFiniteSet(A \ {w}) /\ Cardinality(A \ {w}) = Cardinality(A) - 1
        /\ B \subseteq A \ {w}
    BY <1>2, <2>1, FS_RemoveElement
  <2>4. Cardinality(B) <= Cardinality(A) - 1 BY <2>3, FS_Subset
  <2> QED BY <1>1, <1>2, <2>2, <2>4 DEF T, B
<1> QED BY <1>3, <1>4, <1>5, CapMoves DEF Capped

(* Capacity is read before the call and spent after it: whatever the cap,  *)
(* a mailbox sends less than the cap and the calls at once together.       *)
THEOREM DeliveryCapOvershootBounded ==
  ASSUME IsFiniteSet(Workers) PROVE Spec => []CapOvershootBounded
<1>1. Init => Bound /\ CapInv
  <2> SUFFICES ASSUME Init PROVE Bound /\ CapInv OBVIOUS
  <2>1. Bound BY DEF Init, Bound, Owning
  <2>2. ASSUME NEW c \in Conns PROVE SentToday(c) = {} /\ Cleared(c) = {}
    BY DeliveryAssumption DEF Init, SentToday, Cleared, Clears, DeliveryAssumption
  <2>3. Cardinality(Workers) \in Nat BY FS_CardinalityType
  <2> QED BY <2>1, <2>2, <2>3, FS_EmptySet, DeliveryAssumption DEF CapInv, DeliveryAssumption
<1>2. DeliveryInv /\ Bound /\ CapInv /\ [Next]_deliveryVars => Bound' /\ CapInv'
  BY DeliveryAssumption, BoundStep, CapStep DEF DeliveryInv
<1>3. CapInv => CapOvershootBounded
  <2> SUFFICES ASSUME CapInv, NEW c \in Conns
               PROVE  Cardinality(SentToday(c)) < Cap + Cardinality(Workers)
    BY DEF CapOvershootBounded
  <2>1. Cleared(c) \subseteq Workers BY DEF Cleared
  <2>2. /\ Cardinality(SentToday(c)) \in Nat /\ Cardinality(Cleared(c)) \in Nat
        /\ Cardinality(Workers) \in Nat /\ Cap \in Nat
    BY <2>1, FS_Subset, FS_CardinalityType, DeliveryAssumption DEF CapInv, DeliveryAssumption
  <2> QED BY <2>2 DEF CapInv
<1> QED BY <1>1, <1>2, <1>3, Invariance, PTL DEF Spec

-----------------------------------------------------------------------------
(* Refinement: the calls that can change what the abstract promise sees are*)
(* the replay, the provider's acceptance and the settling update.          *)

LEMMA AbstractInitial == ASSUME DeliveryAssumption, Init PROVE Abstract!Init
BY DEF Init, Abstract!Init

LEMMA AbstractStep ==
  ASSUME DeliveryAssumption, DeliveryInv, DeliveryInv', [Next]_deliveryVars
  PROVE  [Abstract!Next]_(Abstract!vars)
<1> DEFINE Promised == [Abstract!Next]_(Abstract!vars)
<1>0. UNCHANGED <<accepted, told, simulated>> => Promised BY DEF Abstract!vars
<1> USE DEF rowVars, callVars
<1>1. CASE UNCHANGED deliveryVars
  BY <1>0, <1>1 DEF deliveryVars
<1>2. ASSUME NEW w \in Workers, NEW k \in Keys, Begin(w, k) PROVE Promised
  BY <1>0, <1>2 DEF Begin
<1>3. ASSUME NEW w \in Workers, Return(w) PROVE Promised
  BY <1>0, <1>3 DEF Return
<1>4. ASSUME NEW w \in Workers, Deliver(w) PROVE Promised
  <2>1. ClaimReplay(w) => Promised
    <3> SUFFICES ASSUME ClaimReplay(w) PROVE Abstract!Tell(key[w]) /\ key[w] \in Keys
      BY DEF Abstract!Next
    <3>1. key[w] \in Keys
      BY DEF ClaimReplay, Claimable, DeliveryInv, TypeOK
    <3>2. accepted[key[w]] = 1 \/ key[w] \in {k \in Keys : simulated[k]}
      BY <3>1 DEF ClaimReplay, Replayable, DeliveryInv, RowKnows
    <3> QED BY <3>1, <3>2 DEF ClaimReplay, Abstract!Tell
  <2>2. ProviderAccepts(w) => Promised
    <3> SUFFICES ASSUME ProviderAccepts(w) PROVE Abstract!Accept(key[w]) /\ key[w] \in Keys
      BY DEF Abstract!Next
    <3>1. key[w] \in Keys /\ accepted[key[w]] = 0
      BY DEF ProviderAccepts, DeliveryInv, TypeOK, OwnerKnows, Owning
    <3> QED BY <3>1 DEF ProviderAccepts, Abstract!Accept, DeliveryInv, TypeOK
  <2>3. MarkSent(w) => Promised
    <3> SUFFICES ASSUME MarkSent(w) PROVE Promised OBVIOUS
    <3>1. key[w] \in Keys /\ ~simulated[key[w]]
      BY DEF MarkSent, DeliveryInv, TypeOK, RowKnows
    <3>2. CASE pc[w] = "simulated"
      <4>1. {k \in Keys : simulated'[k]} = {k \in Keys : simulated[k]} \cup {key[w]}
        BY <3>1, <3>2 DEF MarkSent, DeliveryInv, TypeOK
      <4> QED BY <3>1, <4>1 DEF MarkSent, Abstract!Next, Abstract!Simulate
    <3>3. CASE pc[w] = "accepted"
      <4>1. {k \in Keys : simulated'[k]} = {k \in Keys : simulated[k]}
        BY <3>1, <3>3 DEF MarkSent, DeliveryInv, TypeOK
      <4>2. accepted[key[w]] = 1 BY <3>3 DEF DeliveryInv, OwnerKnows
      <4> QED BY <3>1, <4>1, <4>2 DEF MarkSent, Abstract!Next, Abstract!Tell
    <3> QED BY <3>2, <3>3 DEF MarkSent
  <2> QED
    BY <1>0, <1>4, <2>1, <2>2, <2>3 DEF Deliver, NoMailbox, PickMailbox, ClaimFresh,
       ClaimRetry, ClaimBlocked, CheckCapacity, Simulate, ProviderFails, MarkSentFails,
       MarkFailure, MarkFailureFails
<1>5. CASE Environment
  BY <1>0, <1>5 DEF Environment, Suppress, DayPasses, Crash
<1> QED BY <1>1, <1>2, <1>3, <1>4, <1>5 DEF Next

(* The ledger implements the promise the other parts of the program are    *)
(* written against.                                                        *)
THEOREM DeliveryRefines == Spec => ImplementsAtMostOnceSend
<1>1. Init => Abstract!Init BY DeliveryAssumption, AbstractInitial
<1>2. DeliveryInv /\ DeliveryInv' /\ [Next]_deliveryVars => [Abstract!Next]_(Abstract!vars)
  BY DeliveryAssumption, AbstractStep
<1> QED BY <1>1, <1>2, Invariance, PTL DEF Spec, ImplementsAtMostOnceSend, Abstract!Spec
=============================================================================
