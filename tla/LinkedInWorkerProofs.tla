----------------------- MODULE LinkedInWorkerProofs -----------------------
(***************************************************************************)
(* Proofs about LinkedInWorker, for any number of sittings, rows and       *)
(* workers, any assignment of sittings to workers, and any number of       *)
(* faults and interventions of operators.                                  *)
(***************************************************************************)
EXTENDS LinkedInWorker, FiniteSetTheorems, TLAPS

LEMMA Overwrites == ASSUME NEW S, NEW T, NEW f \in [S -> T], NEW s \in S, NEW t \in T
                    PROVE [f EXCEPT ![s] = t] \in [S -> T]
OBVIOUS

LEMMA Increases == ASSUME NEW S, NEW f \in [S -> Nat], NEW s, NEW n \in Nat
                   PROVE [f EXCEPT ![s] = @ + n] \in [S -> Nat]
<1>1. \A x \in S : [f EXCEPT ![s] = @ + n][x] \in Nat OBVIOUS
<1> QED BY <1>1

-----------------------------------------------------------------------------
(* Types.  What the writers make of a row is a row.                        *)
LEMMA RowUnclaimed ==
  ASSUME WorkerAssumption, NEW r \in Row
  PROVE  /\ Unclaimed(r) \in Row
         /\ \A f \in {"none", "retryable", "other"} : [Unclaimed(r) EXCEPT !.failure = f] \in Row
         /\ \A st \in {"planned", "held", "sent", "accepted", "skipped"},
               f \in {"none", "retryable", "other"} :
               /\ [Unclaimed(r) EXCEPT !.status = st, !.failure = f] \in Row
               /\ [Unclaimed(r) EXCEPT !.status = st, !.failure = f, !.hold = FALSE] \in Row
<1>1. Unclaimed(r) \in Row BY DEF Unclaimed, Row
<1>2. ASSUME NEW f \in {"none", "retryable", "other"}
      PROVE  [Unclaimed(r) EXCEPT !.failure = f] \in Row
  BY <1>1 DEF Row
<1>3. ASSUME NEW st \in {"planned", "held", "sent", "accepted", "skipped"},
             NEW f \in {"none", "retryable", "other"}
      PROVE  /\ [Unclaimed(r) EXCEPT !.status = st, !.failure = f] \in Row
             /\ [Unclaimed(r) EXCEPT !.status = st, !.failure = f, !.hold = FALSE] \in Row
  <2>1. [Unclaimed(r) EXCEPT !.status = st, !.failure = f] \in Row BY <1>1 DEF Row
  <2>2. ASSUME NEW q \in Row PROVE [q EXCEPT !.hold = FALSE] \in Row BY DEF Row
  <2>3. [[Unclaimed(r) EXCEPT !.status = st, !.failure = f] EXCEPT !.hold = FALSE] \in Row
    BY <2>1, <2>2
  <2> QED BY <2>1, <2>3
<1> QED BY <1>1, <1>2, <1>3

LEMMA RowStatus ==
  ASSUME WorkerAssumption, NEW r \in Row, NEW st \in {"planned", "held", "sent", "accepted", "skipped"}
  PROVE  /\ [r EXCEPT !.status = st] \in Row
         /\ [r EXCEPT !.status = st, !.by = None, !.lease = "none", !.failure = "none"] \in Row
         /\ [r EXCEPT !.status = st, !.claimed = FALSE, !.by = None, !.lease = "none",
                      !.failure = "none"] \in Row
BY DEF Row

LEMMA RowLease ==
  ASSUME NEW r \in Row
  PROVE  [r EXCEPT !.lease = "live"] \in Row /\ [r EXCEPT !.lease = "expired"] \in Row
BY DEF Row

LEMMA RowClaimed ==
  ASSUME WorkerAssumption, NEW r \in Row, NEW s \in Sittings
  PROVE  /\ [r EXCEPT !.claimed = TRUE, !.by = WorkerOf[s], !.batch = s, !.lease = "live"] \in Row
         /\ [r EXCEPT !.failure = "other", !.by = WorkerOf[s], !.lease = "none",
                      !.hold = TRUE] \in Row
BY DEF Row, WorkerAssumption

LEMMA PutTyped ==
  ASSUME row \in [Actions -> Row], NEW a \in Actions, NEW new \in Row, Put(a, new)
  PROVE  row' \in [Actions -> Row]
BY Overwrites DEF Put

LEMMA ReleaseTyped ==
  ASSUME WorkerAssumption, row \in [Actions -> Row], NEW a \in Actions,
         NEW f \in {"none", "retryable", "other"}, ReleaseClaim(a, f) \/ SettleSkipped(a, f)
  PROVE  row' \in [Actions -> Row]
<1>1. row[a] \in Row OBVIOUS
<1>2. /\ [Unclaimed(row[a]) EXCEPT !.failure = f] \in Row
      /\ [Unclaimed(row[a]) EXCEPT !.status = "skipped", !.failure = f] \in Row
  BY <1>1, RowUnclaimed
<1> QED BY <1>2, PutTyped DEF ReleaseClaim, SettleSkipped

LEMMA ExcuseTyped ==
  ASSUME excuses \in [Actions -> Nat], NEW a, Excuse(a)
  PROVE  excuses' \in [Actions -> Nat]
BY Increases DEF Excuse

LEMMA TypeInitial == ASSUME WorkerAssumption, Init PROVE TypeOK
BY DEF Init, TypeOK, WorkerAssumption, Row, Phase, Answer

LEMMA TypeStep == ASSUME WorkerAssumption, TypeOK, [Next]_workerVars PROVE TypeOK'
<1>0. UNCHANGED workerVars => TypeOK'
  BY DEF TypeOK, workerVars, seatVars, memberVars, batchVars, passVars, sittingVars,
         requestVars, outsideVars, historyVars
<1> USE DEF TypeOK, seatVars, memberVars, batchVars, passVars, sittingVars, requestVars,
        outsideVars, historyVars, Goto
<1>1. ASSUME NEW s \in Sittings, ClaimSeatLease(s) PROVE TypeOK'
  BY <1>1 DEF ClaimSeatLease, WorkerAssumption, Phase
<1>2. ASSUME NEW s \in Sittings, Sit(s) PROVE TypeOK'
  <2>1. CASE CannotSit(s) BY <2>1 DEF CannotSit, Phase
  <2>2. CASE OpenBatch(s) BY <2>2 DEF OpenBatch, Phase
  <2>3. CASE CloseBatch(s) BY <2>3 DEF CloseBatch, EndPass, Phase
  <2>4. CASE ReleaseSeatLease(s) BY <2>4 DEF ReleaseSeatLease, Phase
  <2>5. CASE CheckStop(s) BY <2>5 DEF CheckStop, Phase
  <2>6. CASE CheckPosture(s) BY <2>6 DEF CheckPosture, Phase
  <2>7. CASE NothingDue(s) BY <2>7 DEF NothingDue, Phase
  <2>8. ASSUME NEW a \in Actions, ClaimNextDueAction(s, a) PROVE TypeOK'
    <3>1. row' \in [Actions -> Row]
      BY <2>8, RowClaimed, PutTyped DEF ClaimNextDueAction
    <3> QED BY <2>8, <3>1 DEF ClaimNextDueAction, Phase
  <2> QED BY <1>2, <2>1, <2>2, <2>3, <2>4, <2>5, <2>6, <2>7, <2>8 DEF Sit
<1>3. ASSUME NEW s \in Sittings, NEW a \in Actions, Prepare(s, a) PROVE TypeOK'
  <2>1. CASE PutBack(s, a)
    <3>1. row' \in [Actions -> Row] BY <2>1, ReleaseTyped DEF PutBack
    <3> QED BY <2>1, <3>1 DEF PutBack, Defer, NextRow, Phase, Answer
  <2>2. CASE Retire(s, a)
    <3>1. row' \in [Actions -> Row] BY <2>2, RowStatus, PutTyped DEF Retire, SettleBranchSkipped
    <3> QED BY <2>2, <3>1 DEF Retire, Advance, NextRow, Phase, Answer
  <2>3. CASE CannotTell(s, a)
    <3>1. row' \in [Actions -> Row] BY <2>3, ReleaseTyped DEF CannotTell
    <3> QED BY <2>3, <3>1 DEF CannotTell, NextRow, Phase, Answer
  <2>4. CASE Pass(s, a) BY <2>4 DEF Pass, After, Phase
  <2>5. CASE Heartbeat(s, a)
    <3>1. row' \in [Actions -> Row] BY <2>5, RowLease, PutTyped DEF Heartbeat
    <3> QED BY <2>5, <3>1 DEF Heartbeat, Phase
  <2> QED BY <1>3, <2>1, <2>2, <2>3, <2>4, <2>5 DEF Prepare
<1>4. ASSUME NEW s \in Sittings, NEW a \in Actions, Act(s, a) PROVE TypeOK'
  <2>1. PICK ans \in Answer, n \in {0, 1} : Call(s, a, ans, n)
    BY <1>4 DEF Act, Drive, DriveBare, MayHide
  <2>2. n \in Nat BY <2>1
  <2>3. done' \in [Actions -> Nat] BY <2>1, <2>2, Increases DEF Call
  <2>4. late' \in [Sittings -> Nat]
    <3>1. late[s] + n \in Nat BY <2>2
    <3>2. (IF Stopped(s) THEN late[s] + n ELSE late[s]) \in Nat BY <3>1
    <3> QED BY <2>1, <3>2, Overwrites DEF Call
  <2>5. answer' \in [Sittings -> Answer] BY <2>1 DEF Call
  <2> QED BY <1>4, <2>3, <2>4, <2>5 DEF Act, Drive, DriveBare, Phase
<1>5. ASSUME NEW s \in Sittings, NEW a \in Actions, Record(s, a) PROVE TypeOK'
  <2> USE DEF Answered, Recorded, NextRow, Phase, Answer, Put
  <2>1. CASE RecordSent(s, a)
    <3>1. row' \in [Actions -> Row] BY <2>1, RowStatus, PutTyped DEF RecordSent, SettleSent
    <3> QED BY <2>1, <3>1 DEF RecordSent, Advance
  <2>2. CASE RecordWall(s, a)
    <3>1. row' \in [Actions -> Row] BY <2>2, ReleaseTyped DEF RecordWall
    <3> QED BY <2>2, <3>1 DEF RecordWall
  <2>3. CASE RecordExisting(s, a)
    <3>1. row' \in [Actions -> Row] 
      BY <2>3, RowStatus, PutTyped DEF RecordExisting, SettleExistingInvite
    <3> QED BY <2>3, <3>1 DEF RecordExisting, Advance
  <2>4. CASE RecordImpossible(s, a)
    <3>1. row' \in [Actions -> Row] BY <2>4, ReleaseTyped DEF RecordImpossible
    <3> QED BY <2>4, <3>1 DEF RecordImpossible
  <2>5. CASE RecordSessionLost(s, a)
    <3>1. row' \in [Actions -> Row] BY <2>5, ReleaseTyped DEF RecordSessionLost
    <3> QED BY <2>5, <3>1 DEF RecordSessionLost
  <2>6. CASE RecordDrift(s, a)
    <3>1. row' \in [Actions -> Row] BY <2>6, ReleaseTyped DEF RecordDrift
    <3> DEFINE again == {KindOf[b] : b \in {b \in drifted[s] \ {a} : KindOf[b] = KindOf[a]}}
    <3>2. again \in SUBSET {"invite", "dm", "other"} BY DEF WorkerAssumption
    <3>3. /\ drifted' \in {drifted, [drifted EXCEPT ![s] = @ \cup {a}]}
          /\ abandoned' \in {abandoned, [abandoned EXCEPT ![s] = @ \cup again]}
      BY <2>6 DEF RecordDrift
    <3> HIDE DEF again
    <3>4. drifted' \in [Sittings -> SUBSET Actions] BY <3>3
    <3> DEFINE more == abandoned[s] \cup again
    <3>5. abandoned' \in [Sittings -> SUBSET {"invite", "dm", "other"}]
      <4>1. more \in SUBSET {"invite", "dm", "other"} BY <3>2
      <4>2. abandoned' \in {abandoned, [abandoned EXCEPT ![s] = more]} BY <3>3
      <4> HIDE DEF more
      <4> QED BY <4>1, <4>2
    <3> QED BY <2>6, <3>1, <3>4, <3>5 DEF RecordDrift, Defer
  <2>7. ASSUME GiveUpKind(s, a), excuses' \in [Actions -> Nat] PROVE TypeOK'
    <3>1. row' \in [Actions -> Row] BY <2>7, ReleaseTyped DEF GiveUpKind
    <3>2. KindOf[a] \in {"invite", "dm", "other"} BY DEF WorkerAssumption
    <3> QED BY <2>7, <3>1, <3>2 DEF GiveUpKind, Defer
  <2>8. CASE RecordQuota(s, a) BY <2>7, <2>8 DEF RecordQuota
  <2>9. CASE DropNote(s, a) BY <2>9 DEF DropNote
  <2>10. CASE RecordBareFailure(s, a)
    <3>1. excuses' \in [Actions -> Nat]
      BY <2>10, ExcuseTyped DEF RecordBareFailure, GiveUpKind, ReleaseClaim, Put
    <3> QED BY <2>7, <2>10, <3>1 DEF RecordBareFailure
  <2>11. CASE RecordUnknown(s, a)
    <3>1. row' \in [Actions -> Row] BY <2>11, RowClaimed, PutTyped DEF RecordUnknown, HoldClaim
    <3> QED BY <2>11, <3>1 DEF RecordUnknown
  <2> QED BY <1>5, <2>1, <2>2, <2>3, <2>4, <2>5, <2>6, <2>8, <2>9, <2>10, <2>11 DEF Record
<1>6. CASE Fault
  <2> USE DEF Event
  <2>1. ASSUME NEW s \in Sittings, NEW phase \in {"dead", "leaving"}, Forget(s, phase)
        PROVE TypeOK'
    <3>1. excuses' \in [Actions -> Nat]
      BY <2>1, ExcuseTyped DEF Forget
    <3> QED BY <2>1, <3>1 DEF Forget, NextRow, EndPass, Phase, Answer
  <2>2. ASSUME NEW s \in Sittings, Freeze(s) PROVE TypeOK' BY <2>2 DEF Freeze
  <2> QED BY <1>6, <2>1, <2>2 DEF Fault, Crash, StatementThrows
<1>7. CASE Time
  <2>1. CASE SeatLeaseExpires BY <2>1 DEF SeatLeaseExpires
  <2>2. ASSUME NEW a \in Actions, ActionLeaseExpires(a) PROVE TypeOK'
    <3>1. row' \in [Actions -> Row] BY <2>2, RowLease, PutTyped DEF ActionLeaseExpires
    <3> QED BY <2>2, <3>1 DEF ActionLeaseExpires
  <2>3. ASSUME NEW s \in Sittings, HeartbeatSeatLease(s) PROVE TypeOK'
    BY <2>3 DEF HeartbeatSeatLease
  <2>4. ASSUME NEW s \in Sittings, Thaw(s) PROVE TypeOK' BY <2>4 DEF Thaw
  <2> QED BY <1>7, <2>1, <2>2, <2>3, <2>4 DEF Time
<1>8. CASE Reap
  <2>1. ASSUME NEW a \in Actions, ReapExpiredActionLease(a) PROVE TypeOK'
    <3>1. row' \in [Actions -> Row]
      BY <2>1, RowUnclaimed, PutTyped DEF ReapExpiredActionLease
    <3>2. excuses' \in [Actions -> Nat] /\ lost' \in SUBSET Actions
      BY <2>1, ExcuseTyped DEF ReapExpiredActionLease
    <3> QED BY <2>1, <3>1, <3>2 DEF ReapExpiredActionLease
  <2>2. ASSUME NEW s \in Sittings, ReapStaleLinkedInBatch(s) PROVE TypeOK'
    BY <2>2 DEF ReapStaleLinkedInBatch
  <2> QED BY <1>8, <2>1, <2>2 DEF Reap
<1>9. CASE Operator
  <2> USE DEF Operate, Event, Untouched, SetMember
  <2>0. ASSUME NEW which, NEW st \in {"planned", "held", "skipped"}, Turn(which, st)
        PROVE row' \in [Actions -> Row]
    <3>1. \A a \in Actions : [row[a] EXCEPT !.status = st] \in Row BY RowStatus
    <3> QED BY <2>0, <3>1 DEF Turn
  <2>1. CASE PauseSeat \/ ResumeSeat \/ StopLinkedInBatches
    <3>1. CASE StopLinkedInBatches BY <3>1 DEF StopLinkedInBatches
    <3> QED BY <2>1, <3>1 DEF PauseSeat, ResumeSeat
  <2>2. CASE PauseCampaign BY <2>0, <2>2 DEF PauseCampaign
  <2>3. CASE StartCampaign BY <2>0, <2>3 DEF StartCampaign
  <2>4. CASE StopCampaign BY <2>0, <2>4 DEF StopCampaign
  <2>5. CASE RetryFailures
    <3>1. row' \in [Actions -> Row]
      <4>1. \A a \in Actions : [Unclaimed(row[a]) EXCEPT !.status = "planned", !.failure = "none",
                                                         !.hold = FALSE] \in Row
        BY RowUnclaimed
      <4> QED BY <2>5, <4>1 DEF RetryFailures
    <3>2. excuses' \in [Actions -> Nat]
      <4>1. \A a \in Actions : excuses[a] + 1 \in Nat /\ excuses[a] \in Nat OBVIOUS
      <4> QED BY <2>5, <4>1, Zenon DEF RetryFailures
    <3>3. retrying' \in SUBSET Actions /\ lost' \in SUBSET Actions BY <2>5, Zenon DEF RetryFailures
    <3>4. events' \in Nat
      <4>1. events' = events + 1 BY <2>5, Zenon DEF RetryFailures
      <4> QED BY <4>1
    <3>5. UNCHANGED <<seatVars, memberVars, batchVars, sittingVars, dropping, done, late,
                      overtaken, frozen>>
      BY <2>5, Zenon DEF RetryFailures
    <3> QED BY <3>1, <3>2, <3>3, <3>4, <3>5
  <2>6. CASE ResumeMembers BY <2>6 DEF ResumeMembers
  <2>7. ASSUME NEW a \in Actions, OperateMember(a) PROVE TypeOK'
    <3>1. CASE PauseMember(a) BY <2>0, <3>1 DEF PauseMember
    <3>2. CASE UnpauseMember(a) BY <2>0, <3>2 DEF UnpauseMember
    <3>3. CASE EndMember(a) BY <2>0, <3>3 DEF EndMember, DropQueued
    <3>4. CASE SkipStep(a) BY <2>0, <3>4 DEF SkipStep, DropQueued
    <3>5. CASE ResumeAtStep(a) BY <2>0, <3>5 DEF ResumeAtStep, DropQueued
    <3> QED BY <2>7, <3>1, <3>2, <3>3, <3>4, <3>5 DEF OperateMember
  <2>8. ASSUME NEW a \in Actions, OperateRow(a) PROVE TypeOK'
    <3>1. CASE ResolveRetry(a)
      <4>1. row' \in [Actions -> Row]
        BY <3>1, RowUnclaimed, PutTyped DEF ResolveRetry
      <4>2. excuses' \in [Actions -> Nat] BY <3>1, ExcuseTyped DEF ResolveRetry
      <4>3. member' \in [Actions -> {"waiting", "paused", "failed", "over"}]
        BY <3>1 DEF ResolveRetry
      <4>4. UNCHANGED <<seatVars, campaign, moved, batchVars, sittingVars, requestVars, done,
                        lost, late, overtaken, frozen>> /\ events' \in Nat
        BY <3>1 DEF ResolveRetry
      <4> QED BY <4>1, <4>2, <4>3, <4>4
    <3>2. CASE ReadSkippable(a) BY <3>2 DEF ReadSkippable
    <3>3. CASE WriteSkipped(a)
      <4>1. row' \in [Actions -> Row] BY <3>3, RowStatus, PutTyped DEF WriteSkipped
      <4> QED BY <3>3, <4>1 DEF WriteSkipped
    <3>4. ASSUME NEW st \in {"sent", "skipped"}, ResolveAs(a, st) PROVE TypeOK'
      <4>1. row' \in [Actions -> Row] BY <3>4, RowUnclaimed, PutTyped DEF ResolveAs
      <4>2. moved' \in [Actions -> BOOLEAN] BY <3>4, Zenon DEF ResolveAs
      <4>3. member' \in [Actions -> {"waiting", "paused", "failed", "over"}]
        <5>1. (IF member[a] = "paused" /\ ~moved[a] THEN "waiting" ELSE member[a])
                \in {"waiting", "paused", "failed", "over"}
          OBVIOUS
        <5> QED BY <3>4, <5>1, Overwrites DEF ResolveAs
      <4>4. /\ UNCHANGED <<seatVars, campaign, batchVars, sittingVars, requestVars, historyVars,
                           frozen>>
            /\ events' \in Nat
        BY <3>4 DEF ResolveAs
      <4> QED BY <4>1, <4>2, <4>3, <4>4
    <3> QED BY <2>8, <3>1, <3>2, <3>3, <3>4 DEF OperateRow
  <2> QED BY <1>9, <2>1, <2>2, <2>3, <2>4, <2>5, <2>6, <2>7, <2>8 DEF Operator
<1> QED BY <1>0, <1>1, <1>2, <1>3, <1>4, <1>5, <1>6, <1>7, <1>8, <1>9 DEF Next, Work

(* Leases, rows, members, batches, sittings and histories keep the shapes  *)
(* of their tables.                                                        *)
THEOREM WorkerTypeCorrect == ASSUME WorkerAssumption PROVE Spec => []TypeOK
BY TypeInitial, TypeStep, PTL DEF Spec

-----------------------------------------------------------------------------
(* A sitting has a row exactly in the phases that work on one, an answer   *)
(* exactly in those that record one, and only a live one is suspended.     *)
Busy == {"check", "gate", "beat", "recheck", "act", "record", "bare", "recordBare"}
Seated(s) ==
    /\ pc[s] \in Busy <=> cur[s] # None
    /\ pc[s] \in {"record", "recordBare"} <=> answer[s] # "none"
    /\ s \in frozen => Alive(s)
SittingInv == \A s \in Sittings : Seated(s)

LEMMA SittingStep ==
  ASSUME WorkerAssumption, TypeOK, SittingInv, [Next]_workerVars
  PROVE  SittingInv'
<1> DEFINE Still == UNCHANGED <<pc, cur, answer>> /\ frozen' \subseteq frozen
<1>0. Still => SittingInv' BY DEF SittingInv, Seated, Alive
<1> USE DEF seatVars, memberVars, batchVars, passVars, sittingVars, requestVars, outsideVars,
        historyVars, Goto
<1>a. ASSUME NEW s \in Sittings, NEW phase \in Phase, pc' = [pc EXCEPT ![s] = phase],
             UNCHANGED <<cur, answer, frozen>>, s \notin frozen \/ phase \notin {"idle", "done", "dead"},
             phase \in Busy <=> pc[s] \in Busy,
             phase \in {"record", "recordBare"} <=> pc[s] \in {"record", "recordBare"}
      PROVE  SittingInv'
  BY <1>a DEF SittingInv, Seated, Alive, TypeOK
<1>b. ASSUME NEW s \in Sittings, NEW phase \in {"top", "closing", "leaving", "dead"}, NextRow(s, phase),
             frozen' = frozen \ {s} \/ (UNCHANGED frozen /\ s \notin frozen)
      PROVE  SittingInv'
  BY <1>b DEF SittingInv, Seated, Alive, TypeOK, NextRow, Busy
<1>1. CASE UNCHANGED workerVars BY <1>0, <1>1 DEF workerVars
<1>2. ASSUME NEW s \in Sittings, ClaimSeatLease(s) PROVE SittingInv'
  BY <1>2, <1>a DEF ClaimSeatLease, Busy, Phase
<1>3. ASSUME NEW s \in Sittings, Sit(s) PROVE SittingInv'
  <2>1. ASSUME NEW a \in Actions, ClaimNextDueAction(s, a) PROVE SittingInv'
    BY <2>1, <1>0
    DEF ClaimNextDueAction, At, SittingInv, Seated, Alive, TypeOK, Busy, WorkerAssumption
  <2>2. CASE CannotSit(s) BY <2>2, <1>a DEF CannotSit, At, Busy, Phase
  <2>3. CASE OpenBatch(s) BY <2>3, <1>a DEF OpenBatch, At, Busy, Phase
  <2>4. CASE CloseBatch(s) BY <2>4, <1>a DEF CloseBatch, At, Busy, Phase
  <2>5. CASE ReleaseSeatLease(s) BY <2>5, <1>a DEF ReleaseSeatLease, At, Busy, Phase
  <2>6. CASE CheckStop(s) BY <2>6, <1>a DEF CheckStop, At, Busy, Phase
  <2>7. CASE CheckPosture(s) BY <2>7, <1>a DEF CheckPosture, At, Busy, Phase
  <2>8. CASE NothingDue(s) BY <2>8, <1>a DEF NothingDue, At, Busy, Phase
  <2> QED BY <1>3, <2>1, <2>2, <2>3, <2>4, <2>5, <2>6, <2>7, <2>8 DEF Sit
<1>4. ASSUME NEW s \in Sittings, NEW a \in Actions, Prepare(s, a) PROVE SittingInv'
  <2>1. CASE PutBack(s, a) BY <2>1, <1>b DEF PutBack, Holds
  <2>2. CASE Retire(s, a) BY <2>2, <1>b DEF Retire, Holds
  <2>3. CASE CannotTell(s, a) BY <2>3, <1>b DEF CannotTell, Holds
  <2>4. CASE Pass(s, a)
    <3>1. pc[s] \in {"check", "gate", "recheck"} /\ After[pc[s]] \in {"gate", "beat", "act"}
      BY <2>4 DEF Pass, After
    <3> QED BY <2>4, <3>1, <1>a DEF Pass, Holds, Busy, Phase
  <2>5. CASE Heartbeat(s, a) BY <2>5, <1>a DEF Heartbeat, Holds, Busy, Phase
  <2> QED BY <1>4, <2>1, <2>2, <2>3, <2>4, <2>5 DEF Prepare
<1>5. ASSUME NEW s \in Sittings, NEW a \in Actions, Act(s, a) PROVE SittingInv'
  <2>1. PICK ans \in Answer \ {"none"}, n \in {0, 1} : Call(s, a, ans, n)
    BY <1>5 DEF Act, Drive, DriveBare, MayHide
  <2> QED BY <1>5, <2>1
          DEF Act, Drive, DriveBare, Call, SittingInv, Seated, Alive, TypeOK, Busy, Holds
<1>6. ASSUME NEW s \in Sittings, NEW a \in Actions, Record(s, a) PROVE SittingInv'
  <2>1. CASE DropNote(s, a)
    BY <2>1 DEF DropNote, Answered, SittingInv, Seated, Alive, TypeOK, Busy, Holds
  <2>2. \/ \E phase \in {"top", "closing"} : Recorded(s, phase) /\ s \notin frozen
        \/ DropNote(s, a)
    BY <1>6 DEF Record, RecordSent, RecordWall, RecordExisting, RecordImpossible,
      RecordSessionLost, RecordDrift, RecordQuota, RecordBareFailure, RecordUnknown, GiveUpKind,
      Answered, Holds
  <2>3. ASSUME NEW phase \in {"top", "closing"}, Recorded(s, phase), s \notin frozen
        PROVE  SittingInv'
    BY <1>b, <2>3 DEF Recorded
  <2> QED BY <2>1, <2>2, <2>3
<1>7. CASE Fault
  <2>1. ASSUME NEW s \in Sittings, NEW phase \in {"dead", "leaving"}, Forget(s, phase)
        PROVE SittingInv'
    BY <2>1, <1>b DEF Forget
  <2>2. ASSUME NEW s \in Sittings, Freeze(s) PROVE SittingInv'
    BY <2>2 DEF Freeze, Awake, SittingInv, Seated, Alive
  <2> QED BY <1>7, <2>1, <2>2 DEF Fault, Crash, StatementThrows
<1>8. CASE Time
  BY <1>0, <1>8 DEF Time, SeatLeaseExpires, ActionLeaseExpires, HeartbeatSeatLease, Thaw
<1>9. CASE Reap BY <1>0, <1>9 DEF Reap, ReapExpiredActionLease, ReapStaleLinkedInBatch
<1>10. CASE Operator
  BY <1>0, <1>10 DEF Operator, PauseSeat, ResumeSeat, StopLinkedInBatches, PauseCampaign,
    StartCampaign, StopCampaign, RetryFailures, ResumeMembers, OperateMember, OperateRow,
    PauseMember, UnpauseMember, EndMember, SkipStep, ResumeAtStep, ResolveRetry, ReadSkippable,
    WriteSkipped, ResolveAs, Operate, Untouched
<1> QED BY <1>1, <1>2, <1>3, <1>4, <1>5, <1>6, <1>7, <1>8, <1>9, <1>10 DEF Next, Work

-----------------------------------------------------------------------------
(* The seat.  A live sitting nobody has overtaken is on a seat its worker  *)
(* holds, by a lease that is at worst expired; a worker sits once.         *)
SeatInv ==
    /\ \A s \in Sittings : Alive(s) /\ s \notin overtaken =>
          seatHolder = WorkerOf[s] /\ seatLease # "released"
    /\ \A s, t \in Sittings : s # t /\ Alive(s) /\ Alive(t) => WorkerOf[s] # WorkerOf[t]

(* Who can disturb it.                                                     *)
NobodySits == \A s \in Sittings : Alive(s)' => Alive(s)
KeepsSeat == UNCHANGED <<seatHolder, seatLease, overtaken>> /\ NobodySits
LEMMA SeatMoves ==
  ASSUME WorkerAssumption, TypeOK, [Next]_workerVars
  PROVE  \/ KeepsSeat \/ SeatLeaseExpires
         \/ \E s \in Sittings : ClaimSeatLease(s) \/ ReleaseSeatLease(s) \/ HeartbeatSeatLease(s)
<1> USE DEF seatVars, memberVars, batchVars, passVars, sittingVars, requestVars, outsideVars,
        historyVars, Goto
<1>0. UNCHANGED <<seatHolder, seatLease, overtaken, pc>> => KeepsSeat
  BY DEF KeepsSeat, NobodySits, Alive
<1>a. ASSUME NEW s \in Sittings, NEW phase, pc' = [pc EXCEPT ![s] = phase], Alive(s),
             UNCHANGED <<seatHolder, seatLease, overtaken>>
      PROVE  KeepsSeat
  BY <1>a DEF KeepsSeat, NobodySits, Alive, TypeOK
<1>1. CASE UNCHANGED workerVars BY <1>0, <1>1 DEF workerVars
<1>3. ASSUME NEW s \in Sittings, Sit(s), ~ReleaseSeatLease(s) PROVE KeepsSeat
  BY <1>3, <1>a DEF Sit, CannotSit, OpenBatch, CloseBatch, CheckStop, CheckPosture, NothingDue,
    ClaimNextDueAction, At, Alive
<1>4. ASSUME NEW s \in Sittings, NEW a \in Actions, Prepare(s, a) PROVE KeepsSeat
  BY <1>4, <1>a DEF Prepare, PutBack, Refused, Retire, Retired, CannotTell, Pass, Heartbeat, GivenUp, After,
    NextRow, Holds, Alive
<1>5. ASSUME NEW s \in Sittings, NEW a \in Actions, Act(s, a) PROVE KeepsSeat
  BY <1>5, <1>a DEF Act, Drive, DriveBare, Call, Alive
<1>6. ASSUME NEW s \in Sittings, NEW a \in Actions, Record(s, a) PROVE KeepsSeat
  <2>1. CASE DropNote(s, a) BY <2>1, <1>a DEF DropNote, Answered, Alive
  <2>2. \/ Alive(s) /\ \E phase \in {"top", "closing"} : Recorded(s, phase)
        \/ DropNote(s, a)
    BY <1>6 DEF Record, RecordSent, RecordWall, RecordExisting, RecordImpossible,
      RecordSessionLost, RecordDrift, RecordQuota, RecordBareFailure, RecordUnknown, GiveUpKind,
      Answered, Alive
  <2>3. ASSUME NEW phase \in {"top", "closing"}, Recorded(s, phase), Alive(s) PROVE KeepsSeat
    BY <1>a, <2>3 DEF Recorded, NextRow
  <2> QED BY <2>1, <2>2, <2>3
<1>7. CASE Fault
  <2>1. ASSUME NEW s \in Sittings, NEW phase, Forget(s, phase) PROVE KeepsSeat
    BY <2>1, <1>a DEF Forget, NextRow
  <2> QED BY <1>0, <1>7, <2>1 DEF Fault, Crash, StatementThrows, Freeze
<1>8. CASE Time BY <1>0, <1>8 DEF Time, ActionLeaseExpires, Thaw
<1>9. CASE Reap BY <1>0, <1>9 DEF Reap, ReapExpiredActionLease, ReapStaleLinkedInBatch
<1>10. CASE Operator
  BY <1>0, <1>10 DEF Operator, PauseSeat, ResumeSeat, StopLinkedInBatches, PauseCampaign,
    StartCampaign, StopCampaign, RetryFailures, ResumeMembers, OperateMember, OperateRow,
    PauseMember, UnpauseMember, EndMember, SkipStep, ResumeAtStep, ResolveRetry, ReadSkippable,
    WriteSkipped, ResolveAs, Operate, Untouched
<1> QED BY <1>1, <1>3, <1>4, <1>5, <1>6, <1>7, <1>8, <1>9, <1>10 DEF Next, Work

LEMMA SeatStep ==
  ASSUME WorkerAssumption, TypeOK, SeatInv, [Next]_workerVars
  PROVE  SeatInv'
<1>1. CASE KeepsSeat BY <1>1 DEF KeepsSeat, NobodySits, SeatInv
<1>2. CASE SeatLeaseExpires
  BY <1>2 DEF SeatLeaseExpires, SeatInv, sittingVars, historyVars, Alive
<1>3. ASSUME NEW s \in Sittings, ClaimSeatLease(s) PROVE SeatInv'
  <2>1. \A t \in Sittings \ {s} : Alive(t)' <=> Alive(t)
    BY <1>3 DEF ClaimSeatLease, Goto, Alive, TypeOK
  <2>2. \A t \in Sittings \ {s} : Alive(t) => WorkerOf[t] # WorkerOf[s]
    BY <1>3 DEF ClaimSeatLease
  <2>3. \A t \in Sittings \ {s} : Alive(t) => t \in overtaken'
    BY <1>3, <2>2 DEF ClaimSeatLease, SeatFree, SeatInv, TypeOK
  <2>4. seatHolder' = WorkerOf[s] /\ seatLease' = "live" BY <1>3 DEF ClaimSeatLease
  <2> QED BY <2>1, <2>2, <2>3, <2>4 DEF SeatInv
<1>4. ASSUME NEW s \in Sittings, ReleaseSeatLease(s) PROVE SeatInv'
  <2>1. Alive(s) /\ ~Alive(s)' /\ UNCHANGED <<seatHolder, overtaken>>
    BY <1>4 DEF ReleaseSeatLease, At, Alive, Goto, TypeOK, historyVars
  <2>2. \A t \in Sittings \ {s} : Alive(t)' <=> Alive(t)
    BY <1>4 DEF ReleaseSeatLease, Goto, Alive, TypeOK
  <2>3. seatHolder # WorkerOf[s] => seatLease' = seatLease BY <1>4 DEF ReleaseSeatLease
  <2> QED BY <2>1, <2>2, <2>3 DEF SeatInv
<1>5. ASSUME NEW s \in Sittings, HeartbeatSeatLease(s) PROVE SeatInv'
  BY <1>5 DEF HeartbeatSeatLease, SeatInv, sittingVars, historyVars, Alive
<1> QED BY <1>1, <1>2, <1>3, <1>4, <1>5, SeatMoves

(* Two sittings on the seat: one was overtaken, its lease run out.         *)
THEOREM OneDriverOnSeat == ASSUME WorkerAssumption PROVE Spec => []OneDriverPerSeat
<1>1. Init => SeatInv BY DEF Init, SeatInv, Alive
<1>2. TypeOK /\ SeatInv /\ [Next]_workerVars => SeatInv' BY SeatStep
<1>3. SeatInv => OneDriverPerSeat BY DEF SeatInv, OneDriverPerSeat
<1> QED BY <1>1, <1>2, <1>3, WorkerTypeCorrect, PTL DEF Spec

-----------------------------------------------------------------------------
(* Parked rows.  A pause parks rows nobody has claimed, and no claim is    *)
(* made of a parked one.                                                   *)
ParkedInv == \A a \in Actions : row[a].status = "held" =>
    ~row[a].claimed /\ (campaign # "running" \/ member[a] = "paused")

LEMMA ParkedStep ==
  ASSUME WorkerAssumption, TypeOK, ParkedInv, [Next]_workerVars
  PROVE  ParkedInv'
<1>a. UNCHANGED <<row, campaign, member>> => ParkedInv' BY DEF ParkedInv
<1> USE DEF seatVars, memberVars, batchVars, passVars, sittingVars, requestVars, outsideVars,
        historyVars
<1>b. ASSUME NEW a \in Actions, \A b \in Actions \ {a} : row'[b] = row[b],
             row'[a].status = "held" => row[a].status = "held" /\ ~row'[a].claimed,
             campaign' = campaign,
             \A b \in Actions : member[b] = "paused" => member'[b] = "paused"
      PROVE  ParkedInv'
  BY <1>b DEF ParkedInv
<1>c. \A a \in Actions : row[a] \in Row BY DEF TypeOK
<1>1. CASE UNCHANGED workerVars BY <1>a, <1>1 DEF workerVars
<1>2. ASSUME NEW s \in Sittings, ClaimSeatLease(s) PROVE ParkedInv'
  BY <1>2, <1>a DEF ClaimSeatLease
<1>3. ASSUME NEW s \in Sittings, Sit(s) PROVE ParkedInv'
  <2>1. ASSUME NEW a \in Actions, ClaimNextDueAction(s, a) PROVE ParkedInv'
    BY <2>1 DEF ClaimNextDueAction, Claimable, Put, ParkedInv, TypeOK, Row
  <2> QED BY <1>3, <1>a, <2>1 DEF Sit, CannotSit, OpenBatch, CloseBatch, ReleaseSeatLease,
             CheckStop, CheckPosture, NothingDue
<1>d. ASSUME NEW a \in Actions, NEW f, ReleaseClaim(a, f) \/ SettleSkipped(a, f),
             campaign' = campaign,
             \A b \in Actions : member[b] = "paused" => member'[b] = "paused"
      PROVE  ParkedInv'
  <2>1. \A b \in Actions \ {a} : row'[b] = row[b]
    BY <1>d DEF ReleaseClaim, SettleSkipped, Put, TypeOK
  <2>2. row'[a].status = "held" => row[a].status = "held" /\ ~row'[a].claimed
    <3>1. CASE ReleaseClaim(a, f)
      BY <1>c, <3>1 DEF ReleaseClaim, Unclaimed, Put, TypeOK, Row
    <3>2. CASE SettleSkipped(a, f)
      BY <1>c, <3>2 DEF SettleSkipped, Unclaimed, Put, TypeOK, Row
    <3> QED BY <1>d, <3>1, <3>2
  <2> QED BY <1>b, <1>d, <2>1, <2>2
<1>4. ASSUME NEW s \in Sittings, NEW a \in Actions, Prepare(s, a) PROVE ParkedInv'
  <2>1. CASE Retire(s, a)
    BY <2>1, <1>c DEF Retire, SettleBranchSkipped, Advance, Put, ParkedInv, TypeOK, Row
  <2>2. CASE Heartbeat(s, a)
    <3>1. row' = row \/ row' = [row EXCEPT ![a] = [row[a] EXCEPT !.lease = "live"]]
      BY <2>2 DEF Heartbeat, Put
    <3>2. UNCHANGED <<campaign, member>> BY <2>2 DEF Heartbeat
    <3>3. ASSUME NEW b \in Actions
          PROVE  row'[b].status = row[b].status /\ row'[b].claimed = row[b].claimed
      <4>1. row'[b] = row[b] \/ row'[b] = [row[b] EXCEPT !.lease = "live"] BY <3>1 DEF TypeOK
      <4>2. row[b] \in Row BY <1>c
      <4> QED BY <4>1, <4>2 DEF Row
    <3> QED BY <3>2, <3>3 DEF ParkedInv
  <2> QED BY <1>4, <1>a, <1>d, <2>1, <2>2 DEF Prepare, PutBack, CannotTell, Pass
<1>5. ASSUME NEW s \in Sittings, NEW a \in Actions, Act(s, a) PROVE ParkedInv'
  BY <1>5, <1>a DEF Act, Drive, DriveBare
<1>6. ASSUME NEW s \in Sittings, NEW a \in Actions, Record(s, a) PROVE ParkedInv'
  <2>1. CASE RecordSent(s, a)
    BY <2>1, <1>c DEF RecordSent, SettleSent, Advance, Put, ParkedInv, TypeOK, Row
  <2>2. CASE RecordExisting(s, a)
    <3>1. PICK as \in {"accepted", "sent"} : SettleExistingInvite(a, as)
      BY <2>2 DEF RecordExisting
    <3>2. UNCHANGED <<campaign, member>> BY <2>2 DEF RecordExisting, Advance
    <3>3. \A b \in Actions \ {a} : row'[b] = row[b]
      BY <3>1 DEF SettleExistingInvite, Put, TypeOK
    <3>4. row'[a].status = as BY <3>1, <1>c DEF SettleExistingInvite, Put, TypeOK, Row
    <3> QED BY <3>1, <3>2, <3>3, <3>4, <1>b
  <2>3. CASE RecordImpossible(s, a)
    <3>1. \E f \in {"retryable", "other"} : SettleSkipped(a, f) BY <2>3 DEF RecordImpossible
    <3>2. campaign' = campaign BY <2>3 DEF RecordImpossible
    <3>3. \A b \in Actions : member[b] = "paused" => member'[b] = "paused"
      BY <2>3 DEF RecordImpossible, TypeOK
    <3> QED BY <1>d, <3>1, <3>2, <3>3
  <2>4. CASE RecordUnknown(s, a)
    BY <2>4, <1>c DEF RecordUnknown, HoldClaim, Put, ParkedInv, TypeOK, Row
  <2> QED BY <1>6, <1>a, <1>d, <2>1, <2>2, <2>3, <2>4 DEF Record, RecordWall, RecordSessionLost,
             RecordDrift, RecordQuota, DropNote, RecordBareFailure, GiveUpKind
<1>7. CASE Fault BY <1>7, <1>a DEF Fault, Crash, StatementThrows, Freeze, Forget
<1>8. CASE Time
  <2>1. ASSUME NEW a \in Actions, ActionLeaseExpires(a) PROVE ParkedInv'
    BY <2>1, <1>c DEF ActionLeaseExpires, Put, ParkedInv, TypeOK, Row
  <2> QED BY <1>8, <1>a, <2>1 DEF Time, SeatLeaseExpires, HeartbeatSeatLease, Thaw
<1>9. CASE Reap
  <2>1. ASSUME NEW a \in Actions, ReapExpiredActionLease(a) PROVE ParkedInv'
    BY <2>1, <1>c DEF ReapExpiredActionLease, Unclaimed, Put, ParkedInv, TypeOK, Row
  <2> QED BY <1>9, <1>a, <2>1 DEF Reap, ReapStaleLinkedInBatch
<1>10. CASE Operator
  <2> USE DEF Turn, Queued, ParkedInv, TypeOK, Row, SetMember
  <2>1. CASE PauseCampaign BY <2>1 DEF PauseCampaign
  <2>2. CASE StartCampaign BY <2>2 DEF StartCampaign, HandedBack
  <2>3. CASE StopCampaign 
    <3>1. \A a \in Actions : row[a].status = "held" => Queued(a, {"planned", "held"})
      OBVIOUS
    <3>2. ASSUME NEW a \in Actions PROVE row'[a].status # "held"
      <4>1. CASE Queued(a, {"planned", "held"})
        <5>1. row'[a] = [row[a] EXCEPT !.status = "skipped"] BY <2>3, <4>1 DEF StopCampaign
        <5> QED BY <1>c, <5>1
      <4>2. CASE ~Queued(a, {"planned", "held"})
        <5>1. row'[a] = row[a] BY <2>3, <4>2 DEF StopCampaign
        <5> QED BY <3>1, <4>2, <5>1
      <4> QED BY <4>1, <4>2
    <3> QED BY <3>2
  <2>4. CASE RetryFailures
    <3>1. ASSUME NEW a \in Actions, row'[a].status = "held" PROVE row'[a] = row[a]
      <4>1. CASE Retryable(a)
        <5>1. row'[a] = [Unclaimed(row[a]) EXCEPT !.status = "planned", !.failure = "none",
                                                  !.hold = FALSE]
          BY <2>4, <4>1 DEF RetryFailures
        <5>2. row[a] \in Row BY <1>c
        <5>3. row'[a].status = "planned" BY <5>1, <5>2 DEF Unclaimed
        <5> QED BY <3>1, <5>3
      <4>2. CASE ~Retryable(a) BY <2>4, <4>2 DEF RetryFailures
      <4> QED BY <4>1, <4>2
    <3>2. UNCHANGED <<campaign, member>> BY <2>4 DEF RetryFailures
    <3> QED BY <3>1, <3>2
  <2>5. CASE ResumeMembers BY <2>5 DEF ResumeMembers
  <2>6. ASSUME NEW a \in Actions, OperateMember(a) PROVE ParkedInv'
    <3>1. CASE PauseMember(a) BY <3>1 DEF PauseMember
    <3>2. CASE UnpauseMember(a) BY <3>2 DEF UnpauseMember
    <3>3. CASE EndMember(a) BY <3>3 DEF EndMember, DropQueued
    <3>4. CASE SkipStep(a) BY <3>4 DEF SkipStep, DropQueued
    <3>5. CASE ResumeAtStep(a) BY <3>5 DEF ResumeAtStep, DropQueued
    <3> QED BY <2>6, <3>1, <3>2, <3>3, <3>4, <3>5 DEF OperateMember
  <2>7. ASSUME NEW a \in Actions, OperateRow(a) PROVE ParkedInv'
    <3>1. CASE ResolveRetry(a) BY <3>1 DEF ResolveRetry, Put, Unclaimed
    <3>2. CASE WriteSkipped(a) BY <3>2 DEF WriteSkipped, Put
    <3>3. ASSUME NEW st \in {"sent", "skipped"}, ResolveAs(a, st) PROVE ParkedInv'
      BY <3>3 DEF ResolveAs, Put, Unclaimed, Untouched
    <3> QED BY <2>7, <1>a, <3>1, <3>2, <3>3 DEF OperateRow, ReadSkippable
  <2> QED BY <1>10, <1>a, <2>1, <2>2, <2>3, <2>4, <2>5, <2>6, <2>7 DEF Operator, PauseSeat,
             ResumeSeat, StopLinkedInBatches
<1> QED BY <1>1, <1>2, <1>3, <1>4, <1>5, <1>6, <1>7, <1>8, <1>9, <1>10 DEF Next, Work

(* No row stays parked once nothing is paused.                             *)
THEOREM ParkedAlwaysPaused == ASSUME WorkerAssumption PROVE Spec => []ParkedHasAPause
<1>1. Init => ParkedInv BY DEF Init, ParkedInv
<1>2. TypeOK /\ ParkedInv /\ [Next]_workerVars => ParkedInv' BY ParkedStep
<1>3. ParkedInv => ParkedHasAPause BY DEF ParkedInv, ParkedHasAPause
<1> QED BY <1>1, <1>2, <1>3, WorkerTypeCorrect, PTL DEF Spec

-----------------------------------------------------------------------------
(* Rows on hold.  Unless its claim was taken, a row on hold is claimed, and*)
(* a row some sitting works on is claimed for it and not on hold.          *)
HoldInv == \A a \in Actions :
    /\ row[a].hold /\ ~row[a].claimed => a \in lost
    /\ \A s \in Sittings : cur[s] = a /\ a \notin lost =>
          row[a].claimed /\ row[a].batch = s /\ ~row[a].hold

LEMMA HoldStep ==
  ASSUME WorkerAssumption, TypeOK, SittingInv, HoldInv, [Next]_workerVars
  PROVE  HoldInv'
<1> USE DEF seatVars, memberVars, batchVars, passVars, sittingVars, requestVars, outsideVars,
        historyVars
<1>a. ASSUME UNCHANGED <<row, lost>>, \A s \in Sittings : cur'[s] \in {cur[s], None}
      PROVE  HoldInv'
  BY <1>a DEF HoldInv, WorkerAssumption
<1>b. ASSUME NEW s \in Sittings, NEW a \in Actions, cur[s] = a, cur' = [cur EXCEPT ![s] = None],
             \A b \in Actions \ {a} : row'[b] = row[b], lost' = lost,
             row'[a].hold = row[a].hold \/ row'[a].claimed = row[a].claimed
      PROVE  HoldInv'
  <2>1. ASSUME NEW b \in Actions \ {a} PROVE /\ row'[b].hold /\ ~row'[b].claimed => b \in lost
                                            /\ \A t \in Sittings : cur'[t] = b /\ b \notin lost =>
                                                 row'[b].claimed /\ row'[b].batch = t /\ ~row'[b].hold
    BY <1>b DEF HoldInv, TypeOK, WorkerAssumption
  <2>2. a \notin lost => /\ row[a].claimed /\ ~row[a].hold
                         /\ \A t \in Sittings \ {s} : cur[t] # a
    BY <1>b DEF HoldInv
  <2>3. row'[a].hold /\ ~row'[a].claimed => a \in lost BY <1>b, <2>2
  <2>4. \A t \in Sittings : a \notin lost => cur'[t] # a
    BY <1>b, <2>2 DEF TypeOK, WorkerAssumption
  <2> QED BY <1>b, <2>1, <2>3, <2>4 DEF HoldInv
<1>c. ASSUME \A b \in Actions : /\ row'[b].hold = row[b].hold /\ row'[b].batch = row[b].batch
                                /\ row'[b].claimed = row[b].claimed,
             UNCHANGED <<cur, lost>>
      PROVE  HoldInv'
  BY <1>c DEF HoldInv
<1>d. \A a \in Actions : row[a] \in Row BY DEF TypeOK
<1>e. ASSUME NEW s \in Sittings, NEW a \in Actions, cur[s] = a, lost' = lost,
             cur' = [cur EXCEPT ![s] = None], NEW f, ReleaseClaim(a, f) \/ SettleSkipped(a, f)
      PROVE  HoldInv'
  <2>1. \A b \in Actions \ {a} : row'[b] = row[b]
    BY <1>e DEF ReleaseClaim, SettleSkipped, Put, TypeOK
  <2>2. \/ row'[a] = [Unclaimed(row[a]) EXCEPT !.failure = f]
        \/ row'[a] = [Unclaimed(row[a]) EXCEPT !.status = "skipped", !.failure = f]
    BY <1>e DEF ReleaseClaim, SettleSkipped, Put, TypeOK
  <2>3. row'[a].hold = row[a].hold BY <1>d, <2>2 DEF Unclaimed, Row
  <2> QED BY <1>b, <1>e, <2>1, <2>3
<1>1. CASE UNCHANGED workerVars BY <1>a, <1>1 DEF workerVars
<1>2. ASSUME NEW s \in Sittings, ClaimSeatLease(s) PROVE HoldInv'
  BY <1>2, <1>a DEF ClaimSeatLease
<1>3. ASSUME NEW s \in Sittings, Sit(s) PROVE HoldInv'
  <2>1. ASSUME NEW a \in Actions, ClaimNextDueAction(s, a) PROVE HoldInv'
    <3>1. \A b \in Actions \ {a} : row'[b] = row[b]
      BY <2>1 DEF ClaimNextDueAction, Put, TypeOK
    <3>2. row'[a].claimed /\ row'[a].batch = s /\ row'[a].hold = row[a].hold
      BY <2>1, <1>d DEF ClaimNextDueAction, Put, TypeOK, Row
    <3>3. ~row[a].claimed /\ lost' = lost /\ cur' = [cur EXCEPT ![s] = a]
      BY <2>1 DEF ClaimNextDueAction, Claimable
    <3>4. a \notin lost => ~row[a].hold /\ \A t \in Sittings : cur[t] # a
      BY <3>3 DEF HoldInv
    <3> QED BY <3>1, <3>2, <3>3, <3>4 DEF HoldInv, TypeOK
  <2> QED BY <1>3, <1>a, <2>1 DEF Sit, CannotSit, OpenBatch, CloseBatch, ReleaseSeatLease,
             CheckStop, CheckPosture, NothingDue
<1>4. ASSUME NEW s \in Sittings, NEW a \in Actions, Prepare(s, a) PROVE HoldInv'
  <2>1. CASE Retire(s, a)
    <3>1. /\ \A b \in Actions \ {a} : row'[b] = row[b]
          /\ row'[a].hold = row[a].hold
      BY <2>1, <1>d DEF Retire, SettleBranchSkipped, Put, TypeOK, Row
    <3> QED BY <1>b, <2>1, <3>1 DEF Retire, Holds, NextRow
  <2>2. CASE Heartbeat(s, a)
    <3>1. ASSUME NEW b \in Actions
          PROVE  /\ row'[b].hold = row[b].hold /\ row'[b].batch = row[b].batch
                 /\ row'[b].claimed = row[b].claimed
      <4>1. row'[b] = row[b] \/ row'[b] = [row[b] EXCEPT !.lease = "live"]
        BY <2>2 DEF Heartbeat, Put, TypeOK
      <4> QED BY <4>1, <1>d DEF Row
    <3> QED BY <1>c, <2>2, <3>1 DEF Heartbeat
  <2> QED BY <1>4, <1>a, <1>e, <2>1, <2>2 DEF Prepare, PutBack, CannotTell, Pass, Holds, NextRow
<1>5. ASSUME NEW s \in Sittings, NEW a \in Actions, Act(s, a) PROVE HoldInv'
  BY <1>5, <1>a DEF Act, Drive, DriveBare
<1>6. ASSUME NEW s \in Sittings, NEW a \in Actions, Record(s, a) PROVE HoldInv'
  <2>0. CASE DropNote(s, a) BY <2>0, <1>a DEF DropNote
  <2>a. ~DropNote(s, a) => cur[s] = a /\ cur' = [cur EXCEPT ![s] = None] /\ lost' = lost
    BY <1>6 DEF Record, RecordSent, RecordWall, RecordExisting, RecordImpossible,
      RecordSessionLost, RecordDrift, RecordQuota, RecordBareFailure, RecordUnknown, GiveUpKind,
      Answered, Holds, Recorded, NextRow
  <2> SUFFICES ASSUME ~DropNote(s, a) PROVE HoldInv' BY <2>0
  <2>1. CASE RecordSent(s, a)
    <3>1. /\ \A b \in Actions \ {a} : row'[b] = row[b]
          /\ row'[a].hold = row[a].hold
      BY <2>1, <1>d DEF RecordSent, SettleSent, Put, TypeOK, Row
    <3> QED BY <1>b, <2>a, <3>1
  <2>2. CASE RecordExisting(s, a)
    <3>1. PICK as \in {"accepted", "sent"} : SettleExistingInvite(a, as)
      BY <2>2 DEF RecordExisting
    <3>2. /\ \A b \in Actions \ {a} : row'[b] = row[b]
          /\ row'[a].hold = row[a].hold
      BY <3>1, <1>d DEF SettleExistingInvite, Put, TypeOK, Row
    <3> QED BY <1>b, <2>a, <3>2
  <2>3. CASE RecordUnknown(s, a)
    <3>1. /\ \A b \in Actions \ {a} : row'[b] = row[b]
          /\ row'[a].claimed = row[a].claimed
      BY <2>3, <1>d DEF RecordUnknown, HoldClaim, Put, TypeOK, Row
    <3> QED BY <1>b, <2>a, <3>1
  <2> QED BY <1>6, <1>e, <2>a, <2>1, <2>2, <2>3 DEF Record, RecordWall, RecordSessionLost,
             RecordImpossible, RecordDrift, RecordQuota, RecordBareFailure, GiveUpKind
<1>7. CASE Fault
  <2>1. ASSUME NEW s \in Sittings, NEW phase, Forget(s, phase) PROVE HoldInv'
    BY <1>a, <2>1 DEF Forget, NextRow, TypeOK
  <2> QED BY <1>7, <1>a, <2>1 DEF Fault, Crash, StatementThrows, Freeze
<1>8. CASE Time
  <2>1. ASSUME NEW a \in Actions, ActionLeaseExpires(a) PROVE HoldInv'
    BY <2>1, <1>c, <1>d DEF ActionLeaseExpires, Put, TypeOK, Row
  <2> QED BY <1>8, <1>a, <2>1 DEF Time, SeatLeaseExpires, HeartbeatSeatLease, Thaw
<1>9. CASE Reap
  <2>1. ASSUME NEW a \in Actions, ReapExpiredActionLease(a) PROVE HoldInv'
    <3>1. /\ \A b \in Actions \ {a} : row'[b] = row[b]
          /\ row'[a].hold = row[a].hold
      BY <2>1, <1>d DEF ReapExpiredActionLease, Unclaimed, Put, TypeOK, Row
    <3>2. ~row[a].hold /\ lost \subseteq lost' /\ cur' = cur
      BY <2>1 DEF ReapExpiredActionLease, Reapable
    <3>3. \A s \in Sittings : cur[s] = a /\ a \notin lost => Drives(s, a)
      BY DEF HoldInv, SittingInv, Seated, Drives, Alive, Busy, WorkerAssumption
    <3>4. a \notin lost' => \A s \in Sittings : cur[s] # a
      BY <2>1, <3>3 DEF ReapExpiredActionLease
    <3> QED BY <3>1, <3>2, <3>4 DEF HoldInv
  <2> QED BY <1>9, <1>a, <2>1 DEF Reap, ReapStaleLinkedInBatch
<1>10. CASE Operator
  <2> USE DEF Operate, Untouched, SetMember
  <2>0. ASSUME NEW which, NEW st, Turn(which, st), UNCHANGED <<cur, lost>> PROVE HoldInv'
    BY <2>0, <1>c, <1>d DEF Turn, Row
  <2>1. CASE PauseCampaign BY <2>0, <2>1 DEF PauseCampaign
  <2>2. CASE StartCampaign BY <2>0, <2>2 DEF StartCampaign
  <2>3. CASE StopCampaign BY <2>0, <2>3 DEF StopCampaign
  <2>4. CASE RetryFailures
    <3>1. /\ cur' = cur /\ lost \subseteq lost'
          /\ \A a \in Actions : Retryable(a) /\ row[a].claimed => a \in lost'
      BY <2>4 DEF RetryFailures
    <3>2. ASSUME NEW a \in Actions, Retryable(a)
          PROVE  ~row'[a].hold /\ (a \notin lost' => \A s \in Sittings : cur[s] # a)
      <4>1. row'[a] = [Unclaimed(row[a]) EXCEPT !.status = "planned", !.failure = "none",
                                                !.hold = FALSE]
        BY <2>4, <3>2 DEF RetryFailures
      <4>2. ~row'[a].hold BY <4>1, <1>d DEF Unclaimed, Row
      <4>3. a \notin lost' => ~row[a].claimed BY <3>1, <3>2
      <4> QED BY <3>1, <4>2, <4>3 DEF HoldInv
    <3>3. \A a \in Actions : ~Retryable(a) => row'[a] = row[a] BY <2>4 DEF RetryFailures
    <3> QED BY <3>1, <3>2, <3>3 DEF HoldInv
  <2>5. ASSUME NEW a \in Actions, OperateMember(a) PROVE HoldInv'
    BY <2>0, <2>5 DEF OperateMember, PauseMember, UnpauseMember, EndMember, SkipStep, ResumeAtStep,
      DropQueued
  <2>6. ASSUME NEW a \in Actions, OperateRow(a) PROVE HoldInv'
    <3>1. ASSUME row[a].hold, UNCHANGED <<cur, lost>>, ~row'[a].hold,
                 \A b \in Actions \ {a} : row'[b] = row[b]
          PROVE  HoldInv'
      BY <3>1 DEF HoldInv
    <3>2. CASE ResolveRetry(a)
      <4>1. ~row'[a].hold /\ \A b \in Actions \ {a} : row'[b] = row[b]
        BY <3>2, <1>d DEF ResolveRetry, Unclaimed, Put, TypeOK, Row
      <4> QED BY <3>1, <3>2, <4>1 DEF ResolveRetry
    <3>3. ASSUME NEW st \in {"sent", "skipped"}, ResolveAs(a, st) PROVE HoldInv'
      <4>1. ~row'[a].hold /\ \A b \in Actions \ {a} : row'[b] = row[b]
        BY <3>3, <1>d DEF ResolveAs, Unclaimed, Put, TypeOK, Row
      <4> QED BY <3>1, <3>3, <4>1 DEF ResolveAs
    <3>4. CASE WriteSkipped(a)
      BY <3>4, <1>c, <1>d DEF WriteSkipped, Put, TypeOK, Row
    <3> QED BY <2>6, <1>a, <3>2, <3>3, <3>4 DEF OperateRow, ReadSkippable
  <2> QED BY <1>10, <1>a, <2>1, <2>2, <2>3, <2>4, <2>5, <2>6 DEF Operator, PauseSeat,
             ResumeSeat, StopLinkedInBatches, ResumeMembers
<1> QED BY <1>1, <1>2, <1>3, <1>4, <1>5, <1>6, <1>7, <1>8, <1>9, <1>10 DEF Next, Work

(* A held row no pass can claim: it waits for a human.                     *)
THEOREM HeldAlwaysWaits == ASSUME WorkerAssumption PROVE Spec => []HeldWaitsForHuman
<1>1. Init => SittingInv /\ HoldInv
  BY DEF Init, SittingInv, Seated, HoldInv, Busy, WorkerAssumption
<1>2. TypeOK /\ SittingInv /\ HoldInv /\ [Next]_workerVars => SittingInv' /\ HoldInv'
  BY SittingStep, HoldStep
<1>3. HoldInv => HeldWaitsForHuman BY DEF HoldInv, HeldWaitsForHuman
<1> QED BY <1>1, <1>2, <1>3, WorkerTypeCorrect, PTL DEF Spec

-----------------------------------------------------------------------------
(* After the stop.  A sitting that acted once its batch was stopped or     *)
(* written off goes on to record what it did, to the check of the stop, or *)
(* out; it does not come back to a driver.                                 *)
LateInv == \A s \in Sittings :
    /\ late[s] \in {0, 1}
    /\ late[s] = 1 => /\ Stopped(s)
                      /\ pc[s] \in {"top", "record", "recordBare", "closing", "leaving", "done", "dead"}
                      /\ pc[s] \in {"record", "recordBare"} => answer[s] \in {"sent", "unknown"}

LEMMA LateStep ==
  ASSUME WorkerAssumption, TypeOK, LateInv, [Next]_workerVars
  PROVE  LateInv'
<1> USE DEF seatVars, memberVars, batchVars, passVars, sittingVars, requestVars, outsideVars,
        historyVars, Goto
<1>a. ASSUME UNCHANGED <<pc, answer, late>>, \A s \in Sittings : Stopped(s) => Stopped(s)'
      PROVE  LateInv'
  BY <1>a DEF LateInv
<1>b. ASSUME NEW s \in Sittings, NEW phase, pc' = [pc EXCEPT ![s] = phase], late' = late,
             UNCHANGED batchVars, \A t \in Sittings \ {s} : answer'[t] = answer[t],
             late[s] = 1 => phase \in {"top", "closing", "leaving", "done", "dead"}
      PROVE  LateInv'
  BY <1>b DEF LateInv, Stopped, TypeOK
<1>1. CASE UNCHANGED workerVars BY <1>a, <1>1 DEF workerVars, Stopped
<1>2. ASSUME NEW s \in Sittings, ClaimSeatLease(s) PROVE LateInv'
  BY <1>2, <1>b DEF ClaimSeatLease, LateInv
<1>3. ASSUME NEW s \in Sittings, Sit(s) PROVE LateInv'
  <2>1. CASE OpenBatch(s)
    <3>1. late[s] = 0 BY <2>1 DEF OpenBatch, At, LateInv
    <3> QED BY <2>1, <3>1 DEF OpenBatch, LateInv, Stopped, TypeOK
  <2>2. CASE CloseBatch(s)
    BY <2>2 DEF CloseBatch, At, LateInv, Stopped, TypeOK
  <2>3. CASE CheckStop(s) BY <2>3, <1>b DEF CheckStop, At, LateInv, StopRequested
  <2>4. CASE CheckPosture(s) BY <2>4, <1>b DEF CheckPosture, At, LateInv
  <2>5. CASE CannotSit(s) BY <2>5, <1>b DEF CannotSit
  <2>6. CASE NothingDue(s) BY <2>6, <1>b DEF NothingDue
  <2>7. CASE ReleaseSeatLease(s) BY <2>7, <1>b DEF ReleaseSeatLease
  <2>8. ASSUME NEW a \in Actions, ClaimNextDueAction(s, a) PROVE LateInv'
    BY <2>8, <1>b DEF ClaimNextDueAction, At, LateInv
  <2> QED BY <1>3, <2>1, <2>2, <2>3, <2>4, <2>5, <2>6, <2>7, <2>8 DEF Sit
<1>4. ASSUME NEW s \in Sittings, NEW a \in Actions, Prepare(s, a) PROVE LateInv'
  <2>1. CASE Pass(s, a) BY <2>1, <1>b DEF Pass, After, LateInv
  <2>2. CASE Heartbeat(s, a) BY <2>2, <1>b DEF Heartbeat, LateInv
  <2>3. CASE PutBack(s, a) BY <2>3, <1>b DEF PutBack, NextRow, TypeOK
  <2>4. CASE Retire(s, a) BY <2>4, <1>b DEF Retire, NextRow, TypeOK
  <2>5. CASE CannotTell(s, a) BY <2>5, <1>b DEF CannotTell, NextRow, TypeOK
  <2> QED BY <1>4, <2>1, <2>2, <2>3, <2>4, <2>5 DEF Prepare
<1>5. ASSUME NEW s \in Sittings, NEW a \in Actions, Act(s, a) PROVE LateInv'
  <2>1. late[s] = 0 BY <1>5 DEF Act, Drive, DriveBare, LateInv
  <2>2. PICK ans \in Answer, n \in {0, 1} :
          Call(s, a, ans, n) /\ (n = 1 => ans \in {"sent", "unknown"})
    BY <1>5 DEF Act, Drive, DriveBare, MayHide
  <2>3. /\ late'[s] \in {0, 1} /\ (late'[s] = 1 => n = 1 /\ Stopped(s))
        /\ \A t \in Sittings \ {s} : late'[t] = late[t] /\ answer'[t] = answer[t]
        /\ answer'[s] = ans
    BY <2>1, <2>2 DEF Call, TypeOK
  <2>4. /\ pc'[s] \in {"record", "recordBare"} /\ \A t \in Sittings \ {s} : pc'[t] = pc[t]
        /\ UNCHANGED batchVars
    BY <1>5 DEF Act, Drive, DriveBare, TypeOK
  <2> QED BY <2>2, <2>3, <2>4 DEF LateInv, Stopped
<1>6. ASSUME NEW s \in Sittings, NEW a \in Actions, Record(s, a) PROVE LateInv'
  <2>1. CASE DropNote(s, a)
    <3>1. late[s] # 1 BY <2>1 DEF DropNote, Answered, LateInv
    <3> QED BY <2>1, <3>1, <1>b DEF DropNote, TypeOK
  <2>2. \/ \E phase \in {"top", "closing"} : Recorded(s, phase)
        \/ DropNote(s, a)
    BY <1>6 DEF Record, RecordSent, RecordWall, RecordExisting, RecordImpossible,
      RecordSessionLost, RecordDrift, RecordQuota, RecordBareFailure, RecordUnknown, GiveUpKind
  <2>3. ASSUME NEW phase \in {"top", "closing"}, Recorded(s, phase) PROVE LateInv'
    BY <1>b, <2>3 DEF Recorded, NextRow, TypeOK
  <2> QED BY <2>1, <2>2, <2>3
<1>7. CASE Fault
  <2>1. ASSUME NEW s \in Sittings, NEW phase \in {"dead", "leaving"}, Forget(s, phase)
        PROVE  LateInv'
    BY <1>b, <2>1 DEF Forget, NextRow, TypeOK
  <2> QED BY <1>7, <1>a, <2>1 DEF Fault, Crash, StatementThrows, Freeze, Stopped
<1>8. CASE Time
  BY <1>8, <1>a DEF Time, SeatLeaseExpires, ActionLeaseExpires, HeartbeatSeatLease, Thaw, Stopped
<1>9. CASE Reap
  <2>1. ASSUME NEW s \in Sittings, ReapStaleLinkedInBatch(s) PROVE LateInv'
    <3>1. \A t \in Sittings : Stopped(t) => Stopped(t)'
      BY <2>1 DEF ReapStaleLinkedInBatch, Stopped, TypeOK
    <3> QED BY <1>a, <2>1, <3>1 DEF ReapStaleLinkedInBatch
  <2> QED BY <1>9, <1>a, <2>1 DEF Reap, ReapExpiredActionLease, Stopped
<1>10. CASE Operator
  <2>1. CASE StopLinkedInBatches
    <3>1. \A t \in Sittings : Stopped(t) => Stopped(t)'
      BY <2>1 DEF StopLinkedInBatches, Stopped
    <3> QED BY <1>a, <2>1, <3>1 DEF StopLinkedInBatches
  <2> QED BY <1>a, <1>10, <2>1 DEF Operator, PauseSeat, ResumeSeat, PauseCampaign,
    StartCampaign, StopCampaign, RetryFailures, ResumeMembers, OperateMember, OperateRow,
    PauseMember, UnpauseMember, EndMember, SkipStep, ResumeAtStep, ResolveRetry, ReadSkippable,
    WriteSkipped, ResolveAs, Operate, Untouched, Stopped
<1> QED BY <1>1, <1>2, <1>3, <1>4, <1>5, <1>6, <1>7, <1>8, <1>9, <1>10 DEF Next, Work

(* The kill switch: one more effect of a sitting, at most.                 *)
THEOREM LateActsAlwaysBounded == ASSUME WorkerAssumption PROVE Spec => []LateActsBounded
<1>1. Init => LateInv BY DEF Init, LateInv
<1>2. TypeOK /\ LateInv /\ [Next]_workerVars => LateInv' BY LateStep
<1>3. LateInv => LateActsBounded BY DEF LateInv, LateActsBounded
<1> QED BY <1>1, <1>2, <1>3, WorkerTypeCorrect, PTL DEF Spec

-----------------------------------------------------------------------------
(* What LinkedIn sees.  The right to act on a row is a token: the sitting  *)
(* that works on the row has one until it acts, and so has the row itself  *)
(* while it can be claimed again or its claim is nobody's and can be       *)
(* reaped.  Effects and tokens together never exceed one and the excuses.  *)
Token(s, a) == cur[s] = a /\ (pc[s] \in {"record", "recordBare"} => answer[s] \in Definite)
Tokens(a) == {s \in Sittings : Token(s, a)}
Loose(a) ==
    IF row[a].claimed
    THEN row[a].status = "planned" /\ ~row[a].hold /\ \A s \in Sittings : ~Drives(s, a)
    ELSE row[a].status \in {"planned", "held"} \/ row[a].failure = "retryable"
Spare(a) == IF Loose(a) THEN 1 ELSE 0
ActInv == \A a \in Actions : done[a] + Cardinality(Tokens(a)) + Spare(a) <= 1 + excuses[a]

(* How a step may move the tokens of a row.                                *)
Same(a) == \A s \in Sittings : Token(s, a)' => Token(s, a)
Quiet(a) ==
    /\ Same(a) /\ (Loose(a)' => Loose(a))
    /\ done'[a] = done[a] /\ excuses'[a] = excuses[a]
Excused(a) == Same(a) /\ done'[a] = done[a] /\ excuses'[a] = excuses[a] + 1
Returns(a, s) ==
    /\ Token(s, a) /\ ~Token(s, a)' /\ Same(a)
    /\ done'[a] = done[a] /\ excuses'[a] = excuses[a]
Acts(a, s) ==
    /\ Token(s, a) /\ ~Token(s, a)' /\ Same(a) /\ (Loose(a)' => Loose(a))
    /\ done'[a] = done[a] + 1 /\ excuses'[a] = excuses[a]
Claims(a, s) ==
    /\ \A t \in Sittings : Token(t, a)' => Token(t, a) \/ t = s
    /\ Loose(a) /\ ~Loose(a)' /\ done'[a] = done[a] /\ excuses'[a] = excuses[a]
Moves(a) ==
    \/ Quiet(a) \/ Excused(a)
    \/ \E s \in Sittings : Returns(a, s) \/ Acts(a, s) \/ Claims(a, s)

LEMMA TokensStep ==
  ASSUME WorkerAssumption, TypeOK, TypeOK', ActInv, \A a \in Actions : Moves(a)
  PROVE  ActInv'
<1> SUFFICES ASSUME NEW a \in Actions
             PROVE  done'[a] + Cardinality(Tokens(a)') + Spare(a)' <= 1 + excuses'[a]
  BY DEF ActInv
<1> DEFINE S == Tokens(a)  T == Tokens(a)'
<1> HIDE DEF S, T
<1>1. /\ done[a] \in Nat /\ excuses[a] \in Nat /\ done'[a] \in Nat /\ excuses'[a] \in Nat
      /\ Spare(a) \in {0, 1} /\ Spare(a)' \in {0, 1}
  BY DEF TypeOK, Spare
<1>2. /\ IsFiniteSet(S) /\ IsFiniteSet(T) /\ S \subseteq Sittings /\ T \subseteq Sittings
      /\ Cardinality(S) \in Nat /\ Cardinality(T) \in Nat
  <2>1. S \subseteq Sittings /\ T \subseteq Sittings BY DEF S, T, Tokens
  <2> QED BY <2>1, FS_Subset, FS_CardinalityType DEF WorkerAssumption
<1>3. done[a] + Cardinality(S) + Spare(a) <= 1 + excuses[a] BY DEF ActInv, S
<1>4. Same(a) => Cardinality(T) <= Cardinality(S)
  <2>1. Same(a) => T \subseteq S BY DEF Same, S, T, Tokens
  <2> QED BY <1>2, <2>1, FS_Subset
<1>5. ASSUME NEW s \in Sittings, Token(s, a), ~Token(s, a)', Same(a)
      PROVE  Cardinality(T) <= Cardinality(S) - 1
  <2>1. s \in S /\ T \subseteq S \ {s} BY <1>5 DEF Same, S, T, Tokens
  <2>2. IsFiniteSet(S \ {s}) /\ Cardinality(S \ {s}) = Cardinality(S) - 1
    BY <1>2, <2>1, FS_RemoveElement
  <2> QED BY <2>1, <2>2, FS_Subset
<1>6. CASE Quiet(a)
  <2>1. Spare(a)' <= Spare(a) BY <1>6 DEF Quiet, Spare
  <2> QED BY <1>1, <1>2, <1>3, <1>4, <1>6, <2>1 DEF Quiet, T
<1>7. CASE Excused(a) BY <1>1, <1>2, <1>3, <1>4, <1>7 DEF Excused, T
<1>8. ASSUME NEW s \in Sittings, Returns(a, s) PROVE done'[a] + Cardinality(T) + Spare(a)' <= 1 + excuses'[a]
  <2>1. Cardinality(T) <= Cardinality(S) - 1 BY <1>5, <1>8 DEF Returns
  <2> QED BY <1>1, <1>2, <1>3, <1>8, <2>1 DEF Returns
<1>9. ASSUME NEW s \in Sittings, Acts(a, s) PROVE done'[a] + Cardinality(T) + Spare(a)' <= 1 + excuses'[a]
  <2>1. Cardinality(T) <= Cardinality(S) - 1 BY <1>5, <1>9 DEF Acts
  <2>2. Spare(a)' <= Spare(a) BY <1>9 DEF Acts, Spare
  <2> QED BY <1>1, <1>2, <1>3, <1>9, <2>1, <2>2 DEF Acts
<1>10. ASSUME NEW s \in Sittings, Claims(a, s) PROVE done'[a] + Cardinality(T) + Spare(a)' <= 1 + excuses'[a]
  <2>1. T \subseteq S \cup {s} BY <1>10 DEF Claims, S, T, Tokens
  <2>2. /\ IsFiniteSet(S \cup {s})
        /\ Cardinality(S \cup {s}) = Cardinality(S) \/ Cardinality(S \cup {s}) = Cardinality(S) + 1
    BY <1>2, FS_AddElement
  <2>3. Cardinality(T) <= Cardinality(S) + 1 BY <1>2, <2>1, <2>2, FS_Subset
  <2>4. Spare(a) = 1 /\ Spare(a)' = 0 BY <1>10 DEF Claims, Spare
  <2> QED BY <1>1, <1>2, <1>3, <1>10, <2>3, <2>4 DEF Claims
<1> QED BY <1>6, <1>7, <1>8, <1>9, <1>10 DEF Moves, T

LEMMA TokenMoves ==
  ASSUME WorkerAssumption, TypeOK, SittingInv, ParkedInv, [Next]_workerVars,
         NEW a \in Actions
  PROVE  Moves(a)
<1> USE DEF seatVars, memberVars, batchVars, passVars, sittingVars, requestVars, outsideVars,
        historyVars, Goto
<1>r. \A b \in Actions : row[b] \in Row BY DEF TypeOK
(* Nothing that counts changes.                                            *)
<1>a. ASSUME row'[a] = row[a], UNCHANGED <<pc, cur, answer>>, done'[a] = done[a],
             excuses'[a] = excuses[a]
      PROVE  Moves(a)
  BY <1>a DEF Moves, Quiet, Same, Token, Loose, Drives, Alive
(* A sitting that has not the row, before or after, goes somewhere.        *)
<1>b. ASSUME NEW s \in Sittings, cur[s] # a, cur'[s] # a, row'[a] = row[a],
             \A t \in Sittings \ {s} : pc'[t] = pc[t] /\ cur'[t] = cur[t] /\ answer'[t] = answer[t],
             done'[a] = done[a], excuses'[a] = excuses[a]
      PROVE  Moves(a)
  <2>1. \A t \in Sittings : Token(t, a)' <=> Token(t, a) BY <1>b DEF Token
  <2>2. \A t \in Sittings : Drives(t, a)' <=> Drives(t, a) BY <1>b DEF Drives, Alive
  <2>3. Loose(a)' <=> Loose(a) BY <1>b, <2>2 DEF Loose
  <2> QED BY <1>b, <2>1, <2>3 DEF Moves, Quiet, Same
(* A sitting that works on the row goes on working on it.                  *)
<1>c. ASSUME NEW s \in Sittings, NEW phase \in Busy, pc' = [pc EXCEPT ![s] = phase], cur[s] = a,
             cur' = cur, row'[a] = row[a] \/ row'[a] = [row[a] EXCEPT !.lease = "live"],
             \A t \in Sittings \ {s} : answer'[t] = answer[t], Token(s, a)' => Token(s, a)
      PROVE  Same(a) /\ (Loose(a)' <=> Loose(a))
  <2>1. \A t \in Sittings \ {s} : Token(t, a)' <=> Token(t, a) BY <1>c DEF Token, TypeOK
  <2>2. pc[s] \in Busy BY <1>c DEF SittingInv, Seated, WorkerAssumption
  <2>3. /\ row'[a].status = row[a].status /\ row'[a].hold = row[a].hold
        /\ row'[a].claimed = row[a].claimed /\ row'[a].failure = row[a].failure
        /\ row'[a].batch = row[a].batch
    BY <1>c, <1>r DEF Row
  <2>4. \A t \in Sittings : Drives(t, a)' <=> Drives(t, a)
    BY <1>c, <2>2, <2>3 DEF Drives, Alive, TypeOK, Busy
  <2> QED BY <1>c, <2>1, <2>3, <2>4 DEF Same, Loose
(* A sitting gives the row up with its token.                              *)
<1>d. ASSUME NEW s \in Sittings, NEW phase, NextRow(s, phase), cur[s] = a
      PROVE  Same(a) /\ ~Token(s, a)'
  BY <1>d DEF NextRow, Same, Token, TypeOK, WorkerAssumption
<1>e. ASSUME NEW s \in Sittings, NEW phase, NextRow(s, phase), Token(s, a), cur[s] = a,
             done'[a] = done[a], excuses'[a] = excuses[a]
      PROVE  Moves(a)
  BY <1>d, <1>e DEF Moves, Returns
(* A sitting works on another row.                                         *)
<1>f. ASSUME NEW s \in Sittings, NEW phase, NextRow(s, phase), cur[s] # a, row'[a] = row[a],
             done'[a] = done[a], excuses'[a] = excuses[a]
      PROVE  Moves(a)
  <2>1. \A t \in Sittings \ {s} : pc'[t] = pc[t] /\ cur'[t] = cur[t] /\ answer'[t] = answer[t]
    BY <1>f DEF NextRow, TypeOK
  <2>2. cur'[s] # a BY <1>f DEF NextRow, TypeOK, WorkerAssumption
  <2> QED BY <1>b, <1>f, <2>1, <2>2
(* The row was queued, and may have changed its status.                    *)
<1>g. ASSUME ~row[a].claimed, row[a].status \in {"planned", "held"}, UNCHANGED <<pc, cur, answer>>,
             done'[a] = done[a], excuses'[a] = excuses[a]
      PROVE  Moves(a)
  BY <1>g DEF Moves, Quiet, Same, Token, Loose
<1>1. CASE UNCHANGED workerVars BY <1>1, <1>a DEF workerVars
<1>2. ASSUME NEW s \in Sittings, ClaimSeatLease(s) PROVE Moves(a)
  <2>1. cur[s] = None BY <1>2 DEF ClaimSeatLease, SittingInv, Seated, Busy
  <2> QED BY <1>2, <2>1, <1>b DEF ClaimSeatLease, WorkerAssumption, TypeOK
<1>3. ASSUME NEW s \in Sittings, Sit(s) PROVE Moves(a)
  <2>1. cur[s] = None
    BY <1>3 DEF Sit, CannotSit, OpenBatch, CloseBatch, ReleaseSeatLease, CheckStop, CheckPosture,
      NothingDue, ClaimNextDueAction, At, SittingInv, Seated, Busy
  <2>2. ASSUME NEW b \in Actions, ClaimNextDueAction(s, b) PROVE Moves(a)
    <3>1. CASE b # a
      <4>1. row'[a] = row[a] /\ cur'[s] # a
        BY <2>2, <3>1 DEF ClaimNextDueAction, Put, TypeOK
      <4> QED BY <1>b, <2>1, <2>2, <4>1 DEF ClaimNextDueAction, TypeOK, WorkerAssumption
    <3>2. CASE b = a
      <4>1. row'[a].claimed /\ row'[a].batch = s
        BY <2>2, <3>2, <1>r DEF ClaimNextDueAction, Put, TypeOK, Row
      <4>2. Drives(s, a)'
        BY <2>2, <3>2, <4>1 DEF ClaimNextDueAction, Drives, Alive, TypeOK
      <4>3. Loose(a) /\ ~Loose(a)'
        BY <2>2, <3>2, <4>1, <4>2 DEF ClaimNextDueAction, Claimable, Loose
      <4>4. \A t \in Sittings : Token(t, a)' => Token(t, a) \/ t = s
        BY <2>2 DEF ClaimNextDueAction, Token, TypeOK
      <4> QED BY <2>2, <4>3, <4>4 DEF ClaimNextDueAction, Moves, Claims
    <3> QED BY <3>1, <3>2
  <2>3. ASSUME NEW phase, pc' = [pc EXCEPT ![s] = phase],
               UNCHANGED <<row, cur, answer, done, excuses>>
        PROVE  Moves(a)
    BY <1>b, <2>1, <2>3 DEF TypeOK, WorkerAssumption
  <2> QED BY <1>3, <2>2, <2>3 DEF Sit, CannotSit, OpenBatch, CloseBatch, ReleaseSeatLease,
             CheckStop, CheckPosture, NothingDue
<1>4. ASSUME NEW s \in Sittings, NEW b \in Actions, Prepare(s, b) PROVE Moves(a)
  <2>1. /\ cur[s] = b /\ UNCHANGED <<done, excuses>>
        /\ pc[s] \notin {"record", "recordBare"} /\ (a # b => row'[a] = row[a])
    BY <1>4 DEF Prepare, PutBack, Refused, GivenUp, Retire, Retired, CannotTell, Pass, After,
      Heartbeat, Holds, ReleaseClaim, SettleBranchSkipped, Put, TypeOK
  <2>2. ASSUME NEW phase, NextRow(s, phase) PROVE Moves(a)
    BY <1>e, <1>f, <2>1, <2>2 DEF Token
  <2>3. ASSUME NEW phase \in {"gate", "beat", "act", "recheck"}, pc' = [pc EXCEPT ![s] = phase],
               UNCHANGED <<cur, answer>>,
               b = a => row'[a] = row[a] \/ row'[a] = [row[a] EXCEPT !.lease = "live"]
        PROVE  Moves(a)
    <3>1. CASE b # a BY <1>b, <2>1, <2>3, <3>1 DEF TypeOK
    <3>2. CASE b = a
      <4>1. Token(s, a) BY <2>1, <3>2 DEF Token
      <4> QED BY <1>c, <2>1, <2>3, <3>2, <4>1 DEF Moves, Quiet, Busy
    <3> QED BY <3>1, <3>2
  <2>4. CASE Pass(s, b)
    <3>1. After[pc[s]] \in {"gate", "beat", "act"} BY <2>4 DEF Pass, After
    <3> QED BY <2>3, <2>4, <3>1 DEF Pass
  <2>5. CASE Heartbeat(s, b) BY <2>3, <2>5 DEF Heartbeat, Put, TypeOK
  <2> QED BY <1>4, <2>2, <2>4, <2>5 DEF Prepare, PutBack, Retire, CannotTell
<1>5. ASSUME NEW s \in Sittings, NEW b \in Actions, Act(s, b) PROVE Moves(a)
  <2>1. PICK ans \in Answer \ {"none"}, n \in {0, 1} :
          /\ Call(s, b, ans, n)
          /\ n = 1 => ans \in {"sent", "unknown"}
          /\ ans \notin {"sent", "unknown"} => n = 0
    BY <1>5 DEF Act, Drive, DriveBare, MayHide
  <2>2. /\ cur[s] = b /\ UNCHANGED <<row, cur, excuses>> /\ pc[s] \in {"act", "bare"}
        /\ \E phase \in {"record", "recordBare"} : pc' = [pc EXCEPT ![s] = phase]
    BY <1>5 DEF Act, Drive, DriveBare, Holds
  <2>3. /\ answer'[s] = ans /\ \A t \in Sittings \ {s} : answer'[t] = answer[t]
        /\ done'[b] = done[b] + n /\ (a # b => done'[a] = done[a])
    BY <2>1 DEF Call, TypeOK
  <2>4. CASE b # a BY <1>b, <2>2, <2>3, <2>4 DEF TypeOK
  <2>5. CASE b = a
    <3>1. Token(s, a) BY <2>2, <2>5 DEF Token
    <3>2. Same(a) /\ (Loose(a)' <=> Loose(a)) BY <1>c, <2>2, <2>3, <2>5, <3>1 DEF Busy
    <3>3. Token(s, a)' <=> ans \in Definite
      BY <2>2, <2>3, <2>5 DEF Token, TypeOK
    <3>4. CASE n = 1
      <4>1. ~Token(s, a)' BY <2>1, <3>3, <3>4 DEF Definite
      <4> QED BY <2>2, <2>3, <2>5, <3>1, <3>2, <3>4, <4>1 DEF Moves, Acts
    <3>5. CASE n = 0
      <4>1. done'[a] = done[a] BY <2>3, <2>5, <3>5 DEF TypeOK
      <4> QED BY <2>2, <3>2, <4>1 DEF Moves, Quiet
    <3> QED BY <3>4, <3>5
  <2> QED BY <2>4, <2>5
<1>6. ASSUME NEW s \in Sittings, NEW b \in Actions, Record(s, b) PROVE Moves(a)
  <2>1. cur[s] = b /\ done' = done
    BY <1>6 DEF Record, RecordSent, RecordWall, RecordExisting, RecordImpossible,
      RecordSessionLost, RecordDrift, RecordQuota, DropNote, RecordBareFailure, RecordUnknown,
      GiveUpKind, Answered, Holds, Recorded
  <2>2. CASE DropNote(s, b)
    <3>1. answer[s] = "quota" /\ pc[s] = "record" BY <2>2 DEF DropNote, Answered
    <3>2. CASE b # a BY <1>b, <2>1, <2>2, <3>2 DEF DropNote, TypeOK
    <3>3. CASE b = a
      <4>1. Token(s, a) BY <2>1, <3>1, <3>3 DEF Token, Definite
      <4> QED BY <1>c, <2>1, <2>2, <3>3, <4>1 DEF DropNote, Moves, Quiet, Busy, TypeOK
    <3> QED BY <3>2, <3>3
  <2>3. ~DropNote(s, b) => \E phase \in {"top", "closing"} : NextRow(s, phase)
    BY <1>6 DEF Record, RecordSent, RecordWall, RecordExisting, RecordImpossible,
      RecordSessionLost, RecordDrift, RecordQuota, RecordBareFailure, RecordUnknown, GiveUpKind,
      Recorded
  <2>4. a # b => row'[a] = row[a] /\ excuses'[a] = excuses[a]
    BY <1>6 DEF Record, RecordSent, RecordWall, RecordExisting, RecordImpossible,
      RecordSessionLost, RecordDrift, RecordQuota, RecordBareFailure, RecordUnknown, GiveUpKind,
      ReleaseClaim, SettleSent, SettleExistingInvite, SettleSkipped, HoldClaim, DropNote, Put,
      Excuse, TypeOK
  <2>5. CASE b # a BY <1>f, <2>1, <2>2, <2>3, <2>4, <2>5
  <2>6. CASE b = a /\ ~DropNote(s, b)
    <3>1. CASE RecordSent(s, a)
      <4>1. /\ row'[a].status = "sent" /\ row'[a].failure = "none" /\ excuses' = excuses
            /\ row'[a].claimed = row[a].claimed
        BY <3>1, <1>r DEF RecordSent, SettleSent, Put, TypeOK, Row
      <4>2. ~Loose(a)' BY <4>1 DEF Loose
      <4> QED BY <1>d, <2>1, <2>3, <2>6, <4>1, <4>2 DEF Moves, Quiet
    <3>2. CASE RecordUnknown(s, a)
      <4>1. /\ row'[a].status = row[a].status /\ row'[a].failure = "other" /\ row'[a].hold
            /\ row'[a].claimed = row[a].claimed /\ excuses' = excuses
        BY <3>2, <1>r DEF RecordUnknown, HoldClaim, Put, TypeOK, Row
      <4>2. Loose(a)' => Loose(a) BY <4>1 DEF Loose
      <4> QED BY <1>d, <2>1, <2>3, <2>6, <4>1, <4>2 DEF Moves, Quiet
    <3>3. CASE RecordBareFailure(s, a) /\ answer[s] = "unknown"
      <4>1. excuses'[a] = excuses[a] + 1 BY <3>3 DEF RecordBareFailure, Excuse, TypeOK
      <4> QED BY <1>d, <2>1, <2>3, <2>6, <4>1 DEF Moves, Excused
    <3>4. CASE answer[s] \in Definite /\ excuses' = excuses
      BY <1>e, <2>1, <2>3, <2>6, <3>4 DEF Token
    <3>5. RecordBareFailure(s, a) => answer[s] \in Definite \cup {"unknown"}
      BY DEF RecordBareFailure, SittingInv, Seated, TypeOK, Answer
    <3> QED BY <1>6, <2>6, <3>1, <3>2, <3>3, <3>4, <3>5
            DEF Record, RecordWall, RecordExisting, RecordImpossible, RecordSessionLost,
              RecordDrift, RecordQuota, RecordBareFailure, Answered, Definite
  <2> QED BY <2>2, <2>5, <2>6
<1>7. CASE Fault
  <2>1. ASSUME NEW s \in Sittings, NEW phase, Forget(s, phase) PROVE Moves(a)
    <3>1. NextRow(s, phase) /\ row' = row /\ done' = done BY <2>1 DEF Forget
    <3>2. CASE cur[s] # a
      <4>1. excuses'[a] = excuses[a] BY <2>1, <3>2 DEF Forget, Excuse, TypeOK
      <4> QED BY <1>f, <3>1, <3>2, <4>1
    <3>3. CASE cur[s] = a /\ Unrecorded(s)
      <4>1. excuses'[a] = excuses[a] + 1 BY <2>1, <3>3 DEF Forget, Excuse, TypeOK
      <4> QED BY <1>d, <3>1, <3>3, <4>1 DEF Moves, Excused
    <3>4. CASE cur[s] = a /\ ~Unrecorded(s)
      <4>1. excuses' = excuses BY <2>1, <3>4 DEF Forget
      <4>2. Token(s, a)
        BY <3>4 DEF Token, Unrecorded, SittingInv, Seated, TypeOK, Answer
      <4> QED BY <1>e, <3>1, <3>4, <4>1, <4>2
    <3> QED BY <3>2, <3>3, <3>4
  <2> QED BY <1>7, <1>a, <2>1 DEF Fault, Crash, StatementThrows, Freeze
<1>8. CASE Time
  <2>1. ASSUME NEW b \in Actions, ActionLeaseExpires(b) PROVE Moves(a)
    <3>1. CASE b # a BY <1>a, <2>1, <3>1 DEF ActionLeaseExpires, Put, TypeOK
    <3>2. CASE b = a
      <4>1. /\ row'[a].status = row[a].status /\ row'[a].hold = row[a].hold
            /\ row'[a].claimed = row[a].claimed /\ row'[a].failure = row[a].failure
            /\ row'[a].batch = row[a].batch
        BY <2>1, <3>2, <1>r DEF ActionLeaseExpires, Put, TypeOK, Row
      <4>2. UNCHANGED <<pc, cur, answer, done, excuses>> BY <2>1 DEF ActionLeaseExpires
      <4> QED BY <4>1, <4>2 DEF Moves, Quiet, Same, Token, Loose, Drives, Alive
    <3> QED BY <3>1, <3>2
  <2> QED BY <1>8, <1>a, <2>1 DEF Time, SeatLeaseExpires, HeartbeatSeatLease, Thaw
<1>9. CASE Reap
  <2>1. ASSUME NEW b \in Actions, ReapExpiredActionLease(b) PROVE Moves(a)
    <3>1. CASE b # a
      BY <1>a, <2>1, <3>1 DEF ReapExpiredActionLease, Excuse, Put, TypeOK
    <3>2. CASE b = a
      <4>1. UNCHANGED <<pc, cur, answer, done>> BY <2>1 DEF ReapExpiredActionLease
      <4>2. Same(a) BY <4>1 DEF Same, Token
      <4>3. CASE \E s \in Sittings : Drives(s, a)
        <5>1. excuses'[a] = excuses[a] + 1
          BY <2>1, <3>2, <4>3 DEF ReapExpiredActionLease, Excuse, TypeOK
        <5> QED BY <4>1, <4>2, <5>1 DEF Moves, Excused
      <4>4. CASE ~\E s \in Sittings : Drives(s, a)
        <5>1. Loose(a) BY <2>1, <3>2, <4>4 DEF ReapExpiredActionLease, Reapable, Loose
        <5>2. excuses' = excuses BY <2>1, <3>2, <4>4 DEF ReapExpiredActionLease
        <5> QED BY <4>1, <4>2, <5>1, <5>2 DEF Moves, Quiet
      <4> QED BY <4>3, <4>4
    <3> QED BY <3>1, <3>2
  <2> QED BY <1>9, <1>a, <2>1 DEF Reap, ReapStaleLinkedInBatch
<1>10. CASE Operator
  <2> USE DEF Operate, Untouched
  <2>0. ASSUME NEW which, NEW st, Turn(which, st), UNCHANGED <<pc, cur, answer, done, excuses>>,
               \A b \in which : ~row[b].claimed /\ row[b].status \in {"planned", "held"}
        PROVE  Moves(a)
    <3>1. CASE a \in which BY <1>g, <2>0, <3>1
    <3>2. CASE a \notin which BY <1>a, <2>0, <3>2 DEF Turn
    <3> QED BY <3>1, <3>2
  <2>1. CASE PauseCampaign BY <2>0, <2>1 DEF PauseCampaign, Queued
  <2>2. CASE StartCampaign BY <2>0, <2>2 DEF StartCampaign, HandedBack, ParkedInv
  <2>3. CASE StopCampaign BY <2>0, <2>3 DEF StopCampaign, Queued
  <2>4. CASE RetryFailures
    <3>1. UNCHANGED <<pc, cur, answer, done>> BY <2>4 DEF RetryFailures
    <3>2. Same(a) BY <3>1 DEF Same, Token
    <3>3. CASE ~Retryable(a) BY <1>a, <2>4, <3>1, <3>3 DEF RetryFailures
    <3>4. CASE Retryable(a) /\ row[a].claimed
      <4>1. excuses'[a] = excuses[a] + 1 BY <2>4, <3>4 DEF RetryFailures
      <4> QED BY <3>1, <3>2, <4>1 DEF Moves, Excused
    <3>5. CASE Retryable(a) /\ ~row[a].claimed
      <4>1. excuses'[a] = excuses[a] BY <2>4, <3>5 DEF RetryFailures
      <4>2. Loose(a) BY <3>5 DEF Loose, Retryable
      <4> QED BY <3>1, <3>2, <4>1, <4>2 DEF Moves, Quiet
    <3> QED BY <3>3, <3>4, <3>5
  <2>5. ASSUME NEW b \in Actions, OperateMember(b) PROVE Moves(a)
    <3>1. CASE PauseMember(b) BY <2>0, <3>1 DEF PauseMember, Queued
    <3>2. CASE UnpauseMember(b) BY <2>0, <3>2 DEF UnpauseMember, ParkedInv
    <3>3. ASSUME DropQueued(b), UNCHANGED <<pc, cur, answer, done, excuses>> PROVE Moves(a)
      BY <2>0, <3>3 DEF DropQueued, Queued
    <3> QED BY <2>5, <3>1, <3>2, <3>3 DEF OperateMember, EndMember, SkipStep, ResumeAtStep
  <2>6. ASSUME NEW b \in Actions, OperateRow(b) PROVE Moves(a)
    <3>1. UNCHANGED <<pc, cur, answer, done>>
      BY <2>6 DEF OperateRow, ResolveRetry, ReadSkippable, WriteSkipped, ResolveAs
    <3>2. Same(a) BY <3>1 DEF Same, Token
    <3>3. a # b => row'[a] = row[a] /\ excuses'[a] = excuses[a]
      BY <2>6 DEF OperateRow, ResolveRetry, ReadSkippable, WriteSkipped, ResolveAs, Put, Excuse, TypeOK
    <3>4. CASE a # b BY <1>a, <3>1, <3>3, <3>4
    <3>5. CASE a = b /\ ResolveRetry(a)
      <4>1. excuses'[a] = excuses[a] + 1 BY <3>5 DEF ResolveRetry, Excuse, TypeOK
      <4> QED BY <3>1, <3>2, <4>1 DEF Moves, Excused
    <3>6. CASE a = b /\ WriteSkipped(a)
      <4>1. /\ row'[a].status = "skipped" /\ row'[a].failure = row[a].failure
            /\ row'[a].claimed = row[a].claimed /\ excuses' = excuses
        BY <3>6, <1>r DEF WriteSkipped, Put, TypeOK, Row
      <4>2. Loose(a)' => Loose(a) BY <4>1 DEF Loose
      <4> QED BY <3>1, <3>2, <4>1, <4>2 DEF Moves, Quiet
    <3>7. ASSUME a = b, NEW st \in {"sent", "skipped"}, ResolveAs(a, st) PROVE Moves(a)
      <4>1. /\ row'[a].status = st /\ row'[a].failure = "none" /\ ~row'[a].claimed
            /\ excuses' = excuses
        BY <3>7, <1>r DEF ResolveAs, Unclaimed, Put, TypeOK, Row
      <4>2. ~Loose(a)' BY <4>1 DEF Loose
      <4> QED BY <3>1, <3>2, <4>1, <4>2 DEF Moves, Quiet
    <3> QED BY <2>6, <1>a, <3>1, <3>4, <3>5, <3>6, <3>7 DEF OperateRow, ReadSkippable
  <2> QED BY <1>10, <1>a, <2>1, <2>2, <2>3, <2>4, <2>5, <2>6 DEF Operator, PauseSeat,
             ResumeSeat, StopLinkedInBatches, ResumeMembers
<1> QED BY <1>1, <1>2, <1>3, <1>4, <1>5, <1>6, <1>7, <1>8, <1>9, <1>10 DEF Next, Work

(* Claim before act: LinkedIn sees a row once, and once more for each event*)
(* that names its reason.                                                  *)
THEOREM ActsAlwaysBounded == ASSUME WorkerAssumption PROVE Spec => []ActsBounded
<1> DEFINE Inv == TypeOK /\ SittingInv /\ ParkedInv /\ ActInv
<1>1. Init => Inv
  <2> SUFFICES ASSUME Init PROVE Inv OBVIOUS
  <2>1. TypeOK /\ SittingInv /\ ParkedInv
    BY TypeInitial DEF Init, SittingInv, Seated, ParkedInv, Busy, WorkerAssumption
  <2>2. ASSUME NEW a \in Actions PROVE Tokens(a) = {}
    BY DEF Init, Tokens, Token, WorkerAssumption
  <2>3. \A a \in Actions : done[a] = 0 /\ excuses[a] = 0 BY DEF Init
  <2>4. ActInv BY <2>2, <2>3, FS_EmptySet DEF ActInv, Spare
  <2> QED BY <2>1, <2>4
<1>2. Inv /\ [Next]_workerVars => Inv'
  <2> SUFFICES ASSUME Inv, [Next]_workerVars PROVE Inv' OBVIOUS
  <2>1. TypeOK' /\ SittingInv' /\ ParkedInv' BY TypeStep, SittingStep, ParkedStep
  <2>2. \A a \in Actions : Moves(a) BY TokenMoves
  <2> QED BY <2>1, <2>2, TokensStep
<1>3. Inv => ActsBounded
  <2> SUFFICES ASSUME Inv, NEW a \in Actions PROVE done[a] <= 1 + excuses[a]
    BY DEF ActsBounded
  <2>1. Tokens(a) \subseteq Sittings BY DEF Tokens
  <2>2. Cardinality(Tokens(a)) \in Nat
    BY <2>1, FS_Subset, FS_CardinalityType DEF WorkerAssumption
  <2>3. Spare(a) \in {0, 1} /\ done[a] \in Nat /\ excuses[a] \in Nat BY DEF Spare, TypeOK
  <2>4. done[a] + Cardinality(Tokens(a)) + Spare(a) <= 1 + excuses[a] BY DEF ActInv
  <2> QED BY <2>2, <2>3, <2>4
<1> QED BY <1>1, <1>2, <1>3, PTL DEF Spec
=============================================================================
