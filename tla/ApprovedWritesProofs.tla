----------------------- MODULE ApprovedWritesProofs -----------------------
(***************************************************************************)
(* Proofs about ApprovedWrites, for any number of executors, actions,      *)
(* platform limits and interruptions.                                      *)
(***************************************************************************)
EXTENDS ApprovedWrites, FiniteSetTheorems, TLAPS

(* Types, and what a call may be about in each of its phases.              *)
CallInv == \A c \in Executors :
    /\ pc[c] \in {"guard", "window", "claim", "write", "settle"} => cur[c] \in Writes
    /\ pc[c] \in {"write", "settle"} => KindOf[cur[c]] # "handoff"
    /\ pc[c] \in {"insert", "log"} => cur[c] \in Known
Typed == TypeOK /\ CallInv

LEMMA FirstPhase ==
  ASSUME WritesAssumption, NEW a \in Actions
  PROVE  /\ First[KindOf[a]] \in {"guard", "claim", "lookup"}
         /\ First[KindOf[a]] # "lookup" => a \in Writes
<1>1. KindOf[a] \in {"reply", "handoff", "note", "draft"} BY DEF WritesAssumption
<1>2. CASE KindOf[a] = "reply" BY <1>2 DEF First, Writes
<1>3. CASE KindOf[a] = "handoff" BY <1>3 DEF First, Writes
<1>4. CASE KindOf[a] = "note" BY <1>4 DEF First, Writes
<1>5. CASE KindOf[a] = "draft" BY <1>5 DEF First, Writes
<1> QED BY <1>1, <1>2, <1>3, <1>4, <1>5

LEMMA Increases == ASSUME NEW S, NEW f \in [S -> Nat], NEW s, NEW n \in Nat
                   PROVE [f EXCEPT ![s] = @ + n] \in [S -> Nat]
<1>1. \A x \in S : [f EXCEPT ![s] = @ + n][x] \in Nat OBVIOUS
<1> QED BY <1>1

LEMMA ExcuseTyped ==
  ASSUME WritesAssumption, TypeOK, NEW a, NEW n \in Nat, Excuse(a, n)
  PROVE  excuses' \in [Actions -> Nat] /\ events' \in Nat
<1>1. [excuses EXCEPT ![a] = @ + n] \in [Actions -> Nat] BY Increases DEF TypeOK
<1> QED BY <1>1 DEF Excuse, TypeOK

(* What a request left behind, however often the proxy repeated it.        *)
LEMMA LogMoves ==
  ASSUME NEW c \in Executors, NEW a \in Actions, LogActivity(c, a)
  PROVE  \E ans \in Answer, repeats \in Nat, hidden \in Nat, n \in {0, 1} :
           /\ hidden <= repeats /\ n \in MayHide(ans)
           /\ Hear(c, ans) /\ notes' = [notes EXCEPT ![a] = @ + (hidden + n)]
           /\ Excuse(a, repeats + (IF ans = "timeout" THEN n ELSE 0))
<1>1. PICK repeats \in 0..Retries, ans \in Answer \ {"none"} :
        \E hidden \in 0..repeats, n \in MayHide(ans) :
          /\ Hear(c, ans) /\ notes' = [notes EXCEPT ![a] = @ + (hidden + n)]
          /\ Excuse(a, repeats + (IF ans = "timeout" THEN n ELSE 0))
  BY DEF LogActivity
<1>2. PICK hidden \in 0..repeats, n \in MayHide(ans) :
          /\ Hear(c, ans) /\ notes' = [notes EXCEPT ![a] = @ + (hidden + n)]
          /\ Excuse(a, repeats + (IF ans = "timeout" THEN n ELSE 0))
  BY <1>1
<1>3. repeats \in Nat /\ hidden \in Nat /\ hidden <= repeats BY DEF Retries
<1>4. n \in {0, 1} BY DEF MayHide
<1> QED BY <1>2, <1>3, <1>4

LEMMA TypedInitial == ASSUME WritesAssumption, Init PROVE Typed
BY DEF Init, Typed, TypeOK, CallInv, WritesAssumption, Phase, Answer

LEMMA TypedStep == ASSUME WritesAssumption, Typed, [Next]_writesVars PROVE Typed'
<1> USE DEF Typed, TypeOK, CallInv, rowVars, historyVars, Goto, Return, Continue, Phase, Answer
<1>1. CASE UNCHANGED writesVars BY <1>1 DEF writesVars
<1>2. ASSUME NEW c \in Executors, Interrupted(c) PROVE Typed'
  BY <1>2 DEF Interrupted, Event
<1>3. ASSUME NEW c \in Executors, NEW a \in Actions, Begin(c, a) PROVE Typed'
  BY <1>3, FirstPhase DEF Begin, WritesAssumption
<1>4. ASSUME NEW c \in Executors, NEW a \in Actions, Reply(c, a) PROVE Typed'
  <2> USE DEF At, Claim, Deliver
  <2>1. CASE CheckReplay(c, a) BY <2>1 DEF CheckReplay
  <2>2. CASE AssertPostingWindow(c, a) BY <2>2 DEF AssertPostingWindow
  <2>3. CASE RecordHandoff(c, a)
    <3>1. [handed EXCEPT ![a] = @ + 1] \in [Actions -> Nat] BY Increases
    <3> QED BY <2>3, <3>1 DEF RecordHandoff
  <2>4. CASE ClaimPost(c, a) BY <2>4 DEF ClaimPost
  <2>5. CASE ClaimDraft(c, a) BY <2>5 DEF ClaimDraft
  <2>6. CASE Write(c, a)
    <3>1. PICK ans \in {"ok", "refused", "unknown"}, n \in {0, 1} :
            Hear(c, ans) /\ effects' = [effects EXCEPT ![a] = @ + n]
      BY <2>6 DEF Write, MayHide
    <3>2. effects' \in [Actions -> Nat] BY <3>1, Increases
    <3> QED BY <2>6, <3>1, <3>2 DEF Write, Hear
  <2>7. CASE Settle(c, a) BY <2>7 DEF Settle, Settled
  <2> QED BY <1>4, <2>1, <2>2, <2>3, <2>4, <2>5, <2>6, <2>7 DEF Reply
<1>5. ASSUME NEW c \in Executors, NEW a \in Actions, Note(c, a) PROVE Typed'
  <2> USE DEF At
  <2>1. CASE LookUpNote(c, a) BY <2>1 DEF LookUpNote, Route
  <2>2. CASE InsertSkipped(c, a) BY <2>2 DEF InsertSkipped, Inserted
  <2>3. CASE InsertActivity(c, a)
    <3>1. excuses' \in [Actions -> Nat] /\ events' \in Nat
      <4>1. (IF note[a] = "free" THEN 0 ELSE 1) \in Nat OBVIOUS
      <4> QED BY <2>3, <4>1, ExcuseTyped DEF InsertActivity
    <3> QED BY <2>3, <3>1 DEF InsertActivity, Inserted
  <2>4. CASE LogActivity(c, a)
    <3>1. PICK ans \in Answer, repeats \in Nat, hidden \in Nat, n \in {0, 1} :
            /\ Hear(c, ans) /\ notes' = [notes EXCEPT ![a] = @ + (hidden + n)]
            /\ Excuse(a, repeats + (IF ans = "timeout" THEN n ELSE 0))
      BY <2>4, LogMoves
    <3>2. notes' \in [Actions -> Nat]
      <4>1. hidden + n \in Nat OBVIOUS
      <4> QED BY <3>1, <4>1, Increases
    <3>3. excuses' \in [Actions -> Nat] /\ events' \in Nat
      <4>1. repeats + (IF ans = "timeout" THEN n ELSE 0) \in Nat OBVIOUS
      <4> QED BY <3>1, <4>1, ExcuseTyped
    <3>4. a \in Known BY <2>4 DEF LogActivity
    <3>5. \A b \in Actions : notes'[b] > 0 => b \in Known BY <3>1, <3>4
    <3> QED BY <2>4, <3>1, <3>2, <3>3, <3>5 DEF LogActivity, Hear
  <2>5. CASE SettleActivity(c, a) BY <2>5 DEF SettleActivity, NoteStatus
  <2> QED BY <1>5, <2>1, <2>2, <2>3, <2>4, <2>5 DEF Note
<1> QED BY <1>1, <1>2, <1>3, <1>4, <1>5 DEF Next

(* Every variable keeps its type, an answer is used in the call that got    *)
(* it, and the CRM only gets notes of contacts it has.                     *)
THEOREM WritesTypeCorrect == ASSUME WritesAssumption PROVE Spec => []TypeOK
<1>1. Init => Typed BY TypedInitial
<1>2. Typed /\ [Next]_writesVars => Typed' BY TypedStep
<1>3. Typed => TypeOK BY DEF Typed
<1> QED BY <1>1, <1>2, <1>3, PTL DEF Spec

-----------------------------------------------------------------------------
(* At most once.  Whoever writes holds the claim, alone; a claim that is    *)
(* free has no effect behind it; one that is done has exactly one.         *)
Writing(c, a) == cur[c] = a /\ pc[c] \in {"write", "settle"}
ClaimKnows == \A a \in Writes :
    /\ effects[a] \in {0, 1} /\ handed[a] \in {0, 1}
    /\ handed[a] = 1 => KindOf[a] = "handoff"
    /\ claim[a] = "free" => effects[a] = 0 /\ handed[a] = 0
    /\ claim[a] = "done" => effects[a] + handed[a] = 1
    /\ KindOf[a] = "handoff" => claim[a] # "held"
NotesUnhanded == \A a \in Actions \ Writes : handed[a] = 0
OneWriter == \A c \in Executors, a \in Actions : Writing(c, a) =>
    /\ claim[a] = "held"
    /\ \A d \in Executors : Writing(d, a) => d = c
WriterKnows == \A c \in Executors, a \in Actions : Writing(c, a) =>
    /\ pc[c] = "write" \/ answer[c] = "refused" => effects[a] = 0
    /\ answer[c] = "ok" => effects[a] = 1
OnceInv == ClaimKnows /\ NotesUnhanded /\ OneWriter /\ WriterKnows

LEMMA OnceInitial == ASSUME WritesAssumption, Init PROVE OnceInv
BY DEF Init, OnceInv, ClaimKnows, NotesUnhanded, OneWriter, WriterKnows, Writing, Writes

(* A step that changes no claim and no effect, and brings nobody to write.  *)
LEMMA OnceKept ==
  ASSUME OnceInv, UNCHANGED <<claim, effects, handed>>,
         \A c \in Executors, a \in Actions :
            Writing(c, a)' => Writing(c, a) /\ pc'[c] = pc[c] /\ answer'[c] = answer[c]
  PROVE  OnceInv'
<1>1. ClaimKnows' /\ NotesUnhanded' BY DEF OnceInv, ClaimKnows, NotesUnhanded
<1>2. OneWriter' BY DEF OnceInv, OneWriter
<1>3. WriterKnows' BY DEF OnceInv, WriterKnows
<1> QED BY <1>1, <1>2, <1>3 DEF OnceInv

LEMMA OnceStep == ASSUME WritesAssumption, Typed, OnceInv, [Next]_writesVars PROVE OnceInv'
<1> USE DEF rowVars, historyVars, Goto, Return, Continue
<1>t. /\ pc \in [Executors -> Phase] /\ cur \in [Executors -> Actions \cup {None}]
      /\ answer \in [Executors -> Answer] /\ claim \in [Actions -> {"free", "held", "done"}]
      /\ effects \in [Actions -> Nat] /\ handed \in [Actions -> Nat]
  BY DEF Typed, TypeOK
<1>1. CASE UNCHANGED writesVars BY <1>1, OnceKept DEF writesVars, Writing
<1>2. ASSUME NEW c \in Executors, Interrupted(c) PROVE OnceInv'
  BY <1>2, <1>t, OnceKept DEF Interrupted, Writing
<1>3. ASSUME NEW c \in Executors, NEW a \in Actions, Begin(c, a) PROVE OnceInv'
  BY <1>3, <1>t, OnceKept, FirstPhase DEF Begin, Writing
<1>4. ASSUME NEW c \in Executors, NEW a \in Actions, Reply(c, a) PROVE OnceInv'
  <2> USE DEF At, Claim
  <2>1. CASE CheckReplay(c, a) BY <2>1, <1>t, OnceKept DEF CheckReplay, Writing
  <2>2. CASE AssertPostingWindow(c, a) BY <2>2, <1>t, OnceKept DEF AssertPostingWindow, Writing
  <2>3. CASE RecordHandoff(c, a)
    <3>1. CASE Conflict(a) BY <2>3, <3>1, <1>t, OnceKept DEF RecordHandoff, Writing
    <3>2. CASE ~Conflict(a)
      <4>1. /\ claim[a] = "free" /\ KindOf[a] = "handoff" /\ a \in Writes
            /\ claim' = [claim EXCEPT ![a] = "done"] /\ effects' = effects
            /\ handed' = [handed EXCEPT ![a] = @ + 1]
        BY <2>3, <3>2 DEF RecordHandoff, Conflict, Writes
      <4>2. \A d \in Executors, b \in Actions :
              Writing(d, b)' => Writing(d, b) /\ d # c /\ b # a
        BY <2>3, <3>2, <4>1, <1>t DEF RecordHandoff, Writing, OnceInv, OneWriter
      <4>3. ClaimKnows' BY <4>1, <1>t DEF OnceInv, ClaimKnows, Writes
      <4>4. NotesUnhanded' BY <4>1, <1>t DEF OnceInv, NotesUnhanded
      <4>5. OneWriter' BY <4>1, <4>2, <1>t DEF OnceInv, OneWriter
      <4>6. \A d \in Executors : d # c => pc'[d] = pc[d] /\ answer'[d] = answer[d]
        BY <2>3, <3>2, <1>t DEF RecordHandoff
      <4>7. WriterKnows' BY <4>1, <4>2, <4>6, <1>t DEF OnceInv, WriterKnows
      <4> QED BY <4>3, <4>4, <4>5, <4>7 DEF OnceInv
    <3> QED BY <3>1, <3>2
  <2>4. CASE ClaimPost(c, a) \/ ClaimDraft(c, a)
    <3>1. CASE claim' = claim
      BY <2>4, <3>1, <1>t, OnceKept DEF ClaimPost, ClaimDraft, Writing, Conflict
    <3>2. CASE claim' # claim
      <4>1. /\ claim[a] = "free" /\ a \in Writes /\ KindOf[a] # "handoff"
            /\ claim' = [claim EXCEPT ![a] = "held"] /\ UNCHANGED <<effects, handed>>
            /\ pc' = [pc EXCEPT ![c] = "write"] /\ UNCHANGED <<cur, answer>>
            /\ cur[c] = a /\ pc[c] = "claim"
        BY <2>4, <3>2 DEF ClaimPost, ClaimDraft, Conflict, Writes
      <4>2. \A d \in Executors, b \in Actions : Writing(d, b)' =>
              \/ d = c /\ b = a
              \/ d # c /\ b # a /\ Writing(d, b) /\ pc'[d] = pc[d]
        BY <4>1, <1>t DEF Writing, OnceInv, OneWriter
      <4>3. ClaimKnows' BY <4>1, <1>t DEF OnceInv, ClaimKnows
      <4>4. NotesUnhanded' BY <4>1 DEF OnceInv, NotesUnhanded
      <4>5. OneWriter' BY <4>1, <4>2, <1>t DEF OnceInv, OneWriter
      <4>6. answer[c] = "none" BY <4>1 DEF Typed, TypeOK
      <4>7. WriterKnows' BY <4>1, <4>2, <4>6, <1>t DEF OnceInv, WriterKnows, ClaimKnows
      <4> QED BY <4>3, <4>4, <4>5, <4>7 DEF OnceInv
    <3> QED BY <3>1, <3>2
  <2>5. CASE Write(c, a)
    <3>1. PICK ans \in {"ok", "refused", "unknown"}, n \in {0, 1} :
            /\ n \in MayHide(ans)
            /\ Hear(c, ans) /\ effects' = [effects EXCEPT ![a] = @ + n]
      BY <2>5 DEF Write, MayHide
    <3>2. /\ n \in {0, 1} /\ (ans = "ok" => n = 1) /\ (ans = "refused" => n = 0)
      BY <3>1 DEF MayHide
    <3>3. /\ Writing(c, a) /\ claim[a] = "held" /\ effects[a] = 0 /\ UNCHANGED <<claim, handed, cur>>
          /\ pc' = [pc EXCEPT ![c] = "settle"] /\ answer' = [answer EXCEPT ![c] = ans]
      BY <2>5, <3>1 DEF Write, Writing, Hear, OnceInv, OneWriter, WriterKnows
    <3>4. \A d \in Executors, b \in Actions : Writing(d, b)' =>
            /\ Writing(d, b) /\ (d = c <=> b = a)
            /\ d # c => pc'[d] = pc[d] /\ answer'[d] = answer[d]
      BY <3>3, <1>t DEF Writing, OnceInv, OneWriter
    <3>5. ClaimKnows' BY <3>1, <3>2, <3>3, <1>t DEF OnceInv, ClaimKnows
    <3>6. NotesUnhanded' BY <3>3 DEF OnceInv, NotesUnhanded
    <3>7. OneWriter' BY <3>3, <3>4 DEF OnceInv, OneWriter
    <3>8. WriterKnows' BY <3>1, <3>2, <3>3, <3>4, <1>t DEF OnceInv, WriterKnows
    <3> QED BY <3>5, <3>6, <3>7, <3>8 DEF OnceInv
  <2>6. CASE Settle(c, a)
    <3>1. /\ Writing(c, a) /\ claim[a] = "held" /\ a \in Writes /\ KindOf[a] # "handoff"
          /\ claim' = [claim EXCEPT ![a] = Settled(answer[c])] /\ UNCHANGED <<effects, handed>>
          /\ answer[c] = "ok" => effects[a] = 1
          /\ answer[c] = "refused" => effects[a] = 0
      BY <2>6, <1>t DEF Settle, Writing, OnceInv, OneWriter, WriterKnows, Typed, CallInv
    <3>2. /\ Settled(answer[c]) = "done" => answer[c] = "ok"
          /\ Settled(answer[c]) = "free" => answer[c] = "refused"
          /\ Settled(answer[c]) \in {"free", "held", "done"}
      BY DEF Settled
    <3>3. \A d \in Executors, b \in Actions : Writing(d, b)' =>
            /\ Writing(d, b) /\ d # c /\ b # a
            /\ pc'[d] = pc[d] /\ answer'[d] = answer[d]
      <4>1. pc'[c] \in {"lookup", "idle"} BY <2>6, <1>t DEF Settle
      <4>2. \A d \in Executors \ {c} : pc'[d] = pc[d] /\ answer'[d] = answer[d] /\ cur'[d] = cur[d]
        BY <2>6, <1>t DEF Settle
      <4> QED BY <4>1, <4>2, <3>1 DEF Writing, OnceInv, OneWriter
    <3>4. handed[a] = 0
      BY <3>1 DEF OnceInv, ClaimKnows
    <3>5. ClaimKnows' BY <3>1, <3>2, <3>4, <1>t DEF OnceInv, ClaimKnows
    <3>6. NotesUnhanded' BY <3>1 DEF OnceInv, NotesUnhanded
    <3>7. OneWriter' BY <3>1, <3>3, <1>t DEF OnceInv, OneWriter
    <3>8. WriterKnows' BY <3>1, <3>3 DEF OnceInv, WriterKnows
    <3> QED BY <3>5, <3>6, <3>7, <3>8 DEF OnceInv
  <2> QED BY <1>4, <2>1, <2>2, <2>3, <2>4, <2>5, <2>6 DEF Reply
<1>5. ASSUME NEW c \in Executors, NEW a \in Actions, Note(c, a) PROVE OnceInv'
  <2>1. UNCHANGED <<claim, effects, handed>>
    BY <1>5 DEF Note, LookUpNote, InsertSkipped, InsertActivity, LogActivity, SettleActivity
  <2>2. /\ pc'[c] \notin {"write", "settle"}
        /\ \A d \in Executors \ {c} : pc'[d] = pc[d] /\ answer'[d] = answer[d] /\ cur'[d] = cur[d]
    BY <1>5, <1>t DEF Note, LookUpNote, InsertSkipped, InsertActivity, LogActivity, SettleActivity,
                    Route, Hear
  <2> QED BY <2>1, <2>2, OnceKept DEF Writing
<1> QED BY <1>1, <1>2, <1>3, <1>4, <1>5 DEF Next

LEMMA OnceAlways == ASSUME WritesAssumption PROVE Spec => [](Typed /\ OnceInv)
<1>1. Init => Typed /\ OnceInv BY TypedInitial, OnceInitial
<1>2. Typed /\ OnceInv /\ [Next]_writesVars => Typed' /\ OnceInv' BY TypedStep, OnceStep
<1> QED BY <1>1, <1>2, PTL DEF Spec

(* No approved reply is put before a human twice.                          *)
THEOREM HandedAtMostOnce == ASSUME WritesAssumption PROVE Spec => []HandedOnce
<1>1. OnceInv => HandedOnce BY DEF OnceInv, ClaimKnows, NotesUnhanded, HandedOnce
<1> QED BY <1>1, OnceAlways, PTL

-----------------------------------------------------------------------------
(* Refinement: the writes and what is told of them are a send of the email  *)
(* ledger's abstract promise; every other step is a stutter.               *)
LEMMA DeliveryStep ==
  ASSUME WritesAssumption, Typed, OnceInv, OnceInv', [Next]_writesVars
  PROVE  [Delivery!Next]_(Delivery!vars)
<1> DEFINE Promised == [Delivery!Next]_(Delivery!vars)
<1> USE DEF rowVars, historyVars
<1>0. UNCHANGED historyVars => Promised BY DEF Delivery!vars
<1>1. CASE UNCHANGED writesVars BY <1>0, <1>1 DEF writesVars
<1>2. ASSUME NEW c \in Executors, Interrupted(c) PROVE Promised BY <1>0, <1>2 DEF Interrupted
<1>3. ASSUME NEW c \in Executors, NEW a \in Actions, Begin(c, a) PROVE Promised
  BY <1>0, <1>3 DEF Begin
<1>4. ASSUME NEW c \in Executors, NEW a \in Actions, Note(c, a) PROVE Promised
  BY <1>0, <1>4 DEF Note, LookUpNote, InsertSkipped, InsertActivity, LogActivity, SettleActivity
<1>5. ASSUME NEW c \in Executors, NEW a \in Actions, Reply(c, a) PROVE Promised
  <2>t. /\ \A b \in Writes : effects[b] \in {0, 1} /\ handed[b] \in {0, 1}
        /\ effects \in [Actions -> Nat] /\ handed \in [Actions -> Nat] /\ Writes \subseteq Actions
    BY DEF OnceInv, ClaimKnows, Typed, TypeOK, Writes
  <2>1. ASSUME a \in Writes, effects[a] + handed[a] = 1, told' = told \cup {a},
               UNCHANGED <<effects, handed>>
        PROVE  Promised
    <3>1. effects[a] = 1 \/ handed[a] > 0 BY <2>1, <2>t
    <3>2. Delivery!Tell(a) BY <2>1, <3>1 DEF Delivery!Tell
    <3> QED BY <2>1, <3>2 DEF Delivery!Next
  <2>2. CASE CheckReplay(c, a)
    <3>1. CASE claim[a] = "done"
      <4>1. a \in Writes BY <2>2 DEF CheckReplay, At, Typed, CallInv
      <4> QED BY <2>1, <2>2, <3>1, <4>1 DEF CheckReplay, Deliver, OnceInv, ClaimKnows
    <3>2. CASE claim[a] # "done" BY <1>0, <2>2, <3>2 DEF CheckReplay
    <3> QED BY <3>1, <3>2
  <2>3. CASE AssertPostingWindow(c, a) BY <1>0, <2>3 DEF AssertPostingWindow
  <2>4. CASE RecordHandoff(c, a)
    <3>1. CASE Conflict(a) BY <1>0, <2>4, <3>1 DEF RecordHandoff
    <3>2. CASE ~Conflict(a)
      <4>1. /\ a \in Writes /\ effects' = effects /\ told' = told \cup {a}
            /\ handed' = [handed EXCEPT ![a] = @ + 1]
        BY <2>4, <3>2 DEF RecordHandoff, Deliver, Writes
      <4>2. {b \in Writes : handed'[b] > 0} = {b \in Writes : handed[b] > 0} \cup {a}
        BY <4>1, <2>t
      <4>3. Delivery!Simulate(a) BY <4>1, <4>2 DEF Delivery!Simulate
      <4> QED BY <4>1, <4>3 DEF Delivery!Next
    <3> QED BY <3>1, <3>2
  <2>5. CASE ClaimPost(c, a) BY <1>0, <2>5 DEF ClaimPost
  <2>6. CASE ClaimDraft(c, a)
    <3>1. CASE told' = told BY <1>0, <2>6, <3>1 DEF ClaimDraft
    <3>2. CASE told' # told
      <4>1. /\ a \in Writes /\ claim[a] = "done" /\ told' = told \cup {a}
            /\ UNCHANGED <<effects, handed>>
        BY <2>6, <3>2 DEF ClaimDraft, Deliver, Writes
      <4> QED BY <2>1, <4>1 DEF OnceInv, ClaimKnows
    <3> QED BY <3>1, <3>2
  <2>7. CASE Write(c, a)
    <3>1. PICK n \in {0, 1} : effects' = [effects EXCEPT ![a] = @ + n]
      BY <2>7 DEF Write, MayHide
    <3>2. /\ UNCHANGED <<handed, told>> /\ a \in Writes /\ effects[a] = 0
      <4>1. Writing(c, a) BY <2>7 DEF Write, At, Writing
      <4> QED BY <2>7, <4>1 DEF Write, At, Typed, CallInv, OnceInv, WriterKnows
    <3>3. CASE n = 0
      <4>1. effects' = effects BY <3>1, <3>2, <3>3, <2>t
      <4> QED BY <1>0, <3>2, <4>1
    <3>4. CASE n = 1
      <4>1. /\ [b \in Writes |-> effects'[b]]
                 = [[b \in Writes |-> effects[b]] EXCEPT ![a] = 1]
            /\ [b \in Writes |-> effects[b]][a] = 0
        <5> DEFINE acc == [b \in Writes |-> effects[b]]  acc2 == [b \in Writes |-> effects'[b]]
        <5>1. \A b \in Writes : effects'[b] = IF b = a THEN 1 ELSE effects[b]
          BY <3>1, <3>2, <3>4, <2>t
        <5>2. acc2 = [b \in Writes |-> IF b = a THEN 1 ELSE acc[b]] BY <5>1
        <5>3. [acc EXCEPT ![a] = 1] = [b \in Writes |-> IF b = a THEN 1 ELSE acc[b]] OBVIOUS
        <5>4. acc[a] = 0 BY <3>2
        <5> QED BY <5>2, <5>3, <5>4
      <4>2. Delivery!Accept(a) BY <3>2, <4>1 DEF Delivery!Accept
      <4> QED BY <3>2, <4>2 DEF Delivery!Next
    <3> QED BY <3>3, <3>4
  <2>8. CASE Settle(c, a)
    <3>1. a \in Writes /\ Writing(c, a) /\ KindOf[a] # "handoff"
      BY <2>8 DEF Settle, At, Writing, Typed, CallInv
    <3>2. CASE answer[c] = "ok"
      <4>1. effects[a] = 1 /\ handed[a] = 0
        BY <3>1, <3>2 DEF OnceInv, ClaimKnows, WriterKnows
      <4> QED BY <2>1, <2>8, <3>1, <3>2, <4>1 DEF Settle, Deliver
    <3>3. CASE answer[c] # "ok" BY <1>0, <2>8, <3>3 DEF Settle
    <3> QED BY <3>2, <3>3
  <2> QED BY <1>5, <2>2, <2>3, <2>4, <2>5, <2>6, <2>7, <2>8 DEF Reply
<1> QED BY <1>1, <1>2, <1>3, <1>4, <1>5 DEF Next

(* The reply, the handoff and the draft keep the promise of the email       *)
(* ledger: at most one effect, and no report of a delivery without one.    *)
THEOREM WritesRefine == ASSUME WritesAssumption PROVE Spec => ImplementsAtMostOnceSend
<1>1. Init => Delivery!Init
  <2> SUFFICES ASSUME Init PROVE Delivery!Init OBVIOUS
  <2>1. \A a \in Writes : effects[a] = 0 /\ handed[a] = 0 BY DEF Init, Writes
  <2>2. [a \in Writes |-> effects[a]] = [a \in Writes |-> 0] BY <2>1
  <2>3. {a \in Writes : handed[a] > 0} = {} BY <2>1
  <2> QED BY <2>2, <2>3 DEF Init, Delivery!Init
<1>2. Typed /\ OnceInv /\ OnceInv' /\ [Next]_writesVars => [Delivery!Next]_(Delivery!vars)
  BY DeliveryStep
<1> QED BY <1>1, <1>2, OnceAlways, PTL DEF Spec, ImplementsAtMostOnceSend, Delivery!Spec

-----------------------------------------------------------------------------
(* The limit of the day.  An executor past the check counts as a post.     *)
Placed(kind) == {a \in Actions : KindOf[a] = kind /\ claim[a] # "free"}
Past(kind, c) == pc[c] = "claim" /\ cur[c] \in Actions /\ KindOf[cur[c]] = kind
Through(kind) == {c \in Executors : Past(kind, c)}
LimitInv == \A kind \in {"reply", "handoff"} :
    /\ IsFiniteSet(Placed(kind))
    /\ Cardinality(Placed(kind)) + Cardinality(Through(kind)) < Cap + Cardinality(Executors)

(* A step keeps both sets, lets an executor past the check, or places.     *)
Keeps(kind) == /\ Placed(kind)' \subseteq Placed(kind)
               /\ \A c \in Executors : Past(kind, c)' => Past(kind, c)
Lets(kind) == Placed(kind)' = Placed(kind) /\ Cardinality(Placed(kind)) < Cap
Places(kind) == \E c \in Executors, a \in Actions :
    /\ Past(kind, c) /\ ~Past(kind, c)' /\ Placed(kind)' = Placed(kind) \cup {a}
    /\ \A d \in Executors : Past(kind, d)' => Past(kind, d)

LEMMA LimitMoves ==
  ASSUME WritesAssumption, Typed, OnceInv, [Next]_writesVars, NEW kind \in {"reply", "handoff"}
  PROVE  Keeps(kind) \/ Lets(kind) \/ Places(kind)
<1> USE DEF rowVars, historyVars, Goto, Return, Continue
<1>t. /\ pc \in [Executors -> Phase] /\ cur \in [Executors -> Actions \cup {None}]
      /\ claim \in [Actions -> {"free", "held", "done"}]
  BY DEF Typed, TypeOK
<1>k. ASSUME claim' = claim, NEW c \in Executors, pc'[c] # "claim",
             \A d \in Executors \ {c} : pc'[d] = pc[d] /\ cur'[d] = cur[d]
      PROVE  Keeps(kind)
  BY <1>k DEF Keeps, Placed, Past
<1>1. CASE UNCHANGED writesVars BY <1>1 DEF writesVars, Keeps, Placed, Past
<1>2. ASSUME NEW c \in Executors, Interrupted(c) PROVE Keeps(kind)
  BY <1>2, <1>t, <1>k DEF Interrupted
<1>3. ASSUME NEW c \in Executors, NEW a \in Actions, Begin(c, a) PROVE Keeps(kind)
  <2>1. CASE First[KindOf[a]] # "claim" BY <1>3, <2>1, <1>t, <1>k DEF Begin
  <2>2. CASE First[KindOf[a]] = "claim"
    <3>1. KindOf[a] = "draft"
      BY <2>2 DEF WritesAssumption, First
    <3>2. /\ claim' = claim /\ cur'[c] = a
          /\ \A d \in Executors \ {c} : pc'[d] = pc[d] /\ cur'[d] = cur[d]
      BY <1>3, <1>t DEF Begin
    <3> QED BY <3>1, <3>2 DEF Keeps, Placed, Past
  <2> QED BY <2>1, <2>2
<1>4. ASSUME NEW c \in Executors, NEW a \in Actions, Reply(c, a)
      PROVE  Keeps(kind) \/ Lets(kind) \/ Places(kind)
  <2> USE DEF At, Claim
  <2>1. CASE CheckReplay(c, a) BY <2>1, <1>t, <1>k DEF CheckReplay
  <2>2. CASE AssertPostingWindow(c, a)
    <3>1. CASE pc'[c] # "claim" BY <2>2, <3>1, <1>t, <1>k DEF AssertPostingWindow
    <3>2. CASE pc'[c] = "claim"
      <4>1. /\ claim' = claim /\ cur' = cur /\ cur[c] = a
            /\ Cardinality(PostsOf(KindOf[a])) < Cap
            /\ \A d \in Executors \ {c} : pc'[d] = pc[d]
        BY <2>2, <3>2, <1>t DEF AssertPostingWindow
      <4>2. CASE KindOf[a] = kind
        <5>1. PostsOf(kind) = Placed(kind) BY DEF PostsOf, Placed, Posts
        <5> QED BY <4>1, <4>2, <5>1 DEF Lets, Placed
      <4>3. CASE KindOf[a] # kind BY <4>1, <4>3 DEF Keeps, Placed, Past
      <4> QED BY <4>2, <4>3
    <3> QED BY <3>1, <3>2
  <2>3. ASSUME cur[c] = a, pc[c] = "claim", pc'[c] # "claim",
               claim' = [claim EXCEPT ![a] = "held"] \/ claim' = [claim EXCEPT ![a] = "done"],
               \A d \in Executors \ {c} : pc'[d] = pc[d] /\ cur'[d] = cur[d]
        PROVE  Keeps(kind) \/ Places(kind)
    <3>1. CASE KindOf[a] = kind
      <4>1. Placed(kind)' = Placed(kind) \cup {a} BY <2>3, <3>1, <1>t DEF Placed
      <4>2. Past(kind, c) /\ ~Past(kind, c)' BY <2>3, <3>1 DEF Past
      <4>3. \A d \in Executors : Past(kind, d)' => Past(kind, d) BY <2>3 DEF Past
      <4> QED BY <4>1, <4>2, <4>3 DEF Places
    <3>2. CASE KindOf[a] # kind
      <4>1. Placed(kind)' = Placed(kind) BY <2>3, <3>2, <1>t DEF Placed
      <4> QED BY <2>3, <4>1 DEF Keeps, Past
    <3> QED BY <3>1, <3>2
  <2>4. CASE RecordHandoff(c, a)
    <3>1. CASE Conflict(a) BY <2>4, <3>1, <1>t, <1>k DEF RecordHandoff
    <3>2. CASE ~Conflict(a) BY <2>4, <3>2, <1>t, <2>3 DEF RecordHandoff
    <3> QED BY <3>1, <3>2
  <2>5. CASE ClaimPost(c, a) \/ ClaimDraft(c, a)
    <3>1. CASE claim' = claim
      <4>1. pc'[c] # "claim" BY <2>5, <1>t DEF ClaimPost, ClaimDraft
      <4>2. \A d \in Executors \ {c} : pc'[d] = pc[d] /\ cur'[d] = cur[d]
        BY <2>5, <1>t DEF ClaimPost, ClaimDraft
      <4> QED BY <3>1, <4>1, <4>2, <1>k
    <3>2. CASE claim' # claim BY <2>5, <3>2, <1>t, <2>3 DEF ClaimPost, ClaimDraft
    <3> QED BY <3>1, <3>2
  <2>6. CASE Write(c, a) BY <2>6, <1>t, <1>k DEF Write
  <2>7. CASE Settle(c, a)
    <3>1. claim[a] # "free" BY <2>7 DEF Settle, OnceInv, OneWriter, Writing
    <3>2. /\ pc'[c] # "claim" /\ claim' = [claim EXCEPT ![a] = Settled(answer[c])]
          /\ \A d \in Executors \ {c} : pc'[d] = pc[d] /\ cur'[d] = cur[d]
      BY <2>7, <1>t DEF Settle
    <3> QED BY <3>1, <3>2, <1>t DEF Keeps, Placed, Past
  <2> QED BY <1>4, <2>1, <2>2, <2>4, <2>5, <2>6, <2>7 DEF Reply
<1>5. ASSUME NEW c \in Executors, NEW a \in Actions, Note(c, a) PROVE Keeps(kind)
  <2>1. /\ claim' = claim /\ pc'[c] # "claim"
        /\ \A d \in Executors \ {c} : pc'[d] = pc[d] /\ cur'[d] = cur[d]
    BY <1>5, <1>t DEF Note, At, LookUpNote, InsertSkipped, InsertActivity, LogActivity,
                      SettleActivity, Route
  <2> QED BY <2>1, <1>k
<1> QED BY <1>1, <1>2, <1>3, <1>4, <1>5 DEF Next

LEMMA LimitStep ==
  ASSUME WritesAssumption, Typed, OnceInv, LimitInv, [Next]_writesVars
  PROVE  LimitInv'
<1> SUFFICES ASSUME NEW kind \in {"reply", "handoff"}
             PROVE  /\ IsFiniteSet(Placed(kind)')
                    /\ Cardinality(Placed(kind)') + Cardinality(Through(kind)')
                         < Cap + Cardinality(Executors)
  BY DEF LimitInv
<1> DEFINE S == Placed(kind)  T == Placed(kind)'  A == Through(kind)  B == Through(kind)'
<1> HIDE DEF S, T, A, B
<1>1. IsFiniteSet(S) /\ Cardinality(S) + Cardinality(A) < Cap + Cardinality(Executors)
  BY DEF LimitInv, S, A
<1>2. /\ IsFiniteSet(A) /\ IsFiniteSet(B) /\ Cardinality(B) <= Cardinality(Executors)
      /\ Cardinality(S) \in Nat /\ Cardinality(A) \in Nat /\ Cardinality(B) \in Nat
      /\ Cardinality(Executors) \in Nat /\ Cap \in Nat
  <2>1. A \subseteq Executors /\ B \subseteq Executors BY DEF A, B, Through
  <2> QED BY <1>1, <2>1, FS_Subset, FS_CardinalityType DEF WritesAssumption
<1>3. CASE Keeps(kind)
  <2>1. T \subseteq S /\ B \subseteq A BY <1>3 DEF Keeps, S, T, A, B, Through
  <2>2. /\ IsFiniteSet(T) /\ Cardinality(T) \in Nat
        /\ Cardinality(T) <= Cardinality(S) /\ Cardinality(B) <= Cardinality(A)
    BY <1>1, <1>2, <2>1, FS_Subset, FS_CardinalityType
  <2> QED BY <1>1, <1>2, <2>2 DEF T, B
<1>4. CASE Lets(kind)
  <2>1. T = S /\ Cardinality(S) < Cap BY <1>4 DEF Lets, S, T
  <2> QED BY <1>1, <1>2, <2>1 DEF T, B
<1>5. CASE Places(kind)
  <2>1. PICK c \in Executors, a \in Actions :
          c \in A /\ c \notin B /\ T = S \cup {a} /\ B \subseteq A
    BY <1>5 DEF Places, S, T, A, B, Through
  <2>2. IsFiniteSet(T) /\ Cardinality(T) \in Nat /\ Cardinality(T) <= Cardinality(S) + 1
    <3>1. IsFiniteSet(T) /\ (Cardinality(T) = Cardinality(S) \/ Cardinality(T) = Cardinality(S) + 1)
      BY <1>1, <2>1, FS_AddElement
    <3> QED BY <1>2, <3>1
  <2>3. /\ IsFiniteSet(A \ {c}) /\ Cardinality(A \ {c}) = Cardinality(A) - 1
        /\ B \subseteq A \ {c}
    BY <1>2, <2>1, FS_RemoveElement
  <2>4. Cardinality(B) <= Cardinality(A) - 1 BY <2>3, FS_Subset
  <2> QED BY <1>1, <1>2, <2>2, <2>4 DEF T, B
<1> QED BY <1>3, <1>4, <1>5, LimitMoves

(* A platform's limit of the day is exceeded by the executors that were     *)
(* between the check and the claim, by one post each, whatever happens.    *)
THEOREM PostsAlwaysBounded == ASSUME WritesAssumption PROVE Spec => []PostsBounded
<1>1. Init => LimitInv
  <2> SUFFICES ASSUME Init PROVE LimitInv OBVIOUS
  <2>1. \A kind \in {"reply", "handoff"} : Placed(kind) = {} /\ Through(kind) = {}
    BY DEF Init, Placed, Through, Past
  <2>2. Cardinality(Executors) \in Nat /\ Cap \in Nat \ {0}
    BY FS_CardinalityType DEF WritesAssumption
  <2> QED BY <2>1, <2>2, FS_EmptySet DEF LimitInv
<1>2. Typed /\ OnceInv /\ LimitInv /\ [Next]_writesVars => LimitInv' BY LimitStep
<1>3. LimitInv => PostsBounded
  <2> SUFFICES ASSUME LimitInv, NEW kind \in {"reply", "handoff"}
               PROVE  Cardinality(Placed(kind)) < Cap + Cardinality(Executors)
    BY DEF PostsBounded, Placed
  <2>1. Through(kind) \subseteq Executors BY DEF Through
  <2>2. /\ Cardinality(Placed(kind)) \in Nat /\ Cardinality(Through(kind)) \in Nat
        /\ Cardinality(Executors) \in Nat /\ Cap \in Nat
    BY <2>1, FS_Subset, FS_CardinalityType DEF LimitInv, WritesAssumption
  <2> QED BY <2>2 DEF LimitInv
<1> QED BY <1>1, <1>2, <1>3, OnceAlways, PTL DEF Spec

-----------------------------------------------------------------------------
(* Notes.  A call that writes a note, or was refused it, holds a token; a   *)
(* row that is not free has let one call write.                            *)
Token(c, a) == cur[c] = a /\ ( \/ pc[c] = "log"
                               \/ pc[c] = "settleNote" /\ answer[c] \in {"refused", "timeout"} )
Tokens(a) == {c \in Executors : Token(c, a)}
Taken(a) == IF note[a] = "free" THEN 0 ELSE 1
NoteInv == \A a \in Actions : notes[a] + Cardinality(Tokens(a)) <= excuses[a] + Taken(a)

(* What a step does to the tokens of a source.                             *)
Same(a) == \A c \in Executors : Token(c, a)' => Token(c, a)
SameBut(a, c) == \A d \in Executors \ {c} : Token(d, a)' => Token(d, a)
Quiet(a) == Same(a) /\ notes'[a] = notes[a] /\ excuses'[a] = excuses[a] /\ Taken(a) <= Taken(a)'
Gives(a, c) == /\ SameBut(a, c) /\ notes'[a] = notes[a]
               /\ excuses'[a] + Taken(a)' = excuses[a] + Taken(a) + 1
Excused(a) == \E n \in Nat :
    /\ Same(a) /\ notes'[a] <= notes[a] + n /\ excuses'[a] = excuses[a] + n
    /\ Taken(a)' = Taken(a)
Spends(a, c) == \E n \in Nat :
    /\ Token(c, a) /\ ~Token(c, a)' /\ Same(a)
    /\ notes'[a] <= notes[a] + n + 1 /\ excuses'[a] = excuses[a] + n /\ Taken(a)' = Taken(a)
Releases(a, c) == /\ Token(c, a) /\ ~Token(c, a)' /\ Same(a)
                  /\ notes'[a] = notes[a] /\ excuses'[a] = excuses[a]
NoteMoves(a) == Quiet(a) \/ Excused(a)
    \/ \E c \in Executors : Gives(a, c) \/ Spends(a, c) \/ Releases(a, c)

LEMMA NoteTokens ==
  ASSUME WritesAssumption, Typed, Typed', NoteInv, \A a \in Actions : NoteMoves(a)
  PROVE  NoteInv'
<1> SUFFICES ASSUME NEW a \in Actions
             PROVE  notes'[a] + Cardinality(Tokens(a)') <= excuses'[a] + Taken(a)'
  BY DEF NoteInv
<1> DEFINE S == Tokens(a)  T == Tokens(a)'
<1> HIDE DEF S, T
<1>1. /\ notes[a] \in Nat /\ excuses[a] \in Nat /\ notes'[a] \in Nat /\ excuses'[a] \in Nat
      /\ Taken(a) \in {0, 1} /\ Taken(a)' \in {0, 1}
  BY DEF Typed, TypeOK, Taken
<1>2. /\ IsFiniteSet(S) /\ IsFiniteSet(T) /\ Cardinality(S) \in Nat /\ Cardinality(T) \in Nat
  <2>1. S \subseteq Executors /\ T \subseteq Executors BY DEF S, T, Tokens
  <2> QED BY <2>1, FS_Subset, FS_CardinalityType DEF WritesAssumption
<1>3. notes[a] + Cardinality(S) <= excuses[a] + Taken(a) BY DEF NoteInv, S
<1>4. Same(a) => Cardinality(T) <= Cardinality(S)
  <2>1. Same(a) => T \subseteq S BY DEF Same, S, T, Tokens
  <2> QED BY <1>2, <2>1, FS_Subset
<1>5. ASSUME NEW c \in Executors, Token(c, a), ~Token(c, a)', Same(a)
      PROVE  Cardinality(T) <= Cardinality(S) - 1
  <2>1. c \in S /\ T \subseteq S \ {c} BY <1>5 DEF Same, S, T, Tokens
  <2>2. IsFiniteSet(S \ {c}) /\ Cardinality(S \ {c}) = Cardinality(S) - 1
    BY <1>2, <2>1, FS_RemoveElement
  <2> QED BY <2>1, <2>2, FS_Subset
<1>6. CASE Quiet(a) BY <1>1, <1>2, <1>3, <1>4, <1>6 DEF Quiet, T
<1>7. CASE Excused(a) BY <1>1, <1>2, <1>3, <1>4, <1>7 DEF Excused, T
<1>8. ASSUME NEW c \in Executors, Gives(a, c)
      PROVE  notes'[a] + Cardinality(T) <= excuses'[a] + Taken(a)'
  <2>1. T \subseteq S \cup {c} BY <1>8 DEF Gives, SameBut, S, T, Tokens
  <2>2. /\ IsFiniteSet(S \cup {c})
        /\ Cardinality(S \cup {c}) = Cardinality(S) \/ Cardinality(S \cup {c}) = Cardinality(S) + 1
    BY <1>2, FS_AddElement
  <2>3. Cardinality(T) <= Cardinality(S) + 1 BY <1>2, <2>1, <2>2, FS_Subset
  <2> QED BY <1>1, <1>2, <1>3, <1>8, <2>3 DEF Gives
<1>9. ASSUME NEW c \in Executors, Spends(a, c) \/ Releases(a, c)
      PROVE  notes'[a] + Cardinality(T) <= excuses'[a] + Taken(a)'
  <2>1. Cardinality(T) <= Cardinality(S) - 1 BY <1>5, <1>9 DEF Spends, Releases
  <2> QED BY <1>1, <1>2, <1>3, <1>9, <2>1 DEF Spends, Releases
<1> QED BY <1>6, <1>7, <1>8, <1>9 DEF NoteMoves, T

LEMMA NoteMoved ==
  ASSUME WritesAssumption, Typed, [Next]_writesVars, NEW b \in Actions
  PROVE  NoteMoves(b)
<1> USE DEF rowVars, historyVars, Goto, Return, Continue
<1>t. /\ pc \in [Executors -> Phase] /\ cur \in [Executors -> Actions \cup {None}]
      /\ answer \in [Executors -> Answer] /\ notes \in [Actions -> Nat]
      /\ excuses \in [Actions -> Nat]
      /\ note \in [Actions -> {"free", "pending", "written", "skipped"}]
      /\ \A c \in Executors : answer[c] # "none" => pc[c] \in {"settle", "settleNote"}
  BY DEF Typed, TypeOK
<1>k. ASSUME UNCHANGED <<notes, excuses>>, note'[b] = note[b], NEW c \in Executors,
             pc'[c] \notin {"log", "settleNote"},
             \A d \in Executors \ {c} : pc'[d] = pc[d] /\ cur'[d] = cur[d] /\ answer'[d] = answer[d]
      PROVE  Quiet(b)
  BY <1>k DEF Quiet, Same, Token, Taken
<1>1. CASE UNCHANGED writesVars BY <1>1 DEF writesVars, NoteMoves, Quiet, Same, Token, Taken
<1>2. ASSUME NEW c \in Executors, Interrupted(c) PROVE Quiet(b)
  BY <1>2, <1>t, <1>k DEF Interrupted
<1>3. ASSUME NEW c \in Executors, NEW a \in Actions, Begin(c, a) PROVE Quiet(b)
  BY <1>3, <1>t, <1>k, FirstPhase DEF Begin
<1>4. ASSUME NEW c \in Executors, NEW a \in Actions, Reply(c, a) PROVE Quiet(b)
  <2>1. UNCHANGED <<note, notes, excuses>>
    BY <1>4 DEF Reply, CheckReplay, AssertPostingWindow, RecordHandoff, ClaimPost, ClaimDraft,
                Write, Settle
  <2>2. /\ pc'[c] \notin {"log", "settleNote"}
        /\ \A d \in Executors \ {c} : pc'[d] = pc[d] /\ cur'[d] = cur[d] /\ answer'[d] = answer[d]
    BY <1>4, <1>t DEF Reply, At, CheckReplay, AssertPostingWindow, RecordHandoff, ClaimPost,
                      ClaimDraft, Write, Settle, Hear
  <2> QED BY <2>1, <2>2, <1>k
<1>5. ASSUME NEW c \in Executors, NEW a \in Actions, Note(c, a) PROVE NoteMoves(b)
  <2> USE DEF At
  <2>o. ASSUME a # b
        PROVE  Quiet(b)
    <3>1. note'[b] = note[b] /\ notes'[b] = notes[b] /\ excuses'[b] = excuses[b]
      BY <2>o, <1>5, <1>t DEF Note, LookUpNote, InsertSkipped, Inserted, InsertActivity, LogActivity,
                              SettleActivity, Excuse
    <3>2. /\ cur'[c] # b
          /\ \A d \in Executors \ {c} :
                pc'[d] = pc[d] /\ cur'[d] = cur[d] /\ answer'[d] = answer[d]
      BY <2>o, <1>5, <1>t DEF Note, LookUpNote, InsertSkipped, InsertActivity, LogActivity,
                              SettleActivity, Hear, WritesAssumption
    <3> QED BY <3>1, <3>2 DEF Quiet, Same, Token, Taken
  <2>p. \A d \in Executors \ {c} :
           pc'[d] = pc[d] /\ cur'[d] = cur[d] /\ answer'[d] = answer[d]
    BY <1>5, <1>t DEF Note, LookUpNote, InsertSkipped, InsertActivity, LogActivity,
                      SettleActivity, Hear
  <2>s. ASSUME Token(c, b)' => Token(c, b) PROVE Same(b)
    BY <2>p, <2>s DEF Same, Token
  <2>1. CASE LookUpNote(c, a) BY <2>1, <1>t, <1>k DEF LookUpNote, Route, NoteMoves
  <2>2. CASE a = b /\ InsertSkipped(c, a)
    <3>1. ~Token(c, b)' BY <2>2, <1>t DEF InsertSkipped, Token
    <3>2. Taken(b) <= Taken(b)' BY <2>2, <1>t DEF InsertSkipped, Inserted, Taken
    <3> QED BY <2>2, <2>s, <3>1, <3>2 DEF InsertSkipped, NoteMoves, Quiet
  <2>3. CASE a = b /\ InsertActivity(c, a)
    <3>1. excuses'[b] + Taken(b)' = excuses[b] + Taken(b) + 1
      <4>1. CASE note[b] = "free"
        BY <2>3, <4>1, <1>t DEF InsertActivity, Inserted, Taken, Excuse
      <4>2. CASE note[b] # "free"
        BY <2>3, <4>2, <1>t DEF InsertActivity, Inserted, Taken, Excuse
      <4> QED BY <4>1, <4>2
    <3>2. SameBut(b, c) BY <2>p DEF SameBut, Token
    <3> QED BY <2>3, <3>1, <3>2 DEF InsertActivity, NoteMoves, Gives
  <2>4. CASE a = b /\ LogActivity(c, a)
    <3>1. PICK ans \in Answer, repeats \in Nat, hidden \in Nat, n \in {0, 1} :
            /\ hidden <= repeats /\ n \in MayHide(ans)
            /\ Hear(c, ans) /\ notes' = [notes EXCEPT ![a] = @ + (hidden + n)]
            /\ Excuse(a, repeats + (IF ans = "timeout" THEN n ELSE 0))
      BY <2>4, LogMoves
    <3>2. /\ Token(c, b) /\ pc'[c] = "settleNote" /\ answer'[c] = ans /\ cur'[c] = b
          /\ Taken(b)' = Taken(b)
      BY <2>4, <3>1, <1>t DEF LogActivity, Token, Hear, Taken
    <3>3. Same(b) BY <2>s, <3>2
    <3>4. notes'[b] = notes[b] + (hidden + n) /\ notes[b] \in Nat
      BY <2>4, <3>1, <1>t
    <3>5. CASE ans \in {"refused", "timeout"}
      <4> DEFINE m == repeats + (IF ans = "timeout" THEN n ELSE 0)
      <4>1. m \in Nat /\ hidden + n <= m BY <3>1, <3>5 DEF MayHide
      <4>2. excuses'[b] = excuses[b] + m BY <2>4, <3>1, <1>t DEF Excuse
      <4>3. notes'[b] <= notes[b] + m BY <3>4, <4>1
      <4> QED BY <3>2, <3>3, <4>1, <4>2, <4>3 DEF NoteMoves, Excused
    <3>6. CASE ans \notin {"refused", "timeout"}
      <4>1. ~Token(c, b)' BY <3>2, <3>6 DEF Token
      <4>2. excuses'[b] = excuses[b] + repeats BY <2>4, <3>1, <3>6, <1>t DEF Excuse
      <4>3. notes'[b] <= notes[b] + repeats + 1 BY <3>1, <3>4
      <4> QED BY <3>2, <3>3, <4>1, <4>2, <4>3 DEF NoteMoves, Spends
    <3> QED BY <3>5, <3>6
  <2>5. CASE a = b /\ SettleActivity(c, a)
    <3>1. ~Token(c, b)' /\ UNCHANGED <<notes, excuses>> BY <2>5, <1>t DEF SettleActivity, Token
    <3>2. Same(b) BY <3>1, <2>s
    <3>3. CASE writer[a] = c /\ answer[c] \in {"refused", "timeout"}
      <4>1. Token(c, b) BY <2>5, <3>3 DEF SettleActivity, Token
      <4> QED BY <3>1, <3>2, <4>1 DEF NoteMoves, Releases
    <3>4. CASE ~(writer[a] = c /\ answer[c] \in {"refused", "timeout"})
      <4>1. Taken(b) <= Taken(b)'
        BY <2>5, <3>4, <1>t DEF SettleActivity, NoteStatus, Taken
      <4> QED BY <3>1, <3>2, <4>1 DEF NoteMoves, Quiet
    <3> QED BY <3>3, <3>4
  <2> QED BY <1>5, <2>o, <2>1, <2>2, <2>3, <2>4, <2>5 DEF Note, NoteMoves
<1> QED BY <1>1, <1>2, <1>3, <1>4, <1>5 DEF Next, NoteMoves

(* A contact gets one more note about a source at most for each lost        *)
(* insert, each request the proxy repeated and each 408 that hid a note,   *)
(* however often calls crash and repeat.                                   *)
THEOREM SecondNoteAlwaysHasAReason ==
  ASSUME WritesAssumption PROVE Spec => []SecondNoteHasAReason
<1>1. Init => NoteInv
  <2> SUFFICES ASSUME Init, NEW a \in Actions
               PROVE  notes[a] + Cardinality(Tokens(a)) <= excuses[a] + Taken(a)
    BY DEF NoteInv
  <2>1. Tokens(a) = {} BY DEF Init, Tokens, Token
  <2> QED BY <2>1, FS_EmptySet DEF Init, Taken
<1>2. Typed /\ Typed' /\ NoteInv /\ [Next]_writesVars => NoteInv'
  BY NoteMoved, NoteTokens
<1>3. Typed /\ NoteInv => SecondNoteHasAReason
  <2> SUFFICES ASSUME Typed, NoteInv, NEW a \in Actions PROVE notes[a] <= 1 + excuses[a]
    BY DEF SecondNoteHasAReason
  <2>1. Cardinality(Tokens(a)) \in Nat
    <3>1. Tokens(a) \subseteq Executors BY DEF Tokens
    <3> QED BY <3>1, FS_Subset, FS_CardinalityType DEF WritesAssumption
  <2>2. notes[a] \in Nat /\ excuses[a] \in Nat /\ Taken(a) \in {0, 1}
    BY DEF Typed, TypeOK, Taken
  <2> QED BY <2>1, <2>2 DEF NoteInv
<1> QED BY <1>1, <1>2, <1>3, OnceAlways, PTL DEF Spec

=============================================================================
