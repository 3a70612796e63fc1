-------------------------- MODULE ApprovedWrites --------------------------
(***************************************************************************)
(* The external writes of approved actions that are not email, as          *)
(* executeApprovedActionTarget makes them (control-plane/execution.ts):    *)
(* the community reply and its handoff to a human (outreach/publish.ts,    *)
(* store.ts), the note in the CRM, by itself or mirroring a reply          *)
(* (crm/activity.ts), and the Buffer draft (content/buffer.ts).            *)
(*                                                                         *)
(* An executor is whoever runs the connector: the playbook engine calls it *)
(* again after an error, and twice at once after a lease ran out.  The     *)
(* platforms are outside src/: a write is an effect, or none, and an       *)
(* answer.                                                                 *)
(***************************************************************************)
EXTENDS Naturals, FiniteSets

CONSTANTS
    Executors,    \* calls of executeApprovedActionTarget at once
    Actions,      \* approved actions, by payload hash
    None,         \* no action, no executor
    KindOf,       \* action -> reply or handoff (as its platform has it), note or draft
    Known,        \* actions whose contact the CRM has
    Cap,          \* maxPostsPerDay of a platform; no day ends
    MaxEvents     \* bound: crashes, statements that throw, lost inserts, requests repeated
                  \* by the proxy, 408s that hide a note

ASSUME WritesAssumption ==
    /\ IsFiniteSet(Executors) /\ None \notin Executors \cup Actions
    /\ KindOf \in [Actions -> {"reply", "handoff", "note", "draft"}] /\ Known \subseteq Actions
    /\ Cap \in Nat \ {0} /\ MaxEvents \in Nat

VARIABLES
    claim,          \* outreach_posts or content_buffer_drafts: action -> "free" (no row, or
                    \* a failed one), "held" (pending, creating, unknown) or "done"
    note, writer,   \* crm_activities: source -> status, and who inserted the row
    pc, cur,        \* executor -> where it is, and its action
    answer,         \* executor -> the platform's answer
    \* history
    effects,        \* action -> replies published, drafts created
    handed,         \* action -> replies handed to a human
    told,           \* actions some executor was told were delivered
    notes,          \* source -> notes in the CRM
    excuses,        \* source -> reasons for one more
    events

rowVars == <<claim, note, writer>>
historyVars == <<effects, handed, told>>
writesVars == <<rowVars, pc, cur, answer, historyVars, notes, excuses, events>>

Phase == {"idle", "guard", "window", "claim", "write", "settle", "lookup", "skip", "insert",
          "log", "settleNote"}
Answer == {"none", "ok", "refused", "timeout", "unknown"}
Posts == {a \in Actions : KindOf[a] \in {"reply", "handoff"}}
Writes == {a \in Actions : KindOf[a] # "note"}

Init ==
    /\ claim = [a \in Actions |-> "free"]
    /\ note = [a \in Actions |-> "free"] /\ writer = [a \in Actions |-> None]
    /\ pc = [c \in Executors |-> "idle"] /\ cur = [c \in Executors |-> None]
    /\ answer = [c \in Executors |-> "none"]
    /\ effects = [a \in Actions |-> 0] /\ handed = [a \in Actions |-> 0] /\ told = {}
    /\ notes = [a \in Actions |-> 0] /\ excuses = [a \in Actions |-> 0]
    /\ events = 0

Goto(c, phase) == pc' = [pc EXCEPT ![c] = phase]
At(c, a, phase) == pc[c] = phase /\ cur[c] = a
(* The call is over, whatever it returned or threw.                        *)
Return(c) ==
    /\ Goto(c, "idle")
    /\ cur' = [cur EXCEPT ![c] = None] /\ answer' = [answer EXCEPT ![c] = "none"]
Continue(c, phase) ==
    Goto(c, phase) /\ answer' = [answer EXCEPT ![c] = "none"] /\ UNCHANGED cur
Hear(c, ans) == answer' = [answer EXCEPT ![c] = ans]
Claim(a, status) == claim' = [claim EXCEPT ![a] = status]
Deliver(a) == told' = told \cup {a}

First == [reply |-> "guard", handoff |-> "guard", note |-> "lookup", draft |-> "claim"]
Begin(c, a) ==
    /\ pc[c] = "idle"
    /\ Goto(c, First[KindOf[a]]) /\ cur' = [cur EXCEPT ![c] = a]
    /\ UNCHANGED <<rowVars, answer, historyVars, notes, excuses, events>>

-----------------------------------------------------------------------------
(* The reply.  existingPost and the claim are two statements; so are the   *)
(* limits of the day and the claim.                                        *)
CheckReplay(c, a) ==
    /\ At(c, a, "guard")
    /\ \/ claim[a] = "free" /\ Goto(c, "window") /\ UNCHANGED <<cur, answer, told>>
       \/ claim[a] = "held" /\ Return(c) /\ UNCHANGED told
       \/ claim[a] = "done" /\ Deliver(a) /\ Goto(c, "lookup") /\ UNCHANGED <<cur, answer>>
    /\ UNCHANGED <<rowVars, effects, handed, notes, excuses, events>>

Delivered(kind) == {a \in Posts : KindOf[a] = kind /\ claim[a] = "done"}  \* mutant: pending posts are not counted
PostsOf(kind) == {a \in Posts : KindOf[a] = kind /\ claim[a] # "free"}
AssertPostingWindow(c, a) ==
    /\ At(c, a, "window")
    /\ \/ /\ Cardinality(PostsOf(KindOf[a])) < Cap
          /\ Goto(c, "claim") /\ UNCHANGED <<cur, answer>>
       \/ Return(c)    \* the limit, or the cooldown of the community
    /\ UNCHANGED <<rowVars, historyVars, notes, excuses, events>>

(* The partial unique index decides who holds the payload.                 *)
NeverConflicts(a) == FALSE    \* mutant: a duplicate row is not reported
Conflict(a) == claim[a] # "free"
RecordHandoff(c, a) ==
    /\ At(c, a, "claim") /\ KindOf[a] = "handoff"
    /\ IF ~Conflict(a)
       THEN /\ Claim(a, "done") /\ handed' = [handed EXCEPT ![a] = @ + 1] /\ Deliver(a)
            /\ Goto(c, "lookup") /\ UNCHANGED <<cur, answer>>
       ELSE Return(c) /\ UNCHANGED <<claim, handed, told>>
    /\ UNCHANGED <<note, writer, effects, notes, excuses, events>>

ClaimPost(c, a) ==
    /\ At(c, a, "claim") /\ KindOf[a] = "reply"
    /\ IF Conflict(a) THEN Return(c) /\ UNCHANGED claim
       ELSE Claim(a, "held") /\ Goto(c, "write") /\ UNCHANGED <<cur, answer>>
    /\ UNCHANGED <<note, writer, historyVars, notes, excuses, events>>

(* One transaction under an advisory lock.                                 *)
ClaimDraft(c, a) ==
    /\ At(c, a, "claim") /\ KindOf[a] = "draft"
    /\ \/ /\ claim[a] = "free" /\ Claim(a, "held") /\ Goto(c, "write")
          /\ UNCHANGED <<cur, answer, told>>
       \/ claim[a] = "held" /\ Return(c) /\ UNCHANGED <<claim, told>>
       \/ claim[a] = "done" /\ Return(c) /\ Deliver(a) /\ UNCHANGED claim
    /\ UNCHANGED <<note, writer, effects, handed, notes, excuses, events>>

(* A refusal wrote nothing; an unknown answer, a 408 or a 5xx among them,  *)
(* may hide an effect.                                                     *)
MayHide(ans) == IF ans = "ok" THEN {1} ELSE IF ans = "refused" THEN {0} ELSE {0, 1}
Write(c, a) ==
    /\ At(c, a, "write")
    /\ \E ans \in {"ok", "refused", "unknown"} : \E n \in MayHide(ans) :
          Hear(c, ans) /\ effects' = [effects EXCEPT ![a] = @ + n]
    /\ Goto(c, "settle")
    /\ UNCHANGED <<rowVars, cur, handed, told, notes, excuses, events>>

AnyErrorReleases(ans) == IF ans = "ok" THEN "done" ELSE "free"    \* mutant: a timeout is a refusal
Settled(ans) == CASE ans = "ok" -> "done" [] ans = "refused" -> "free" [] OTHER -> "held"
Settle(c, a) ==
    /\ At(c, a, "settle")
    /\ Claim(a, Settled(answer[c]))
    /\ IF answer[c] = "ok" THEN Deliver(a) ELSE UNCHANGED told
    /\ IF answer[c] = "ok" /\ KindOf[a] = "reply" THEN Continue(c, "lookup") ELSE Return(c)
    /\ UNCHANGED <<note, writer, effects, handed, notes, excuses, events>>

-----------------------------------------------------------------------------
(* The note, of an action of its own or for a reply that was delivered:    *)
(* the look-up in the table, then the one in the CRM.  No CRM, a row for   *)
(* this source, or a look-up that fails: nothing to do.                    *)
Route(a) == IF a \in Known THEN "insert" ELSE "skip"
LookUpNote(c, a) ==
    /\ At(c, a, "lookup")
    /\ \/ /\ note[a] = "free"
          /\ Goto(c, Route(a)) /\ UNCHANGED <<cur, answer>>
       \/ Return(c)
    /\ UNCHANGED <<rowVars, historyVars, notes, excuses, events>>

(* ON CONFLICT DO NOTHING, and nobody looks whether it did.                *)
Inserted(c, a, status) ==
    IF note[a] = "free"
    THEN note' = [note EXCEPT ![a] = status] /\ writer' = [writer EXCEPT ![a] = c]
    ELSE UNCHANGED <<note, writer>>
InsertSkipped(c, a) ==
    /\ At(c, a, "skip") /\ Inserted(c, a, "skipped") /\ Return(c)
    /\ UNCHANGED <<claim, historyVars, notes, excuses, events>>
Event == events < MaxEvents /\ events' = events + 1
Excuse(a, n) ==
    /\ events + n <= MaxEvents /\ events' = events + n
    /\ excuses' = [excuses EXCEPT ![a] = @ + n]
InsertActivity(c, a) ==
    /\ At(c, a, "insert") /\ Inserted(c, a, "pending") /\ Goto(c, "log")
    /\ Excuse(a, IF note[a] = "free" THEN 0 ELSE 1)
    /\ UNCHANGED <<claim, cur, answer, historyVars, notes>>

(* nangoProxy posts with retries: the proxy repeats a request whose answer *)
(* was a 5xx or was lost, and each of these may have left a note.  Only the*)
(* last answer comes back; a 408 says that the CRM stopped waiting, not    *)
(* that it wrote nothing.                                                  *)
Retries == 2
LogActivity(c, a) ==
    /\ At(c, a, "log")
    /\ \E repeats \in 0..Retries, ans \in Answer \ {"none"} :
       \E hidden \in 0..repeats, n \in MayHide(ans) :
          /\ Hear(c, ans) /\ notes' = [notes EXCEPT ![a] = @ + (hidden + n)]
          /\ Excuse(a, repeats + (IF ans = "timeout" THEN n ELSE 0))
    /\ Goto(c, "settleNote")
    /\ UNCHANGED <<rowVars, cur, historyVars>>

EveryErrorReleases(ans) == IF ans = "ok" THEN "written" ELSE "free"  \* mutant: any error is a refusal
NoteStatus(ans) ==
    CASE ans = "ok" -> "written" [] ans \in {"refused", "timeout"} -> "free" [] OTHER -> "pending"
SettleActivity(c, a) ==
    /\ At(c, a, "settleNote")
    /\ IF writer[a] = c
       THEN /\ note' = [note EXCEPT ![a] = NoteStatus(answer[c])]
            /\ writer' = [writer EXCEPT ![a] = IF note'[a] = "free" THEN None ELSE @]
       ELSE UNCHANGED <<note, writer>>
    /\ Return(c)
    /\ UNCHANGED <<claim, historyVars, notes, excuses, events>>

-----------------------------------------------------------------------------
(* The process dies, or a statement throws; the claim stays as it is.      *)
Interrupted(c) ==
    /\ pc[c] # "idle" /\ Event /\ Return(c)
    /\ UNCHANGED <<rowVars, historyVars, notes, excuses>>

Reply(c, a) ==
    \/ CheckReplay(c, a) \/ AssertPostingWindow(c, a) \/ RecordHandoff(c, a) \/ ClaimPost(c, a)
    \/ ClaimDraft(c, a) \/ Write(c, a) \/ Settle(c, a)
Note(c, a) ==
    \/ LookUpNote(c, a) \/ InsertSkipped(c, a) \/ InsertActivity(c, a)
    \/ LogActivity(c, a) \/ SettleActivity(c, a)
Next ==
    \/ \E c \in Executors, a \in Actions : Begin(c, a) \/ Reply(c, a) \/ Note(c, a)
    \/ \E c \in Executors : Interrupted(c)

Spec == Init /\ [][Next]_writesVars

-----------------------------------------------------------------------------
(* Types; an executor has an action exactly while a call runs, an answer    *)
(* only until it settles, and the CRM has notes of known contacts only.    *)
TypeOK ==
    /\ claim \in [Actions -> {"free", "held", "done"}]
    /\ note \in [Actions -> {"free", "pending", "written", "skipped"}]
    /\ writer \in [Actions -> Executors \cup {None}]
    /\ pc \in [Executors -> Phase] /\ cur \in [Executors -> Actions \cup {None}]
    /\ \A c \in Executors : (pc[c] = "idle") = (cur[c] = None)
    /\ answer \in [Executors -> Answer]
    /\ \A c \in Executors : answer[c] # "none" => pc[c] \in {"settle", "settleNote"}
    /\ effects \in [Actions -> Nat] /\ handed \in [Actions -> Nat] /\ told \in SUBSET Actions
    /\ notes \in [Actions -> Nat] /\ \A a \in Actions : notes[a] > 0 => a \in Known
    /\ excuses \in [Actions -> Nat] /\ events \in Nat

(* A reply is published, a draft is created, once at most, whatever an      *)
(* executor repeats; and only what was published, created or handed to a   *)
(* human is reported as delivered: the promise of the email ledger         *)
(* (AtMostOnceSend), kept by three other tables.                           *)
Delivery == INSTANCE AtMostOnceSend WITH
    Key <- Writes, accepted <- [a \in Writes |-> effects[a]],
    simulated <- {a \in Writes : handed[a] > 0}, told <- told
ImplementsAtMostOnceSend == Delivery!Spec

(* One reply is put before a human once: two executors at once, or an       *)
(* executor that repeats the call, do not hand it off again.               *)
HandedOnce == \A a \in Actions : handed[a] <= 1

(* The limit of the day is read before the claim: every executor that was   *)
(* past the check may exceed it, by one post each and no more.              *)
PostsBounded == \A kind \in {"reply", "handoff"} :
    Cardinality({a \in Actions : KindOf[a] = kind /\ claim[a] # "free"})
        < Cap + Cardinality(Executors)

(* A source has one note in the CRM, and one more at most for each call    *)
(* that lost the insert of its row and wrote the note all the same, for    *)
(* each time the proxy repeated the request of a call, and for each 408    *)
(* that hid a note: the row keeps every other answer, a crash, and an      *)
(* executor that repeats the call from bringing one.                       *)
SecondNoteHasAReason == \A a \in Actions : notes[a] <= 1 + excuses[a]

=============================================================================
