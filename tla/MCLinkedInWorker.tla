------------------------- MODULE MCLinkedInWorker -------------------------
(* Instances of LinkedInWorker for TLC: a worker for each of two sittings, *)
(* or one for all; rows by kind.                                           *)
EXTENDS LinkedInWorker, TLC

CONSTANTS s1, s2, a1, a2, w1, w2

TwoWorkers == (s1 :> w1) @@ (s2 :> w2)
OneWorker == [s \in Sittings |-> w1]
Invites == [a \in Actions |-> "invite"]
Messages == [a \in Actions |-> "dm"]

(* A sitting changes places together with its worker.                      *)
SeatSymmetry == {p \in Permutations({s1, s2, w1, w2}) :
    \A s \in {s1, s2} : p[s] \in {s1, s2} /\ p[TwoWorkers[s]] = TwoWorkers[p[s]]}
=============================================================================
