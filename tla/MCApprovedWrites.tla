------------------------- MODULE MCApprovedWrites -------------------------
(* Instances of ApprovedWrites for TLC.                                    *)
EXTENDS ApprovedWrites, TLC
CONSTANTS e1, e2, reply1, reply2, reply3, handoff1, note1, draft1

OneOfEach == (reply1 :> "reply") @@ (reply2 :> "reply") @@ (reply3 :> "reply") @@ (handoff1 :> "handoff")
             @@ (draft1 :> "draft") @@ (note1 :> "note")
Workers == Permutations({e1, e2}) \cup Permutations({reply1, reply2, reply3})
===========================================================================
