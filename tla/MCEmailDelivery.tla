-------------------------- MODULE MCEmailDelivery --------------------------
(***************************************************************************)
(* Three payloads to one person: two of one source action (an edited body) *)
(* and one of its own.                                                     *)
(***************************************************************************)
EXTENDS EmailDelivery, TLC

CONSTANTS k1, k2, k3, c1, c2

TwoSources == (k1 :> "actionA") @@ (k2 :> "actionA") @@ (k3 :> "actionB")
OnePerson == (k1 :> "ann") @@ (k2 :> "ann") @@ (k3 :> "ann")
=============================================================================
