--------------------------- MODULE MCHostedAgent ---------------------------
(* Instances of HostedAgent for TLC.                                       *)
EXTENDS HostedAgent, TLC

CONSTANTS r1, r2

RunSymmetry == Permutations(Runs)
=============================================================================
