-------------------------- MODULE MCCampaignEmail --------------------------
(***************************************************************************)
(* Small campaigns: one member and one email for the operators, two emails *)
(* for the planner.                                                        *)
(***************************************************************************)
EXTENDS CampaignEmail, TLC

CONSTANTS m1, m2

\* Runners may be exchanged.
RunnerSymmetry == Permutations(Runners)
=============================================================================
