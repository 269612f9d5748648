---------------------------- MODULE MCConnLimits ----------------------------
(* Values for the runs of the connection limits. *)
EXTENDS ConnLimitsHistory, TLC

Alike == Permutations(IPs) \cup Permutations(Positions) \cup Permutations(Lcores)
=============================================================================
