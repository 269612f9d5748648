----------------------------- MODULE MCSynProxy -----------------------------
(* Values for the runs of the SYN proxy. *)
EXTENDS SynProxy, TLC

CONSTANTS k1, k2, a, b

TwoSources == [k \in Keys |-> IF k = k2 THEN b ELSE a]
OneSource == [k \in Keys |-> a]

OnlySlots == Permutations(Slots)
=============================================================================
