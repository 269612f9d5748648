--------------------------- MODULE MCAnomalyHistory ---------------------------
(* Values for the runs with history variables. *)
EXTENDS AnomalyHistory

\* Against a peak of 10: still high, between the ratios, below 30 %, none.
MCRates == {0, 1, 4, 10}
MCSeverities == {1, 4}
=============================================================================
