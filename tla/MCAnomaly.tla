------------------------------ MODULE MCAnomaly ------------------------------
(* Values for the anomaly runs. *)
EXTENDS AnomalyState

\* Against a peak of 10: still high, between the two ratios, below 30 %.
MCRates == {0, 1, 4, 10}
MCTwoRates == {0, 10}
MCSeverities == {1, 4}
MCCritical == {4}
=============================================================================
