--------------------------- MODULE AnomalyHistory ---------------------------
(***************************************************************************)
(* The anomaly state with two history variables: how many cycles in a row  *)
(* detected something, and how many cycles in a row of an attack saw less  *)
(* than 30 % of its peak.  They look at every cycle, as the comments on    *)
(* detection.c's own counters speak of cycles; the counters stand still on *)
(* cycles that skip the update (layer2.c:745).                             *)
(***************************************************************************)
EXTENDS AnomalyState

VARIABLES detect_run, drop_run
historyVars == <<vars, detect_run, drop_run>>

HistoryInit == Init /\ detect_run = 0 /\ drop_run = 0

CycleEnds == pc["detector"] = "lock" /\ pc'["detector"] # "lock"

HistoryNext ==
    /\ Next
    /\ detect_run' = IF ~CycleEnds THEN detect_run
                     ELSE IF Detected THEN Saturate(detect_run + 1, Persistence) ELSE 0
    /\ drop_run' = IF ~CycleEnds THEN drop_run
                   ELSE IF BelowDrop /\ active'
                        THEN Saturate(drop_run + 1, TRAFFIC_DROP_CYCLES) ELSE 0

HistorySpec == HistoryInit /\ [][HistoryNext]_historyVars
HistoryFairSpec == HistorySpec /\ Fairness

\* "Require K consecutive raw detections before first activation, so a
\* transient benign burst (clears before K) does not raise an alarm"
\* (detection.c:357): the alarm comes with the K-th detecting cycle in a row.
AlarmNeedsRun ==
    [][CycleEnds /\ ~active /\ active' => detect_run' >= Persistence]_historyVars

\* Three cycles in a row below 30 % of the peak start the cool-down, even
\* while the detectors still report an anomaly (detection.h, "Traffic-based
\* cool-down").
DropIsNoticed ==
    [][CycleEnds /\ active' /\ drop_run' >= TRAFFIC_DROP_CYCLES => InCoolDown']_historyVars
=============================================================================
