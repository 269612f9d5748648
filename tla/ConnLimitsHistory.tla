-------------------------- MODULE ConnLimitsHistory --------------------------
(***************************************************************************)
(* The connection limits with a history variable: how many connections the *)
(* present window of each tracker has admitted.  The tracker's own count   *)
(* cannot tell: a window begins with the swap of its start and is cleared  *)
(* by a store after it (connection_limits.c:320-323), which erases what    *)
(* other lcores counted in between.                                        *)
(***************************************************************************)
EXTENDS ConnLimits

VARIABLE admitted
historyVars == <<vars, admitted>>

HistoryInit == Init /\ admitted = [p \in Positions |-> 0]

\* A connection is counted; a window begins; a position is taken back.
Admits(p) == \E l \in Lcores : pos[l] = p /\ pc[l] = "count" /\ pc'[l] = "stamp"
Begins(p) == \E l \in Lcores : pos[l] = p /\ pc[l] = "swap" /\ pc'[l] = "zero"
TakenBack(p) == p \in limbo /\ p \notin limbo'

HistoryNext ==
    /\ Next
    /\ admitted' = [p \in Positions |->
                      IF Begins(p) \/ TakenBack(p) THEN 0
                      ELSE IF Admits(p) THEN admitted[p] + 1 ELSE admitted[p]]

HistorySpec == HistoryInit /\ [][HistoryNext]_historyVars

\* Connections that will be counted on p, whatever the others do.
Passed(p) == {l \in Lcores : pos[l] = p /\ pc[l] \in {"open", "count"}}

\* "Counted with adds as theirs are: neither loses the other's" (connlim_add,
\* connection_limits.c:248-251) holds of two adds; the clearing store of a new
\* window does lose what it finds.  However many clears come late, and however
\* the checks interleave with them, the connections a window admits, counted or
\* past the test, are bounded: each late clear lets Max more pass, and each
\* test one more for every other lcore.  Max + (Max + 1) + ... over the lcores.
WindowBounded ==
    LET lcores == Cardinality(Lcores)
    IN  \A p \in Positions :
           2 * (admitted[p] + Cardinality(Passed(p))) <= lcores * (2 * Max + lcores - 1)
=============================================================================
