--------------------------- MODULE MCSynScenarios ---------------------------
(***************************************************************************)
(* The SYN proxy on small sets.  What may arrive is split into scenarios,  *)
(* each with 4-tuples, slots and uses of a slot of its own: its segments   *)
(* meet in every order, those of two scenarios do not.                     *)
(***************************************************************************)
EXTENDS MCSynProxy

CONSTANTS reused, bypassing, ending

\* Two half-open connections compete for two slots, the cleanup times them out
\* and one of them may be answered or reset; a slot passes from a bypassed connection to
\* the next, of its own 4-tuple or of another, while a segment is admitted; a
\* connection is bypassed while its FINs come, and bypassed up to its last ACK.
\* (A proxied connection that closes: MCSynProxyClose.cfg.)
Pool == {k1, k2}
Reuse == {reused, k2}
Arriving(k) ==
  CASE k = k1        -> {"ack"}
    [] k = k2        -> {"ack", "s_synack", "rst"}
    [] k = reused    -> {"syn", "s_synack", "rst", "admit"}
    [] k = bypassing -> {"syn", "s_synack", "fin", "s_fin"}
    [] k = ending    -> {"syn", "ack", "fin", "s_fin"}

\* A client acknowledges the server's ISN or the end of its FIN, which stand
\* for any other number where the connection has none to compare with.
Acknowledged(k) == IF k \in {bypassing, ending} THEN ISNs \cup {FinEnd} ELSE ISNs

\* The 4-tuples that are or were in the table, or that an lcore works on.
InPlay == ({slot_key[s] : s \in Slots} \cup {key[l] : l \in Lcores}) \ {None}

Uses == IF reused \in InPlay' THEN 2 ELSE 1

Within ==
  /\ \A l \in Lcores : seg[l] = None /\ seg'[l] \notin {None, "clean"} =>
       /\ seg'[l] \in Arriving(key'[l])
       /\ seg'[l] \in {"ack", "fin"} => num'[l] \in Acknowledged(key'[l])
       /\ seg'[l] \in {"syn", "ack"} => \A s \in Slots : ctl[s].gen < Uses
  /\ \/ InPlay' \subseteq Pool
     \/ /\ InPlay' \subseteq Reuse \/ Cardinality(InPlay') = 1
        /\ Cardinality({s \in Slots : slot_key'[s] # None}) <= 1
        /\ \A l \in Lcores : seg'[l] # "clean"

\* A segment that passes by leaves everything as it is: one such step is
\* enough, when no lcore is at work.
Changes == pc' # pc \/ cand' # cand \/ \A l \in Lcores : pc[l] = "idle"
=============================================================================
