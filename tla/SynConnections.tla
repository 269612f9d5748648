--------------------------- MODULE SynConnections ---------------------------
(***************************************************************************)
(* What the SYN proxy keeps for each 4-tuple, as its users see it: at most  *)
(* one connection, whose life follows the steps below.  A connection is     *)
(* challenged (its client returned a cookie, the server must still answer)  *)
(* or bypassed; it may end at any time, and only then a new one begins.     *)
(***************************************************************************)
CONSTANT Keys

VARIABLE phase

Phases == {"none", "connecting", "established", "client_fin", "server_fin",
           "closing", "closed", "bypassed", "verified"}

\* The steps of one connection.
Moves ==
  {<<"none", "connecting">>, <<"connecting", "established">>,
   <<"established", "client_fin">>, <<"established", "server_fin">>,
   <<"client_fin", "closing">>, <<"server_fin", "closing">>,
   <<"closing", "closed">>,
   <<"none", "bypassed">>, <<"bypassed", "verified">>}

CInit == phase = [k \in Keys |-> "none"]

Becomes(k, to) == phase' = [phase EXCEPT ![k] = to]

Move(k) == <<phase[k], phase'[k]>> \in Moves /\ Becomes(k, phase'[k])

End(k) == phase[k] # "none" /\ phase'[k] = "none" /\ Becomes(k, "none")

CNext == \E k \in Keys : Move(k) \/ End(k)

CSpec == CInit /\ [][CNext]_phase
=============================================================================
