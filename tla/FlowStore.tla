------------------------------ MODULE FlowStore ------------------------------
(***************************************************************************)
(* What the flow table promises the packet lcores that hold pointers into   *)
(* it (layer1/tables/flow_table.h, Deferred Reclamation): at most one live  *)
(* entry per key; a deleted entry keeps its flow, and its memory is not     *)
(* used for another one, until nobody holds a pointer to it.                *)
(***************************************************************************)
CONSTANTS Keys, Indices, Lcores, None

VARIABLES
  phase,   \* entry -> "free", "live" (found by its key), "dead" (deleted)
  flow,    \* entry -> the key of its flow, None while it is free
  held     \* lcore -> the entries it holds pointers to

svars == <<phase, flow, held>>

SInit ==
  /\ phase = [i \in Indices |-> "free"]
  /\ flow = [i \in Indices |-> None]
  /\ held = [l \in Lcores |-> {}]

Live(k) == {i \in Indices : phase[i] = "live" /\ flow[i] = k}

\* A packet of a flow with no entry takes a free one.
Insert(l, k, i) ==
  /\ phase[i] = "free" /\ Live(k) = {}
  /\ phase' = [phase EXCEPT ![i] = "live"]
  /\ flow' = [flow EXCEPT ![i] = k]
  /\ held' = [held EXCEPT ![l] = @ \cup {i}]

\* A packet finds its flow.
Find(l, k) ==
  \E i \in Live(k) : held' = [held EXCEPT ![l] = @ \cup {i}]
  /\ UNCHANGED <<phase, flow>>

\* A pass over the live entries, whichever they are now.
Visit(l) ==
  /\ held' = [held EXCEPT ![l] = @ \cup {i \in Indices : phase[i] = "live"}]
  /\ UNCHANGED <<phase, flow>>

\* Some of the pointers held go out of scope.
Release(l, keep) ==
  /\ held' = [held EXCEPT ![l] = @ \cap keep]
  /\ UNCHANGED <<phase, flow>>

\* Any lcore may hold the entry that is deleted.
Delete(i) ==
  /\ phase[i] = "live"
  /\ phase' = [phase EXCEPT ![i] = "dead"]
  /\ UNCHANGED <<flow, held>>

\* Deleted entries become free once no lcore holds them.
Recycle(S) ==
  /\ \A i \in S : phase[i] = "dead"
  /\ \A l \in Lcores : held[l] \cap S = {}
  /\ phase' = [i \in Indices |-> IF i \in S THEN "free" ELSE phase[i]]
  /\ flow' = [i \in Indices |-> IF i \in S THEN None ELSE flow[i]]
  /\ UNCHANGED held

SNext ==
  \/ \E l \in Lcores :
       \/ \E k \in Keys : Find(l, k) \/ \E i \in Indices : Insert(l, k, i)
       \/ Visit(l)
       \/ \E keep \in SUBSET Indices : Release(l, keep)
  \/ \E i \in Indices : Delete(i)
  \/ \E S \in SUBSET Indices : Recycle(S)

SSpec == SInit /\ [][SNext]_svars
=============================================================================
