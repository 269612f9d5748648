--------------------------- MODULE FlowTableProofs ---------------------------
(* Theorems about FlowTable, for every number of keys, entries and lcores.   *)
EXTENDS FlowTable, FiniteSetTheorems, SequenceTheorems, TLAPS

-----------------------------------------------------------------------------
(* The limbo after each operation on it.                                     *)

LEMMA AckLimbo ==
  ASSUME TypeOK, NEW l \in Lcores, Acknowledge(l)
  PROVE  /\ limbo' \in Seq(Batch) /\ Len(limbo') = Len(limbo)
         /\ \A b \in 1..Len(limbo) : /\ limbo'[b].idx = limbo[b].idx
                                     /\ limbo'[b].wait = limbo[b].wait \ {l}
<1> DEFINE n == Len(limbo)
<1>1. n \in Nat /\ \A b \in 1..n : limbo[b] \in Batch
  BY LenProperties, ElementOfSeq DEF TypeOK
<1>2. \A b \in 1..n : [idx |-> limbo[b].idx, wait |-> limbo[b].wait \ {l}] \in Batch
  BY <1>1 DEF Batch
<1>3. limbo' \in [1..n -> Batch]
  BY <1>2 DEF Acknowledge
<1>4. limbo' \in Seq(Batch) /\ Len(limbo') = n
  BY <1>1, <1>3, SeqDef, LenProperties
<1> QED
  BY <1>4 DEF Acknowledge

\* The first batch loses part of its indices, or all of them and its place.
LEMMA TakeLimbo ==
  ASSUME TypeOK, limbo # <<>>, NEW part \in SUBSET limbo[1].idx,
         limbo' = IF part = limbo[1].idx THEN Tail(limbo)
                  ELSE [limbo EXCEPT ![1] = [idx |-> @.idx \ part, wait |-> @.wait]]
  PROVE  /\ limbo' \in Seq(Batch) /\ Len(limbo') <= Len(limbo)
         /\ \/ /\ part = limbo[1].idx
               /\ Len(limbo') = Len(limbo) - 1
               /\ \A b \in 1..Len(limbo') : limbo'[b] = limbo[b + 1]
            \/ /\ Len(limbo') = Len(limbo)
               /\ limbo'[1].idx = limbo[1].idx \ part
               /\ limbo'[1].wait = limbo[1].wait
               /\ \A b \in 2..Len(limbo') : limbo'[b] = limbo[b]
<1>1. Len(limbo) \in Nat \ {0} /\ limbo[1] \in Batch
  BY EmptySeq, ElementOfSeq DEF TypeOK
<1>2. CASE part = limbo[1].idx
  BY <1>1, <1>2, HeadTailProperties DEF TypeOK
<1>3. CASE part # limbo[1].idx
  <2> DEFINE e == [idx |-> limbo[1].idx \ part, wait |-> limbo[1].wait]
  <2>1. e \in Batch
    BY <1>1 DEF Batch
  <2>2. limbo' = [limbo EXCEPT ![1] = e] /\ 1 \in 1..Len(limbo)
    BY <1>1, <1>3
  <2>3. /\ limbo' \in Seq(Batch) /\ Len(limbo') = Len(limbo)
        /\ \A b \in 1..Len(limbo) : limbo'[b] = IF b = 1 THEN e ELSE limbo[b]
    BY <2>1, <2>2, ExceptSeq DEF TypeOK
  <2> QED
    BY <1>1, <2>3
<1> QED
  BY <1>2, <1>3

\* Retired indices are in the newest batch, which waits for every reader.
LEMMA PushedLimbo ==
  ASSUME TypeOK, NEW idx \in SUBSET Indices, PushLimbo(idx)
  PROVE  /\ limbo' \in Seq(Batch) /\ Len(limbo') <= FLOW_LIMBO_BATCHES
         /\ \/ idx = {} /\ limbo' = limbo
            \/ /\ idx # {}
               /\ Len(limbo') = Len(limbo) + 1
               /\ \A b \in 1..Len(limbo) : limbo'[b] = limbo[b]
               /\ limbo'[Len(limbo')].idx = idx
               /\ limbo'[Len(limbo')].wait = readers
            \/ /\ idx # {} /\ Len(limbo) # 0
               /\ Len(limbo') = Len(limbo)
               /\ \A b \in 1..(Len(limbo) - 1) : limbo'[b] = limbo[b]
               /\ limbo'[Len(limbo)].idx = limbo[Len(limbo)].idx \cup idx
               /\ limbo'[Len(limbo)].wait = readers
<1> DEFINE n == Len(limbo)
<1>1. n \in Nat /\ FLOW_LIMBO_BATCHES \in Nat \ {0}
  BY LenProperties, ConstantsAssumption DEF TypeOK
<1>2. CASE idx = {}
  BY <1>2 DEF PushLimbo, TypeOK
<1>3. CASE idx # {} /\ BatchLeft
  <2> DEFINE e == [idx |-> idx, wait |-> readers]
  <2>1. e \in Batch
    BY DEF TypeOK, Batch
  <2>2. limbo' = Append(limbo, e)
    BY <1>3 DEF PushLimbo
  <2> HIDE DEF e
  <2>3. /\ limbo' \in Seq(Batch) /\ Len(limbo') = n + 1 /\ limbo'[n + 1] = e
        /\ \A b \in 1..n : limbo'[b] = limbo[b]
    BY <2>1, <2>2, AppendProperties DEF TypeOK
  <2>4. e.idx = idx /\ e.wait = readers
    BY DEF e
  <2>5. limbo'[Len(limbo')].idx = idx /\ limbo'[Len(limbo')].wait = readers
    BY <2>3, <2>4
  <2> QED
    BY <1>1, <1>3, <2>3, <2>5 DEF BatchLeft
<1>4. CASE idx # {} /\ ~BatchLeft
  <2> DEFINE e == [idx |-> limbo[n].idx \cup idx, wait |-> readers]
  <2>1. n \in 1..Len(limbo) /\ limbo[n] \in Batch
    BY <1>1, <1>4, ElementOfSeq DEF TypeOK, BatchLeft
  <2>2. e \in Batch
    BY <2>1 DEF TypeOK, Batch
  <2>3. limbo' = [limbo EXCEPT ![n] = e]
    BY <1>4 DEF PushLimbo, Joined
  <2>4. e.idx = limbo[n].idx \cup idx /\ e.wait = readers
    OBVIOUS
  <2> HIDE DEF e
  <2>5. /\ limbo' \in Seq(Batch) /\ Len(limbo') = n
        /\ \A b \in 1..n : limbo'[b] = IF b = n THEN e ELSE limbo[b]
    BY <2>1, <2>2, <2>3, ExceptSeq DEF TypeOK
  <2> QED
    BY <1>1, <1>4, <2>1, <2>4, <2>5 DEF TypeOK
<1> QED
  BY <1>2, <1>3, <1>4

-----------------------------------------------------------------------------
(* What the place of an lcore in its operation says of its local variables.  *)
AtCreate == {"fill", "add", "giveback"}
AtHeld == {"giveback", "publish", "use"}
AtPacket == {"alloc", "reclaim", "realloc", "full", "fill", "add", "giveback",
             "publish", "use", "ev_scan", "ev_del"}
AtReclaim == {"reclaim", "age_reclaim", "clear_reclaim"}
AtDelete == {"ev_del", "age_del", "clear_del"}
AtMaint == {"age_reclaim", "age_watch", "age_scan", "age_del", "clear_scan",
            "clear_del", "clear_reclaim"}

LcoreOK(l) ==
  /\ own[l] \in Indices <=> pc[l] \in AtCreate
  /\ ref[l] \in Indices <=> pc[l] \in AtHeld
  /\ key[l] \in Keys <=> pc[l] \in AtPacket
  /\ l \in readers <=> pc[l] # "off"
  /\ got[l] # {} => pc[l] \in AtReclaim
  /\ del[l] # {} => pc[l] \in AtDelete
  /\ pc[l] = "clear_del" => cand[l] \subseteq Keys \X Indices
  /\ pc[l] \in AtMaint => l = Maint

ControlOK ==
  /\ \A l \in Lcores : LcoreOK(l)
  /\ bits # {} => pc[Maint] = "age_scan"

TypeInv == TypeOK /\ ControlOK

LEMMA InitType == Init => TypeInv
<1> SUFFICES ASSUME Init PROVE TypeInv
  OBVIOUS
<1> QED
  BY ConstantsAssumption DEF Init, TypeInv, TypeOK, ControlOK, LcoreOK, PCs, Batch, AtCreate, AtHeld,
     AtPacket, AtReclaim, AtDelete, AtMaint

LEMMA TypeStep == TypeInv /\ [Next]_vars => TypeOK'
<1> SUFFICES ASSUME TypeInv, [Next]_vars PROVE TypeOK'
  OBVIOUS
<1> USE ConstantsAssumption DEF TypeInv, TypeOK
<1>1. CASE UNCHANGED vars
  BY <1>1 DEF vars, tableVars, freeVars, readerVars, packetVars, passVars
<1>2. ASSUME NEW l \in Lcores, Register(l) PROVE TypeOK'
  BY <1>2 DEF Register, Goto, PCs, tableVars, freeVars, packetVars, passVars
<1>3. ASSUME NEW l \in Lcores, Acknowledge(l)
      PROVE  limbo' \in Seq(Batch) /\ Len(limbo') = Len(limbo)
             /\ probe' \subseteq Lcores /\ owing' \subseteq owing \ {l}
  BY <1>3, AckLimbo DEF Acknowledge
<1>4. ASSUME NEW l \in Lcores, Quiescent(l) PROVE TypeOK'
  BY <1>3, <1>4 DEF Quiescent, tableVars, packetVars, passVars
<1>5. ASSUME NEW l \in Lcores, Unregister(l) PROVE TypeOK'
  BY <1>3, <1>5 DEF Unregister, Offline, Goto, PCs, tableVars, packetVars, passVars
<1>6. ASSUME NEW l \in Lcores, NEW k \in Keys, Lookup(l, k) PROVE TypeOK'
  BY <1>6 DEF Lookup, PCs, tableVars, freeVars, readerVars, passVars
<1>7. ASSUME NEW l \in Lcores, NEW k \in Keys, NEW kread \in Keys, EvictScan(l, k, kread)
      PROVE  TypeOK'
  BY <1>7 DEF EvictScan, tableVars, freeVars, readerVars, packetVars
<1>8. ASSUME NEW l \in Lcores, NEW i \in Indices, AgeScan(l, i) PROVE TypeOK'
  BY <1>8 DEF AgeScan, tableVars, freeVars, readerVars, packetVars
<1>9. ASSUME NEW l \in Lcores, AgeStart(l) \/ ClearStart(l) PROVE TypeOK'
  BY <1>9 DEF AgeStart, ClearStart, Goto, PCs, tableVars, freeVars, readerVars, packetVars, passVars
<1>10. ASSUME NEW l \in Lcores, Step(l) PROVE TypeOK'
  <2>1. CASE Done(l)
    BY <2>1 DEF Done, Goto, PCs, tableVars, freeVars, readerVars, passVars
  <2>2. CASE AllocCached(l)
    BY <2>2 DEF AllocCached, Goto, PCs, tableVars, readerVars, passVars
  <2>3. CASE AllocRing(l)
    BY <2>3 DEF AllocRing, PCs, tableVars, readerVars, passVars
  <2>4. CASE AllocEmpty(l)
    BY <2>4 DEF AllocEmpty, PCs, tableVars, freeVars, readerVars, packetVars, passVars
  <2>5. CASE ReclaimTake(l)
    <3>1. PICK part \in SUBSET limbo[1].idx :
            /\ got' = [got EXCEPT ![l] = @ \cup part]
            /\ limbo' = IF part = limbo[1].idx THEN Tail(limbo)
                        ELSE [limbo EXCEPT ![1] = [idx |-> @.idx \ part, wait |-> @.wait]]
      BY <2>5 DEF ReclaimTake
    <3>2. limbo # <<>> /\ limbo[1] \in Batch
      BY <2>5, EmptySeq, ElementOfSeq DEF ReclaimTake, MayTake
    <3>3. limbo' \in Seq(Batch) /\ Len(limbo') <= FLOW_LIMBO_BATCHES
      <4>1. limbo' \in Seq(Batch) /\ Len(limbo') <= Len(limbo)
        BY <3>1, <3>2, TakeLimbo
      <4>2. Len(limbo) \in Nat /\ Len(limbo') \in Nat /\ FLOW_LIMBO_BATCHES \in Nat
        BY <4>1, LenProperties
      <4> QED
        BY <4>1, <4>2
    <3>4. part \subseteq Indices
      BY <3>2 DEF Batch
    <3> QED
      BY <2>5, <3>1, <3>3, <3>4 DEF ReclaimTake, tableVars, readerVars, packetVars
  <2>6. CASE ReclaimEnd(l)
    BY <2>6 DEF ReclaimEnd, Goto, PCs, tableVars, readerVars, packetVars
  <2>7. CASE EvictStart(l)
    BY <2>7 DEF EvictStart, Goto, PCs, tableVars, freeVars, readerVars, packetVars, passVars
  <2>8. CASE CreateFails(l)
    BY <2>8 DEF CreateFails, Goto, PCs, tableVars, freeVars, readerVars, passVars
  <2>9. CASE Fill(l)
    BY <2>9 DEF ControlOK, LcoreOK, AtCreate, AtHeld, AtPacket, Fill, Goto, PCs, freeVars, readerVars, packetVars, passVars
  <2>10. CASE Add(l)
    <3>1. key[l] \in Keys /\ own[l] \in Indices
      BY <2>10 DEF Add, ControlOK, LcoreOK, AtCreate, AtPacket
    <3>2. CASE StillAbsent(l)
      <4>1. /\ flow_hash' = [flow_hash EXCEPT ![key[l]] = own[l]]
            /\ flow_used' = flow_used \cup {own[l]}
            /\ ref' = [ref EXCEPT ![l] = own[l]]
            /\ own' = [own EXCEPT ![l] = None]
            /\ pc' = [pc EXCEPT ![l] = "publish"]
            /\ UNCHANGED <<entry_key, initializing, freeVars, readerVars, key, retried, passVars>>
        BY <2>10, <3>2 DEF Add
      <4> QED
        BY <3>1, <4>1 DEF PCs, freeVars, readerVars, passVars
    <3>3. CASE ~StillAbsent(l)
      <4>1. /\ ref' = [ref EXCEPT ![l] = flow_hash[key[l]]]
            /\ pc' = [pc EXCEPT ![l] = "giveback"]
            /\ UNCHANGED <<flow_hash, flow_used, own>>
            /\ UNCHANGED <<entry_key, initializing, freeVars, readerVars, key, retried, passVars>>
        BY <2>10, <3>3 DEF Add
      <4>2. flow_hash[key[l]] \in Indices \cup {None}
        BY <3>1
      <4> QED
        BY <4>1, <4>2 DEF PCs, freeVars, readerVars, passVars
    <3> QED
      BY <3>2, <3>3
  <2>11. CASE GiveBack(l)
    BY <2>11 DEF ControlOK, LcoreOK, AtCreate, AtHeld, AtPacket, GiveBack, Goto, PCs, readerVars, passVars
  <2>12. CASE Publish(l)
    BY <2>12 DEF ControlOK, LcoreOK, AtCreate, AtHeld, AtPacket, Publish, Goto, PCs, freeVars, readerVars, packetVars, passVars
  <2>13. CASE EvictSelect(l)
    BY <2>13 DEF EvictSelect, Goto, PCs, tableVars, freeVars, readerVars, packetVars
  <2>14. CASE EvictDelete(l)
    BY <2>14 DEF EvictDelete, DeleteMapping, BitCleared, KeepMapping, StillMapped,
                 freeVars, readerVars, packetVars
  <2>15. CASE AgeWatch(l)
    BY <2>15 DEF AgeWatch, Watch, PCs, tableVars, freeVars, packetVars
  <2>16. CASE AgeScanEnd(l)
    BY <2>16 DEF AgeScanEnd, Goto, PCs, tableVars, freeVars, readerVars, packetVars
  <2>17. CASE AgeDelete(l)
    BY <2>17 DEF AgeDelete, DeleteMapping, BitCleared, KeepMapping, StillMapped,
                 freeVars, readerVars, packetVars
  <2>18. CASE ClearScan(l)
    BY <2>18 DEF ClearScan, Mapped, PCs, tableVars, freeVars, readerVars, packetVars
  <2>19. CASE ClearDelete(l)
    <3>1. PICK c \in cand[l] :
            /\ cand' = [cand EXCEPT ![l] = @ \ {c}]
            /\ \/ DeleteMapping(l, c[1], flow_hash[c[1]]) /\ UNCHANGED initializing
                  /\ flow_hash[c[1]] # None
               \/ KeepMapping
      BY <2>19 DEF ClearDelete
    <3>2. c[1] \in Keys
      BY <2>19 DEF ClearDelete, ControlOK, LcoreOK
    <3> QED
      BY <2>19, <3>1, <3>2 DEF ClearDelete, DeleteMapping, BitCleared, KeepMapping,
                 freeVars, readerVars, packetVars
  <2>20. CASE Retire(l)
    <3>1. PICK taken \in SUBSET del[l] :
            PushLimbo(taken) /\ free_ring' = free_ring \cup (del[l] \ taken)
      BY <2>20 DEF Retire
    <3>2. limbo' \in Seq(Batch) /\ Len(limbo') <= FLOW_LIMBO_BATCHES
      BY <3>1, PushedLimbo
    <3> QED
      BY <2>20, <3>1, <3>2 DEF Retire, Goto, PCs, tableVars, readerVars
  <2> QED
    BY <1>10, <2>1, <2>2, <2>3, <2>4, <2>5, <2>6, <2>7, <2>8, <2>9, <2>10, <2>11,
       <2>12, <2>13, <2>14, <2>15, <2>16, <2>17, <2>18, <2>19, <2>20 DEF Step
<1> QED
  BY <1>1, <1>2, <1>4, <1>5, <1>6, <1>7, <1>8, <1>9, <1>10 DEF Next

LEMMA ControlStep == TypeInv /\ TypeOK' /\ [Next]_vars => ControlOK'
<1> SUFFICES ASSUME TypeInv, TypeOK', [Next]_vars PROVE ControlOK'
  OBVIOUS
<1> USE ConstantsAssumption DEF TypeInv, TypeOK, ControlOK, LcoreOK, AtCreate, AtHeld,
        AtPacket, AtReclaim, AtDelete, AtMaint, tableVars, freeVars, readerVars,
        packetVars, passVars
<1>1. CASE UNCHANGED vars
  BY <1>1 DEF vars
<1>2. ASSUME NEW l \in Lcores, Register(l) PROVE ControlOK'
  BY <1>2 DEF Register, Goto
<1>3. ASSUME NEW l \in Lcores, Quiescent(l) PROVE ControlOK'
  BY <1>3 DEF Quiescent
<1>4. ASSUME NEW l \in Lcores, Unregister(l) PROVE ControlOK'
  BY <1>4 DEF Unregister, Goto
<1>5. ASSUME NEW l \in Lcores, NEW k \in Keys, Lookup(l, k) PROVE ControlOK'
  BY <1>5 DEF Lookup
<1>6. ASSUME NEW l \in Lcores, NEW k \in Keys, NEW kread \in Keys, EvictScan(l, k, kread) PROVE ControlOK'
  BY <1>6 DEF EvictScan
<1>7. ASSUME NEW l \in Lcores, NEW i \in Indices, AgeScan(l, i) PROVE ControlOK'
  BY <1>7 DEF AgeScan
<1>8. ASSUME NEW l \in Lcores, AgeStart(l) PROVE ControlOK'
  BY <1>8 DEF AgeStart, Goto
<1>9. ASSUME NEW l \in Lcores, ClearStart(l) PROVE ControlOK'
  BY <1>9 DEF ClearStart, Goto
<1>10. ASSUME NEW l \in Lcores, Done(l) PROVE ControlOK'
  BY <1>10 DEF Done, Goto
<1>11. ASSUME NEW l \in Lcores, AllocCached(l) PROVE ControlOK'
  BY <1>11 DEF AllocCached, Goto
<1>12. ASSUME NEW l \in Lcores, AllocRing(l) PROVE ControlOK'
  BY <1>12 DEF AllocRing
<1>13. ASSUME NEW l \in Lcores, AllocEmpty(l) PROVE ControlOK'
  BY <1>13 DEF AllocEmpty
<1>14. ASSUME NEW l \in Lcores, ReclaimTake(l) PROVE ControlOK'
  BY <1>14 DEF ReclaimTake
<1>15. ASSUME NEW l \in Lcores, ReclaimEnd(l) PROVE ControlOK'
  BY <1>15 DEF ReclaimEnd, Goto
<1>16. ASSUME NEW l \in Lcores, EvictStart(l) PROVE ControlOK'
  BY <1>16 DEF EvictStart, Goto
<1>17. ASSUME NEW l \in Lcores, CreateFails(l) PROVE ControlOK'
  BY <1>17 DEF CreateFails, Goto
<1>18. ASSUME NEW l \in Lcores, Fill(l) PROVE ControlOK'
  BY <1>18 DEF Fill, Goto
<1>19. ASSUME NEW l \in Lcores, Add(l) PROVE ControlOK'
  BY <1>19 DEF Add, StillAbsent
<1>20. ASSUME NEW l \in Lcores, GiveBack(l) PROVE ControlOK'
  BY <1>20 DEF GiveBack, Goto
<1>21. ASSUME NEW l \in Lcores, Publish(l) PROVE ControlOK'
  BY <1>21 DEF Publish, Goto
<1>22. ASSUME NEW l \in Lcores, EvictSelect(l) PROVE ControlOK'
  BY <1>22 DEF EvictSelect, Goto
<1>23. ASSUME NEW l \in Lcores, EvictDelete(l) PROVE ControlOK'
  BY <1>23 DEF EvictDelete, DeleteMapping, KeepMapping
<1>24. ASSUME NEW l \in Lcores, AgeWatch(l) PROVE ControlOK'
  BY <1>24 DEF AgeWatch
<1>25. ASSUME NEW l \in Lcores, AgeScanEnd(l) PROVE ControlOK'
  BY <1>25 DEF AgeScanEnd, Goto
<1>26. ASSUME NEW l \in Lcores, AgeDelete(l) PROVE ControlOK'
  BY <1>26 DEF AgeDelete, DeleteMapping, KeepMapping
<1>27. ASSUME NEW l \in Lcores, ClearScan(l) PROVE ControlOK'
  BY <1>27 DEF ClearScan, Mapped
<1>28. ASSUME NEW l \in Lcores, ClearDelete(l) PROVE ControlOK'
  BY <1>28 DEF ClearDelete, DeleteMapping, KeepMapping
<1>29. ASSUME NEW l \in Lcores, Retire(l) PROVE ControlOK'
  BY <1>29 DEF Retire, Goto
<1> QED
  BY <1>1, <1>2, <1>3, <1>4, <1>5, <1>6, <1>7, <1>8, <1>9, <1>10, <1>11, <1>12, <1>13, <1>14, <1>15, <1>16, <1>17, <1>18, <1>19, <1>20, <1>21, <1>22, <1>23, <1>24, <1>25, <1>26, <1>27, <1>28, <1>29 DEF Next, Step


LEMMA TypeInvariant == Spec => []TypeInv
<1>1. TypeInv /\ [Next]_vars => TypeInv'
  BY TypeStep, ControlStep DEF TypeInv
<1> QED
  BY InitType, <1>1, PTL DEF Spec

\* The state always has its types: in particular the limbo never has more than
\* FLOW_LIMBO_BATCHES batches, and only registered readers owe a report.
THEOREM TypeCorrect == Spec => []TypeOK
<1>1. TypeInv => TypeOK
  BY DEF TypeInv
<1> QED
  BY TypeInvariant, <1>1, PTL
-----------------------------------------------------------------------------
(* Every index is in exactly one place.                                      *)

\* The indices only lcore l can reach.
Priv(l) == free_cache[l] \cup got[l] \cup del[l] \cup ({own[l]} \ {None})

BatchesApart ==
  \A b, c \in 1..Len(limbo) : b # c => limbo[b].idx \cap limbo[c].idx = {}

Exclusive ==
  /\ \A l \in Lcores : /\ free_cache[l] \cap (got[l] \cup del[l]) = {}
                       /\ own[l] \notin free_cache[l]
                       /\ Priv(l) \cap free_ring = {}
                       /\ Priv(l) \cap LimboIdx = {}
                       /\ \A m \in Lcores : m # l => Priv(l) \cap Priv(m) = {}
                       /\ \A k \in Keys : flow_hash[k] \notin Priv(l)
  /\ \A k \in Keys : /\ flow_hash[k] \notin free_ring
                     /\ flow_hash[k] \notin LimboIdx
                     /\ \A j \in Keys : j # k /\ flow_hash[j] = flow_hash[k]
                                        => flow_hash[k] = None
  /\ free_ring \cap LimboIdx = {}

Covered ==
  \A i \in Indices : \/ i \in free_ring
                     \/ i \in LimboIdx
                     \/ \E k \in Keys : flow_hash[k] = i
                     \/ \E l \in Lcores : i \in Priv(l)

PlaceInv == TypeInv /\ BatchesApart /\ Exclusive /\ Covered

LEMMA SameLimbo ==
  ASSUME UNCHANGED limbo, BatchesApart
  PROVE  LimboIdx' = LimboIdx /\ BatchesApart'
<1> QED
  BY DEF LimboIdx, BatchesApart

LEMMA AckIdx ==
  ASSUME TypeOK, BatchesApart, NEW l \in Lcores, Acknowledge(l)
  PROVE  LimboIdx' = LimboIdx /\ BatchesApart'
<1>1. /\ Len(limbo') = Len(limbo)
      /\ \A b \in 1..Len(limbo) : limbo'[b].idx = limbo[b].idx
  BY AckLimbo
<1>2. LimboIdx' = LimboIdx
  BY <1>1 DEF LimboIdx
<1> QED
  BY <1>1, <1>2 DEF BatchesApart

LEMMA TakeIdx ==
  ASSUME TypeOK, BatchesApart, limbo # <<>>, NEW part \in SUBSET limbo[1].idx,
         limbo' = IF part = limbo[1].idx THEN Tail(limbo)
                  ELSE [limbo EXCEPT ![1] = [idx |-> @.idx \ part, wait |-> @.wait]]
  PROVE  LimboIdx' = LimboIdx \ part /\ part \subseteq LimboIdx /\ BatchesApart'
<1>1. Len(limbo) \in Nat \ {0}
  BY EmptySeq DEF TypeOK
<1>2. part \subseteq LimboIdx
  BY <1>1 DEF LimboIdx
<1>3. CASE /\ part = limbo[1].idx
           /\ Len(limbo') = Len(limbo) - 1
           /\ \A b \in 1..Len(limbo') : limbo'[b] = limbo[b + 1]
  <2>1. \A b \in 1..Len(limbo') : b + 1 \in 1..Len(limbo) /\ b + 1 # 1
    BY <1>1, <1>3
  <2>2. \A b \in 1..Len(limbo') : limbo'[b].idx \cap part = {}
    BY <1>1, <1>3, <2>1 DEF BatchesApart
  <2>3. \A b \in 1..Len(limbo) :
          b # 1 => /\ b - 1 \in 1..Len(limbo')
                   /\ (b - 1) + 1 = b
                   /\ limbo'[b - 1] = limbo[b]
    <3> TAKE b \in 1..Len(limbo)
    <3> HAVE b # 1
    <3>1. b - 1 \in 1..Len(limbo') /\ (b - 1) + 1 = b
      BY <1>1, <1>3
    <3>2. limbo'[b - 1] = limbo[(b - 1) + 1]
      BY <1>3, <3>1
    <3> QED
      BY <3>1, <3>2
  <2>4. LimboIdx' \subseteq LimboIdx \ part
    BY <1>3, <2>1, <2>2 DEF LimboIdx
  <2>5. LimboIdx \ part \subseteq LimboIdx'
    <3> SUFFICES ASSUME NEW i \in LimboIdx \ part PROVE i \in LimboIdx'
      OBVIOUS
    <3>1. PICK b \in 1..Len(limbo) : i \in limbo[b].idx
      BY DEF LimboIdx
    <3>2. b # 1
      BY <1>3, <3>1
    <3>3. b - 1 \in 1..Len(limbo') /\ i \in limbo'[b - 1].idx
      BY <2>3, <3>1, <3>2
    <3> QED
      BY <3>3 DEF LimboIdx
  <2>6. BatchesApart'
    <3> SUFFICES ASSUME NEW b \in 1..Len(limbo'), NEW c \in 1..Len(limbo'), b # c
                 PROVE  limbo'[b].idx \cap limbo'[c].idx = {}
      BY DEF BatchesApart
    <3>1. b + 1 # c + 1
      BY <1>1, <1>3
    <3> QED
      BY <1>3, <2>1, <3>1 DEF BatchesApart
  <2> QED
    BY <1>2, <2>4, <2>5, <2>6
<1>4. CASE /\ Len(limbo') = Len(limbo)
           /\ limbo'[1].idx = limbo[1].idx \ part
           /\ \A b \in 2..Len(limbo') : limbo'[b] = limbo[b]
  <2>1. \A b \in 1..Len(limbo) : limbo'[b].idx = limbo[b].idx \ part
    <3> TAKE b \in 1..Len(limbo)
    <3>1. CASE b = 1
      BY <1>4, <3>1
    <3>2. CASE b # 1
      <4>1. b \in 2..Len(limbo) /\ 1 \in 1..Len(limbo)
        BY <1>1, <3>2
      <4>2. limbo[b].idx \cap limbo[1].idx = {}
        BY <4>1, <3>2 DEF BatchesApart
      <4> QED
        BY <1>4, <4>1, <4>2
    <3> QED
      BY <3>1, <3>2
  <2>2. LimboIdx' = LimboIdx \ part
    BY <1>4, <2>1 DEF LimboIdx
  <2>3. BatchesApart'
    BY <1>4, <2>1 DEF BatchesApart
  <2> QED
    BY <1>2, <2>2, <2>3
<1> QED
  BY <1>3, <1>4, TakeLimbo

LEMMA PushIdx ==
  ASSUME TypeOK, BatchesApart, NEW idx \in SUBSET Indices, idx \cap LimboIdx = {},
         PushLimbo(idx)
  PROVE  LimboIdx' = LimboIdx \cup idx /\ BatchesApart'
<1> DEFINE n == Len(limbo)
<1>0. n \in Nat
  BY LenProperties DEF TypeOK
<1>a. \A b \in 1..n : limbo[b].idx \cap idx = {}
  BY DEF LimboIdx
<1>1. CASE idx = {} /\ limbo' = limbo
  BY <1>1, SameLimbo
<1>2. CASE /\ idx # {}
           /\ Len(limbo') = n + 1
           /\ \A b \in 1..n : limbo'[b] = limbo[b]
           /\ limbo'[Len(limbo')].idx = idx
  <2>1. \A b \in 1..(n + 1) : b \in 1..n \/ b = n + 1
    BY <1>0
  <2>2. LimboIdx' = LimboIdx \cup idx
    BY <1>0, <1>2, <2>1 DEF LimboIdx
  <2>3. BatchesApart'
    BY <1>0, <1>2, <1>a, <2>1 DEF BatchesApart
  <2> QED
    BY <2>2, <2>3
<1>3. CASE /\ idx # {} /\ n # 0
           /\ Len(limbo') = n
           /\ \A b \in 1..(n - 1) : limbo'[b] = limbo[b]
           /\ limbo'[n].idx = limbo[n].idx \cup idx
  <2>1. \A b \in 1..n : b \in 1..(n - 1) \/ b = n
    BY <1>0
  <2>2. LimboIdx' = LimboIdx \cup idx
    BY <1>0, <1>3, <2>1 DEF LimboIdx
  <2>3. BatchesApart'
    BY <1>0, <1>3, <1>a, <2>1 DEF BatchesApart
  <2> QED
    BY <2>2, <2>3
<1> QED
  BY <1>1, <1>2, <1>3, PushedLimbo

\* The room of the limbo covers whatever a pass retires, so it takes all of it.
LEMMA RoomForDel ==
  ASSUME TypeOK, Exclusive, NEW l \in Lcores
  PROVE  Cardinality(del[l]) \in Nat /\ Room \in Int /\ Cardinality(del[l]) <= Room
<1>1. LimboIdx \subseteq Indices /\ del[l] \subseteq Indices /\ del[l] \cap LimboIdx = {}
  <2>0. \A b \in 1..Len(limbo) : limbo[b] \in Batch
    BY ElementOfSeq DEF TypeOK
  <2>1. \A b \in 1..Len(limbo) : limbo[b].idx \subseteq Indices
    BY <2>0 DEF Batch
  <2> QED
    BY <2>1 DEF TypeOK, LimboIdx, Exclusive, Priv
<1>2. IsFiniteSet(LimboIdx) /\ IsFiniteSet(del[l]) /\ IsFiniteSet(LimboIdx \cup del[l])
  BY <1>1, FS_Subset, FS_Union, ConstantsAssumption
<1>3. Cardinality(LimboIdx \cup del[l]) =
        Cardinality(LimboIdx) + Cardinality(del[l]) - Cardinality(LimboIdx \cap del[l])
  BY <1>2, FS_Union
<1>4. Cardinality(LimboIdx \cap del[l]) = 0
  BY <1>1, FS_EmptySet
<1>5. Cardinality(LimboIdx \cup del[l]) <= Cardinality(Indices)
  BY <1>1, FS_Subset, ConstantsAssumption
<1>6. /\ Cardinality(LimboIdx) \in Nat /\ Cardinality(del[l]) \in Nat
      /\ Cardinality(LimboIdx \cup del[l]) \in Nat /\ Cardinality(Indices) \in Nat
  BY <1>2, FS_CardinalityType, ConstantsAssumption
<1> QED
  BY <1>3, <1>4, <1>5, <1>6 DEF Room, LimboCount

LEMMA RetireAll ==
  ASSUME TypeOK, Exclusive, NEW l \in Lcores, Retire(l)
  PROVE  PushLimbo(del[l]) /\ UNCHANGED free_ring
<1>1. PICK taken \in SUBSET del[l] :
        /\ taken = del[l] \/ Cardinality(taken) = Room
        /\ PushLimbo(taken)
        /\ Cardinality(taken) <= Room
        /\ free_ring' = free_ring \cup (del[l] \ taken)
  BY DEF Retire
<1>2. taken = del[l]
  <2>1. IsFiniteSet(del[l])
    BY FS_Subset, ConstantsAssumption DEF TypeOK
  <2>2. Cardinality(taken) \in Nat /\ Cardinality(taken) <= Cardinality(del[l])
    BY <2>1, FS_Subset, FS_CardinalityType
  <2>3. Cardinality(del[l]) = Cardinality(taken) => del[l] = taken
    BY <2>1, FS_Subset
  <2> QED
    BY <1>1, <2>2, <2>3, RoomForDel
<1> QED
  BY <1>1, <1>2

placeVars == <<flow_hash, free_ring, free_cache, limbo, own, del, got>>

LEMMA PlaceQuiet ==
  ASSUME PlaceInv, UNCHANGED placeVars
  PROVE  BatchesApart' /\ Exclusive' /\ Covered'
<1>1. LimboIdx' = LimboIdx /\ BatchesApart'
  BY SameLimbo DEF PlaceInv, placeVars
<1>2. \A l \in Lcores : Priv(l)' = Priv(l)
  BY DEF Priv, placeVars
<1> QED
  BY <1>1, <1>2 DEF PlaceInv, placeVars, Exclusive, Covered

LEMMA PlaceAck ==
  ASSUME PlaceInv, NEW l \in Lcores, Acknowledge(l),
         UNCHANGED <<flow_hash, free_ring, free_cache, own, del, got>>
  PROVE  BatchesApart' /\ Exclusive' /\ Covered'
<1>1. LimboIdx' = LimboIdx /\ BatchesApart'
  BY AckIdx DEF PlaceInv, TypeInv
<1>2. \A m \in Lcores : Priv(m)' = Priv(m)
  BY DEF Priv
<1> QED
  BY <1>1, <1>2 DEF PlaceInv, Exclusive, Covered

\* A delete moves the index of a mapped key to the deleting lcore.
LEMMA PlaceDelete ==
  ASSUME PlaceInv, NEW l \in Lcores, NEW k \in Keys, NEW i \in Indices,
         flow_hash[k] = i, DeleteMapping(l, k, i),
         UNCHANGED <<free_ring, free_cache, limbo, own, got>>
  PROVE  BatchesApart' /\ Exclusive' /\ Covered'
<1> USE ConstantsAssumption DEF PlaceInv, TypeInv, TypeOK
<1>1. LimboIdx' = LimboIdx /\ BatchesApart'
  BY SameLimbo
<1>2. Priv(l)' = Priv(l) \cup {i} /\ \A m \in Lcores \ {l} : Priv(m)' = Priv(m)
  BY DEF Priv, DeleteMapping
<1>3. \A j \in Keys : flow_hash'[j] = IF j = k THEN None ELSE flow_hash[j]
  BY DEF DeleteMapping
<1>4. del'[l] = del[l] \cup {i} /\ \A m \in Lcores \ {l} : del'[m] = del[m]
  BY DEF DeleteMapping
<1>5. i \notin free_ring /\ i \notin LimboIdx /\ i # None
      /\ \A m \in Lcores : i \notin Priv(m)
      /\ \A j \in Keys : j # k => flow_hash[j] # i
  BY DEF Exclusive
<1>6. \A m \in Lcores : None \notin Priv(m)
  BY DEF Priv
<1>7. Exclusive'
  <2>1. \A m \in Lcores : free_cache[m]' \cap (got[m]' \cup del[m]') = {}
    BY <1>4, <1>5 DEF Exclusive, Priv
  <2>2. \A m \in Lcores : own[m]' \notin free_cache[m]'
    BY DEF Exclusive
  <2>3. \A m \in Lcores : Priv(m)' \cap free_ring = {} /\ Priv(m)' \cap LimboIdx = {}
    BY <1>2, <1>5 DEF Exclusive
  <2>4. \A m, o \in Lcores : m # o => Priv(m)' \cap Priv(o)' = {}
    BY <1>2, <1>5 DEF Exclusive
  <2>5. \A m \in Lcores, j \in Keys : flow_hash'[j] \notin Priv(m)'
    <3> SUFFICES ASSUME NEW m \in Lcores, NEW j \in Keys
                 PROVE  flow_hash'[j] \notin Priv(m)'
      OBVIOUS
    <3>0. flow_hash[j] \notin Priv(m)
      BY DEF Exclusive
    <3>1. flow_hash'[j] \notin Priv(m)
      BY <3>0, <1>3, <1>6
    <3>2. flow_hash'[j] # i
      BY <1>3, <1>5
    <3> QED
      BY <1>2, <3>1, <3>2
  <2>6. \A j \in Keys : flow_hash'[j] \notin free_ring /\ flow_hash'[j] \notin LimboIdx
    <3>1. None \notin free_ring /\ None \notin LimboIdx
      <4>1. \A b \in 1..Len(limbo) : limbo[b] \in Batch
        BY ElementOfSeq
      <4> QED
        BY <4>1 DEF LimboIdx, Batch
    <3> QED
      BY <1>3, <3>1 DEF Exclusive
  <2>7. \A j, h \in Keys : j # h /\ flow_hash'[j] = flow_hash'[h] => flow_hash'[h] = None
    BY <1>3 DEF Exclusive
  <2> QED
    BY <1>1, <2>1, <2>2, <2>3, <2>4, <2>5, <2>6, <2>7 DEF Exclusive
<1>8. Covered'
  BY <1>1, <1>2, <1>3 DEF Covered
<1> QED
  BY <1>1, <1>7, <1>8

LEMMA PlaceKeep ==
  ASSUME PlaceInv, KeepMapping, UNCHANGED <<free_ring, free_cache, limbo, own, got>>
  PROVE  BatchesApart' /\ Exclusive' /\ Covered'
<1> QED
  BY PlaceQuiet DEF placeVars, KeepMapping

LEMMA PlaceStep ==
  PlaceInv /\ [Next]_vars => BatchesApart' /\ Exclusive' /\ Covered'
<1> SUFFICES ASSUME PlaceInv, [Next]_vars PROVE BatchesApart' /\ Exclusive' /\ Covered'
  OBVIOUS
<1>t. TypeOK /\ ControlOK /\ Exclusive /\ Covered /\ BatchesApart
  BY DEF PlaceInv, TypeInv
<1> USE ConstantsAssumption
<1> DEFINE Goal == BatchesApart' /\ Exclusive' /\ Covered'
<1>1. CASE UNCHANGED vars
  BY <1>1, PlaceQuiet DEF vars, tableVars, freeVars, passVars, packetVars, placeVars
<1>2. ASSUME NEW l \in Lcores, Register(l) PROVE Goal
  BY <1>2, PlaceQuiet DEF Register, tableVars, freeVars, passVars, packetVars, placeVars
<1>3. ASSUME NEW l \in Lcores, Quiescent(l) PROVE Goal
  BY <1>3, PlaceAck DEF Quiescent, tableVars, passVars, packetVars
<1>4. ASSUME NEW l \in Lcores, Unregister(l) PROVE Goal
  BY <1>4, PlaceAck DEF Unregister, Offline, tableVars, passVars, packetVars
<1>5. ASSUME NEW l \in Lcores, NEW k \in Keys, Lookup(l, k) PROVE Goal
  BY <1>5, PlaceQuiet DEF Lookup, tableVars, freeVars, passVars, placeVars
<1>6. ASSUME NEW l \in Lcores, NEW k \in Keys, NEW kread \in Keys, EvictScan(l, k, kread)
      PROVE  Goal
  BY <1>6, PlaceQuiet DEF EvictScan, tableVars, freeVars, packetVars, placeVars
<1>7. ASSUME NEW l \in Lcores, NEW i \in Indices, AgeScan(l, i) PROVE Goal
  BY <1>7, PlaceQuiet DEF AgeScan, tableVars, freeVars, packetVars, placeVars
<1>8. ASSUME NEW l \in Lcores, AgeStart(l) \/ ClearStart(l) PROVE Goal
  BY <1>8, PlaceQuiet DEF AgeStart, ClearStart, tableVars, freeVars, passVars, packetVars,
                          placeVars
<1>9. ASSUME NEW l \in Lcores, Step(l) PROVE Goal
  <2>1. CASE Done(l) \/ AllocEmpty(l) \/ EvictStart(l) \/ CreateFails(l) \/ Publish(l)
    BY <2>1, PlaceQuiet DEF Done, AllocEmpty, EvictStart, CreateFails, Publish,
       tableVars, freeVars, passVars, packetVars, placeVars
  <2>2. CASE Fill(l) \/ EvictSelect(l) \/ AgeWatch(l) \/ AgeScanEnd(l) \/ ClearScan(l)
    BY <2>2, PlaceQuiet DEF Fill, EvictSelect, AgeWatch, AgeScanEnd, ClearScan,
       tableVars, freeVars, passVars, packetVars, placeVars
  <2>3. CASE AllocCached(l)
    <3>1. PICK i \in free_cache[l] : /\ own' = [own EXCEPT ![l] = i]
                                     /\ free_cache' = [free_cache EXCEPT ![l] = @ \ {i}]
      BY <2>3 DEF AllocCached
    <3>2. /\ i \in Indices /\ own[l] \notin Indices
          /\ UNCHANGED <<flow_hash, free_ring, limbo, del, got>>
      BY <1>t, <2>3, <3>1 DEF AllocCached, Goto, tableVars, passVars, TypeOK, ControlOK,
                              LcoreOK, AtCreate
    <3>3. LimboIdx' = LimboIdx /\ BatchesApart'
      BY <1>t, <3>2, SameLimbo
    <3>4. Priv(l)' = Priv(l) /\ \A m \in Lcores \ {l} : Priv(m)' = Priv(m)
      BY <1>t, <3>1, <3>2 DEF Priv, TypeOK
    <3>5. \A m \in Lcores : /\ Priv(m)' = Priv(m)
                            /\ free_cache'[m] \subseteq free_cache[m]
                            /\ own'[m] \notin free_cache'[m]
      BY <1>t, <3>1, <3>4 DEF Exclusive, TypeOK
    <3>6. Exclusive'
      BY <1>t, <3>2, <3>3, <3>5 DEF Exclusive
    <3> QED
      BY <1>t, <3>2, <3>3, <3>4, <3>6 DEF Covered
  <2>4. CASE AllocRing(l)
    <3>b. PICK burst \in SUBSET free_ring : \E i \in burst :
            /\ own' = [own EXCEPT ![l] = i]
            /\ free_cache' = [free_cache EXCEPT ![l] = burst \ {i}]
            /\ free_ring' = free_ring \ burst
      BY <2>4 DEF AllocRing
    <3>1. PICK i \in burst :
            /\ own' = [own EXCEPT ![l] = i]
            /\ free_cache' = [free_cache EXCEPT ![l] = burst \ {i}]
            /\ free_ring' = free_ring \ burst
      BY <3>b
    <3>2. /\ i \in Indices /\ own[l] \notin Indices /\ free_cache[l] = {}
          /\ got[l] = {} \/ pc[l] # "alloc"
          /\ UNCHANGED <<flow_hash, limbo, del, got>>
      BY <1>t, <2>4, <3>1 DEF AllocRing, tableVars, passVars, TypeOK, ControlOK, LcoreOK,
                              AtCreate, AtReclaim
    <3>3. LimboIdx' = LimboIdx /\ BatchesApart'
      BY <1>t, <3>2, SameLimbo
    <3>4. Priv(l)' = Priv(l) \cup burst /\ \A m \in Lcores \ {l} : Priv(m)' = Priv(m)
      BY <1>t, <3>1, <3>2 DEF Priv, TypeOK
    <3>5. \A m \in Lcores : Priv(m) \cap burst = {}
      BY <1>t DEF Exclusive
    <3>6. Exclusive'
      BY <1>t, <3>1, <3>2, <3>3, <3>4, <3>5 DEF Exclusive, TypeOK, Priv
    <3> QED
      BY <1>t, <3>1, <3>2, <3>3, <3>4, <3>6 DEF Covered
  <2>5. CASE ReclaimTake(l)
    <3>1. PICK part \in SUBSET limbo[1].idx :
            /\ got' = [got EXCEPT ![l] = @ \cup part]
            /\ limbo' = IF part = limbo[1].idx THEN Tail(limbo)
                        ELSE [limbo EXCEPT ![1] = [idx |-> @.idx \ part, wait |-> @.wait]]
      BY <2>5 DEF ReclaimTake
    <3>2. limbo # <<>> /\ UNCHANGED <<flow_hash, free_ring, free_cache, own, del>>
      BY <2>5 DEF ReclaimTake, MayTake, tableVars, packetVars
    <3>3. LimboIdx' = LimboIdx \ part /\ part \subseteq LimboIdx /\ BatchesApart'
      BY <1>t, <3>1, <3>2, TakeIdx
    <3>4. Priv(l)' = Priv(l) \cup part /\ \A m \in Lcores \ {l} : Priv(m)' = Priv(m)
      BY <1>t, <3>1, <3>2 DEF Priv, TypeOK
    <3>5. \A m \in Lcores : got'[m] = got[m] \/ got'[m] = got[m] \cup part
      BY <1>t, <3>1 DEF TypeOK
    <3>6. \A m \in Lcores : Priv(m) \cap part = {} /\ free_cache[m] \cap part = {}
      BY <1>t, <3>3 DEF Exclusive, Priv
    <3>7. Exclusive'
      BY <1>t, <3>2, <3>3, <3>4, <3>5, <3>6 DEF Exclusive
    <3> QED
      BY <1>t, <3>2, <3>3, <3>4, <3>7 DEF Covered
  <2>6. CASE ReclaimEnd(l)
    <3>1. /\ free_ring' = free_ring \cup got[l] /\ got' = [got EXCEPT ![l] = {}]
          /\ UNCHANGED <<flow_hash, free_cache, limbo, own, del>>
      BY <2>6 DEF ReclaimEnd, tableVars, packetVars
    <3>2. LimboIdx' = LimboIdx /\ BatchesApart'
      BY <1>t, <3>1, SameLimbo
    <3>3. own[l] \notin Indices /\ del[l] = {}
      BY <1>t, <2>6 DEF ReclaimEnd, Goto, ControlOK, LcoreOK, AtCreate, AtDelete
    <3>4. /\ Priv(l)' = Priv(l) \ got[l] /\ got[l] \subseteq Priv(l)
          /\ \A m \in Lcores \ {l} : Priv(m)' = Priv(m)
      BY <1>t, <3>1, <3>3 DEF Priv, TypeOK, Exclusive
    <3>5. \A m \in Lcores : got'[m] \subseteq got[m]
      BY <1>t, <3>1 DEF TypeOK
    <3>6. Exclusive'
      BY <1>t, <3>1, <3>2, <3>4, <3>5 DEF Exclusive
    <3> QED
      BY <1>t, <3>1, <3>2, <3>4, <3>6 DEF Covered
  <2>7. CASE Add(l)
    <3>1. key[l] \in Keys /\ own[l] \in Indices
      BY <1>t, <2>7 DEF Add, ControlOK, LcoreOK, AtCreate, AtPacket
    <3>2. CASE ~StillAbsent(l)
      BY <2>7, <3>2, PlaceQuiet DEF Add, freeVars, passVars, placeVars
    <3>3. CASE StillAbsent(l)
      <4>1. /\ flow_hash' = [flow_hash EXCEPT ![key[l]] = own[l]]
            /\ own' = [own EXCEPT ![l] = None]
            /\ UNCHANGED <<free_ring, free_cache, limbo, del, got>>
        BY <2>7, <3>3 DEF Add, freeVars, passVars
      <4>2. LimboIdx' = LimboIdx /\ BatchesApart'
        BY <1>t, <4>1, SameLimbo
      <4>3. got[l] = {} /\ del[l] = {}
        BY <1>t, <2>7 DEF Add, ControlOK, LcoreOK, AtDelete, AtReclaim
      <4>4. /\ Priv(l)' = Priv(l) \ {own[l]} /\ own[l] \in Priv(l)
            /\ \A m \in Lcores \ {l} : Priv(m)' = Priv(m)
        BY <1>t, <3>1, <4>1, <4>3 DEF Priv, TypeOK, Exclusive
      <4>5. \A k \in Keys : flow_hash'[k] = IF k = key[l] THEN own[l] ELSE flow_hash[k]
        BY <1>t, <4>1 DEF TypeOK
      <4>6. \A m \in Lcores : own'[m] \in {own[m], None} /\ None \notin free_cache[m]
        BY <1>t, <4>1 DEF TypeOK
      <4>7. own[l] \notin free_ring /\ own[l] \notin LimboIdx
            /\ \A k \in Keys : flow_hash[k] # own[l]
        BY <1>t, <4>4 DEF Exclusive
      <4>8. \A m \in Lcores, k \in Keys : flow_hash'[k] \notin Priv(m)'
        BY <1>t, <4>4, <4>5 DEF Exclusive
      <4>9. Exclusive'
        BY <1>t, <4>1, <4>2, <4>4, <4>5, <4>6, <4>7, <4>8 DEF Exclusive
      <4>10. Covered'
        <5> SUFFICES ASSUME NEW i \in Indices
                     PROVE  \/ i \in free_ring' \/ i \in LimboIdx'
                            \/ \E k \in Keys : flow_hash'[k] = i
                            \/ \E m \in Lcores : i \in Priv(m)'
          BY DEF Covered
        <5>1. CASE i = own[l]
          BY <3>1, <4>5, <5>1
        <5>2. CASE i # own[l] /\ \E k \in Keys : flow_hash[k] = i
          BY <3>3, <4>5, <5>2 DEF StillAbsent
        <5>3. CASE i # own[l] /\ ~(\E k \in Keys : flow_hash[k] = i)
          BY <1>t, <4>1, <4>2, <4>4, <5>3 DEF Covered
        <5> QED
          BY <5>1, <5>2, <5>3
      <4> QED
        BY <4>2, <4>9, <4>10
    <3> QED
      BY <3>2, <3>3
  <2>8. CASE GiveBack(l)
    <3>1. /\ own[l] \in Indices /\ got[l] = {} /\ del[l] = {}
          /\ free_ring' = free_ring \cup {own[l]} /\ own' = [own EXCEPT ![l] = None]
          /\ UNCHANGED <<flow_hash, free_cache, limbo, del, got>>
      BY <1>t, <2>8 DEF GiveBack, Goto, passVars, ControlOK, LcoreOK, AtCreate, AtDelete,
                        AtReclaim
    <3>2. LimboIdx' = LimboIdx /\ BatchesApart'
      BY <1>t, <3>1, SameLimbo
    <3>3. /\ Priv(l)' = Priv(l) \ {own[l]} /\ own[l] \in Priv(l)
          /\ \A m \in Lcores \ {l} : Priv(m)' = Priv(m)
      BY <1>t, <3>1 DEF Priv, TypeOK, Exclusive
    <3>4. \A m \in Lcores : own'[m] \in {own[m], None} /\ None \notin free_cache[m]
      BY <1>t, <3>1 DEF TypeOK
    <3>5. Exclusive'
      BY <1>t, <3>1, <3>2, <3>3, <3>4 DEF Exclusive
    <3> QED
      BY <1>t, <3>1, <3>2, <3>3, <3>5 DEF Covered
  <2>9. CASE EvictDelete(l) \/ AgeDelete(l)
    <3>1. PICK c \in cand[l] :
            \/ StillMapped(c) /\ DeleteMapping(l, c[1], c[2])
            \/ KeepMapping
      BY <2>9 DEF EvictDelete, AgeDelete
    <3>2. UNCHANGED <<free_ring, free_cache, limbo, own, got>>
      BY <2>9 DEF EvictDelete, AgeDelete, freeVars, packetVars
    <3>3. CASE KeepMapping
      BY <3>2, <3>3, PlaceKeep
    <3>4. CASE StillMapped(c) /\ DeleteMapping(l, c[1], c[2])
      <4>1. c[1] \in Keys /\ c[2] \in Indices /\ flow_hash[c[1]] = c[2]
        BY <1>t, <3>4 DEF StillMapped, TypeOK
      <4> QED
        BY <3>2, <3>4, <4>1, PlaceDelete
    <3> QED
      BY <3>1, <3>3, <3>4
  <2>10. CASE ClearDelete(l)
    <3>1. PICK c \in cand[l] :
            \/ flow_hash[c[1]] # None /\ DeleteMapping(l, c[1], flow_hash[c[1]])
            \/ KeepMapping
      BY <2>10 DEF ClearDelete
    <3>2. UNCHANGED <<free_ring, free_cache, limbo, own, got>>
      BY <2>10 DEF ClearDelete, freeVars, packetVars
    <3>3. CASE KeepMapping
      BY <3>2, <3>3, PlaceKeep
    <3>4. CASE flow_hash[c[1]] # None /\ DeleteMapping(l, c[1], flow_hash[c[1]])
      <4>1. c[1] \in Keys
        BY <1>t, <2>10 DEF ClearDelete, ControlOK, LcoreOK
      <4>2. flow_hash[c[1]] \in Indices
        BY <1>t, <3>4, <4>1 DEF TypeOK
      <4> QED
        BY <3>2, <3>4, <4>1, <4>2, PlaceDelete
    <3> QED
      BY <3>1, <3>3, <3>4
  <2>11. CASE Retire(l)
    <3>1. /\ PushLimbo(del[l]) /\ del' = [del EXCEPT ![l] = {}]
          /\ UNCHANGED <<flow_hash, free_ring, free_cache, own, got>>
      BY <1>t, <2>11, RetireAll DEF Retire, tableVars
    <3>2. del[l] \subseteq Indices /\ del[l] \cap LimboIdx = {}
      BY <1>t DEF TypeOK, Exclusive, Priv
    <3>3. LimboIdx' = LimboIdx \cup del[l] /\ BatchesApart'
      BY <1>t, <3>1, <3>2, PushIdx
    <3>4. own[l] \notin Indices /\ got[l] = {}
      BY <1>t, <2>11 DEF Retire, Goto, ControlOK, LcoreOK, AtCreate, AtReclaim
    <3>5. /\ Priv(l)' = Priv(l) \ del[l] /\ del[l] \subseteq Priv(l)
          /\ \A m \in Lcores \ {l} : Priv(m)' = Priv(m)
      BY <1>t, <3>1, <3>4 DEF Priv, TypeOK, Exclusive
    <3>6. \A m \in Lcores : del'[m] \subseteq del[m]
      BY <1>t, <3>1 DEF TypeOK
    <3>7. Exclusive'
      BY <1>t, <3>1, <3>3, <3>5, <3>6 DEF Exclusive
    <3> QED
      BY <1>t, <3>1, <3>3, <3>5, <3>7 DEF Covered
  <2> QED
    BY <1>9, <2>1, <2>2, <2>3, <2>4, <2>5, <2>6, <2>7, <2>8, <2>9, <2>10, <2>11 DEF Step
<1> QED
  BY <1>1, <1>2, <1>3, <1>4, <1>5, <1>6, <1>7, <1>8, <1>9 DEF Next

LEMMA InitPlace == Init => PlaceInv
<1> SUFFICES ASSUME Init PROVE PlaceInv
  OBVIOUS
<1>1. TypeInv
  BY InitType
<1>2. Len(limbo) = 0 /\ LimboIdx = {} /\ BatchesApart
  BY EmptySeq DEF Init, LimboIdx, BatchesApart
<1>3. \A l \in Lcores : Priv(l) = {}
  BY DEF Init, Priv
<1>4. Exclusive /\ Covered
  BY <1>2, <1>3, ConstantsAssumption DEF Init, Exclusive, Covered
<1> QED
  BY <1>1, <1>2, <1>4 DEF PlaceInv

LEMMA PlaceInvariant == Spec => []PlaceInv
<1>1. PlaceInv /\ [Next]_vars => PlaceInv'
  BY TypeStep, ControlStep, PlaceStep DEF PlaceInv, TypeInv
<1> QED
  BY InitPlace, <1>1, PTL DEF Spec

LEMMA OnlyPlace ==
  ASSUME PlaceInv, NEW i \in Indices
  PROVE  \E p : Places(i) = {p}
<1>t. TypeOK /\ ControlOK /\ Exclusive /\ Covered /\ BatchesApart
  BY DEF PlaceInv, TypeInv
<1> USE ConstantsAssumption
<1>n. i # None
  OBVIOUS
<1>1. ASSUME NEW l \in Lcores
      PROVE  /\ i \in free_cache[l] => i \notin got[l] /\ i \notin del[l] /\ own[l] # i
             /\ i \in got[l] => i \notin del[l] /\ own[l] # i
             /\ i \in del[l] => own[l] # i
             /\ i \in Priv(l) <=> i \in free_cache[l] \/ i \in got[l] \/ i \in del[l]
                                  \/ own[l] = i
  <2>1. /\ i \in free_cache[l] => i \notin got[l] /\ i \notin del[l] /\ own[l] # i
        /\ i \in Priv(l) <=> i \in free_cache[l] \/ i \in got[l] \/ i \in del[l]
                             \/ own[l] = i
    BY <1>t, <1>n DEF Exclusive, Priv
  <2>2. /\ i \in got[l] => i \notin del[l] /\ own[l] # i
        /\ i \in del[l] => own[l] # i
    BY <1>t DEF ControlOK, LcoreOK, AtReclaim, AtDelete, AtCreate
  <2> QED
    BY <2>1, <2>2
<1>2. CASE i \in free_ring
  <2>1. /\ \A l \in Lcores : i \notin Priv(l)
        /\ \A k \in Keys : flow_hash[k] # i
        /\ i \notin LimboIdx
    BY <1>t, <1>2 DEF Exclusive
  <2>2. Places(i) = {<<"ring">>}
    BY <1>1, <1>2, <2>1 DEF Places, LimboIdx
  <2> QED
    BY <2>2
<1>3. CASE i \in LimboIdx
  <2>1. /\ \A l \in Lcores : i \notin Priv(l)
        /\ \A k \in Keys : flow_hash[k] # i
        /\ i \notin free_ring
    BY <1>t, <1>3 DEF Exclusive
  <2>2. PICK b \in 1..Len(limbo) : i \in limbo[b].idx
    BY <1>3 DEF LimboIdx
  <2>3. \A c \in 1..Len(limbo) : i \in limbo[c].idx => c = b
    BY <1>t, <2>2 DEF BatchesApart
  <2>4. Places(i) = {<<"limbo", b>>}
    BY <1>1, <2>1, <2>2, <2>3 DEF Places
  <2> QED
    BY <2>4
<1>4. ASSUME NEW k \in Keys, flow_hash[k] = i
      PROVE  \E p : Places(i) = {p}
  <2>1. /\ \A l \in Lcores : i \notin Priv(l)
        /\ \A j \in Keys : flow_hash[j] = i => j = k
        /\ i \notin free_ring /\ i \notin LimboIdx
    BY <1>t, <1>n, <1>4 DEF Exclusive
  <2>2. Places(i) = {<<"hash", k>>}
    BY <1>1, <1>4, <2>1 DEF Places, LimboIdx
  <2> QED
    BY <2>2
<1>5. ASSUME NEW l \in Lcores, i \in Priv(l)
      PROVE  \E p : Places(i) = {p}
  <2>1. /\ \A m \in Lcores : m # l => i \notin Priv(m)
        /\ \A k \in Keys : flow_hash[k] # i
        /\ i \notin free_ring /\ i \notin LimboIdx
    BY <1>t, <1>5 DEF Exclusive
  <2>2. \A b \in 1..Len(limbo) : i \notin limbo[b].idx
    BY <2>1 DEF LimboIdx
  <2>3. CASE i \in free_cache[l]
    <3>1. Places(i) = {<<"cache", l>>}
      BY <1>1, <2>1, <2>2, <2>3 DEF Places
    <3> QED
      BY <3>1
  <2>4. CASE i \in got[l]
    <3>1. Places(i) = {<<"taken", l>>}
      BY <1>1, <2>1, <2>2, <2>4 DEF Places
    <3> QED
      BY <3>1
  <2>5. CASE i \in del[l]
    <3>1. Places(i) = {<<"deleted", l>>}
      BY <1>1, <2>1, <2>2, <2>5 DEF Places
    <3> QED
      BY <3>1
  <2>6. CASE own[l] = i
    <3>1. Places(i) = {<<"create", l>>}
      BY <1>1, <2>1, <2>2, <2>6 DEF Places
    <3> QED
      BY <3>1
  <2> QED
    BY <1>1, <1>5, <2>3, <2>4, <2>5, <2>6
<1> QED
  BY <1>t, <1>2, <1>3, <1>4, <1>5 DEF Covered

\* An entry index is always in exactly one place: none is lost, none is handed
\* out, cached, mapped or retired twice, however the creates, evictions, aging
\* and clear calls of any number of lcores interleave.
THEOREM OnePlaceCorrect == Spec => []OnePlace
<1>1. PlaceInv => OnePlace
  <2> SUFFICES ASSUME PlaceInv, NEW i \in Indices PROVE Cardinality(Places(i)) = 1
    BY DEF OnePlace
  <2> QED
    BY OnlyPlace, FS_Singleton
<1> QED
  BY PlaceInvariant, <1>1, PTL

\* The limbo has room for everything a delete pass retires: nothing deleted goes
\* straight to the free ring, past its grace period.
THEOREM LimboNeverRefusesCorrect == Spec => []LimboNeverRefuses
<1>1. PlaceInv => LimboNeverRefuses
  BY RoomForDel DEF PlaceInv, TypeInv, LimboNeverRefuses
<1> QED
  BY PlaceInvariant, <1>1, PTL

-----------------------------------------------------------------------------
(* What an lcore may rely on while it holds a flow pointer.                  *)

\* What protects entry i from reuse while reader l holds it: it is mapped, or a
\* delete pass has it, or it waits in the limbo for l (among others).
Safe(l, i) ==
  \/ i \in InHash
  \/ \E m \in Lcores : i \in del[m]
  \/ \E b \in 1..Len(limbo) : i \in limbo[b].idx /\ l \in limbo[b].wait

KeysAgree == \A k \in Mapped : entry_key[flow_hash[k]] = k
UsedIsMapped == flow_used = InHash
OwnFilled == \A l \in Lcores : pc[l] \in {"add", "giveback"} => entry_key[own[l]] = key[l]
RefsSafe == \A l \in Lcores : ref[l] \in Indices =>
              Safe(l, ref[l]) /\ entry_key[ref[l]] = key[l]
BitsSafe == \A i \in bits : Safe(Maint, i)

\* One lcore's own places exclude each other.
LEMMA PrivateApart ==
  ASSUME PlaceInv, NEW l \in Lcores, NEW i \in Indices
  PROVE  /\ i \in del[l] => i \notin free_cache[l] /\ i \notin got[l] /\ own[l] # i
         /\ i \in Priv(l) <=> i \in free_cache[l] \/ i \in got[l] \/ i \in del[l]
                              \/ own[l] = i
<1>t. TypeOK /\ ControlOK /\ Exclusive
  BY DEF PlaceInv, TypeInv
<1>1. i # None
  BY ConstantsAssumption
<1>2. i \in del[l] => i \notin got[l] /\ own[l] # i
  BY <1>t DEF ControlOK, LcoreOK, AtReclaim, AtDelete, AtCreate
<1> QED
  BY <1>t, <1>1, <1>2 DEF Exclusive, Priv

LEMMA ReusableIn ==
  ASSUME NEW i \in Indices
  PROVE  i \in Reusable <=> \/ i \in free_ring
                            \/ \E m \in Lcores : \/ i \in free_cache[m] \/ i \in got[m]
                                                 \/ own[m] = i
<1> DEFINE caches == UNION {free_cache[m] : m \in Lcores}
           taken == UNION {got[m] : m \in Lcores}
           owned == {own[m] : m \in Lcores}
<1>1. i \in caches <=> \E m \in Lcores : i \in free_cache[m]
  OBVIOUS
<1>2. i \in taken <=> \E m \in Lcores : i \in got[m]
  OBVIOUS
<1>3. i \in owned <=> \E m \in Lcores : own[m] = i
  OBVIOUS
<1>4. Reusable = free_ring \cup caches \cup taken \cup owned
  BY DEF Reusable
<1> HIDE DEF caches, taken, owned
<1> QED
  BY <1>1, <1>2, <1>3, <1>4

\* A protected entry is not one a create has, can get, or is about to get.
LEMMA SafeNotReusable ==
  ASSUME PlaceInv, NEW l \in Lcores, NEW i \in Indices, Safe(l, i)
  PROVE  i \notin Reusable
<1>t. TypeOK /\ Exclusive
  BY DEF PlaceInv, TypeInv
<1>1. i # None
  BY ConstantsAssumption
<1>2. CASE i \in InHash \/ i \in LimboIdx
  <2>1. i \notin free_ring /\ \A m \in Lcores : i \notin Priv(m)
    BY <1>t, <1>1, <1>2 DEF Exclusive, InHash, Mapped
  <2> QED
    BY <2>1, PrivateApart, ReusableIn
<1>3. CASE \E m \in Lcores : i \in del[m]
  <2>1. PICK m \in Lcores : i \in del[m]
    BY <1>3
  <2>2. i \notin free_ring /\ \A o \in Lcores : o # m => i \notin Priv(o)
    BY <1>t, <2>1, PrivateApart DEF Exclusive
  <2>3. i \notin free_cache[m] /\ i \notin got[m] /\ own[m] # i
    BY <2>1, PrivateApart
  <2> QED
    BY <2>2, <2>3, PrivateApart, ReusableIn
<1> QED
  BY <1>2, <1>3 DEF Safe, LimboIdx

\* What a delete under the writer lock does to the hash and its index sets.
LEMMA DeleteEffect ==
  ASSUME PlaceInv, NEW m \in Lcores, NEW k \in Keys, NEW i \in Indices,
         flow_hash[k] = i, DeleteMapping(m, k, i)
  PROVE  /\ InHash' = InHash \ {i}
         /\ \A j \in Keys : flow_hash'[j] = IF j = k THEN None ELSE flow_hash[j]
         /\ i \in del'[m] /\ \A o \in Lcores : del[o] \subseteq del'[o]
<1>t. TypeOK /\ Exclusive
  BY DEF PlaceInv, TypeInv
<1>1. \A j \in Keys : flow_hash'[j] = IF j = k THEN None ELSE flow_hash[j]
  BY <1>t DEF DeleteMapping, TypeOK
<1>2. i \in del'[m] /\ \A o \in Lcores : del[o] \subseteq del'[o]
  BY <1>t DEF DeleteMapping, TypeOK
<1>3. i # None /\ \A j \in Keys : j # k => flow_hash[j] # i
  BY <1>t, ConstantsAssumption DEF Exclusive
<1>4. InHash' = InHash \ {i}
  BY <1>1, <1>3 DEF InHash, Mapped
<1> QED
  BY <1>1, <1>2, <1>4

safeVars == <<flow_hash, limbo, del, entry_key>>

LEMMA SafeQuiet ==
  ASSUME UNCHANGED safeVars, NEW l \in Lcores, NEW i \in Indices, Safe(l, i)
  PROVE  Safe(l, i)' /\ entry_key'[i] = entry_key[i]
<1> QED
  BY DEF safeVars, Safe, InHash, Mapped

LEMMA SafeAck ==
  ASSUME TypeOK, NEW m \in Lcores, Acknowledge(m), UNCHANGED <<flow_hash, del, entry_key>>,
         NEW l \in Lcores, l # m, NEW i \in Indices, Safe(l, i)
  PROVE  Safe(l, i)' /\ entry_key'[i] = entry_key[i]
<1>1. /\ Len(limbo') = Len(limbo)
      /\ \A b \in 1..Len(limbo) : /\ limbo'[b].idx = limbo[b].idx
                                  /\ limbo'[b].wait = limbo[b].wait \ {m}
  BY AckLimbo
<1> QED
  BY <1>1 DEF Safe, InHash, Mapped

LEMMA SafeDelete ==
  ASSUME PlaceInv, NEW m \in Lcores, NEW k \in Keys, NEW j \in Indices,
         flow_hash[k] = j, DeleteMapping(m, k, j), UNCHANGED <<limbo, entry_key>>,
         NEW l \in Lcores, NEW i \in Indices, Safe(l, i)
  PROVE  Safe(l, i)' /\ entry_key'[i] = entry_key[i]
<1> QED
  BY DeleteEffect DEF Safe

\* A push keeps every index in the limbo with the online readers it waits for,
\* and makes what is pushed wait for all of them.
LEMMA PushKeeps ==
  ASSUME TypeOK, NEW idx \in SUBSET Indices, PushLimbo(idx),
         NEW l \in readers, NEW i \in Indices
  PROVE  /\ \A b \in 1..Len(limbo) : i \in limbo[b].idx /\ l \in limbo[b].wait =>
              \E c \in 1..Len(limbo') : i \in limbo'[c].idx /\ l \in limbo'[c].wait
         /\ i \in idx =>
              \E c \in 1..Len(limbo') : i \in limbo'[c].idx /\ l \in limbo'[c].wait
<1> DEFINE n == Len(limbo)
<1>0. n \in Nat
  BY LenProperties DEF TypeOK
<1>1. CASE idx = {} /\ limbo' = limbo
  BY <1>1
<1>2. CASE /\ Len(limbo') = n + 1
           /\ \A b \in 1..n : limbo'[b] = limbo[b]
           /\ limbo'[Len(limbo')].idx = idx
           /\ limbo'[Len(limbo')].wait = readers
  <2>1. n + 1 \in 1..Len(limbo') /\ 1..n \subseteq 1..Len(limbo')
    BY <1>0, <1>2
  <2>2. limbo'[n + 1].idx = idx /\ l \in limbo'[n + 1].wait
    BY <1>2
  <2> QED
    BY <1>2, <2>1, <2>2
<1>3. CASE /\ n # 0 /\ Len(limbo') = n
           /\ \A b \in 1..(n - 1) : limbo'[b] = limbo[b]
           /\ limbo'[n].idx = limbo[n].idx \cup idx
           /\ limbo'[n].wait = readers
  <2>1. n \in 1..Len(limbo') /\ \A b \in 1..n : b \in 1..(n - 1) \/ b = n
    BY <1>0, <1>3
  <2>2. 1..(n - 1) \subseteq 1..Len(limbo')
    BY <1>0, <1>3
  <2> QED
    BY <1>3, <2>1, <2>2
<1> QED
  BY <1>1, <1>2, <1>3, PushedLimbo

\* Safety of a held entry lasts through every step in which its reader does not
\* report a quiescent state, and so does its key.
LEMMA SafeStep ==
  ASSUME PlaceInv, [Next]_vars,
         NEW l \in Lcores, pc[l] \notin {"off", "idle"}, NEW i \in Indices, Safe(l, i)
  PROVE  Safe(l, i)' /\ entry_key'[i] = entry_key[i]
<1>t. TypeOK /\ ControlOK /\ Exclusive
  BY DEF PlaceInv, TypeInv
<1> USE ConstantsAssumption
<1> DEFINE Goal == Safe(l, i)' /\ entry_key'[i] = entry_key[i]
<1>1. CASE UNCHANGED vars
  BY <1>1, SafeQuiet DEF vars, tableVars, freeVars, passVars, safeVars
<1>2. ASSUME NEW m \in Lcores, Register(m) PROVE Goal
  BY <1>2, SafeQuiet DEF Register, tableVars, freeVars, passVars, safeVars
<1>3. ASSUME NEW m \in Lcores, Quiescent(m) PROVE Goal
  BY <1>t, <1>3, SafeAck DEF Quiescent, tableVars, passVars
<1>4. ASSUME NEW m \in Lcores, Unregister(m) PROVE Goal
  BY <1>t, <1>4, SafeAck DEF Unregister, Goto, Offline, tableVars, passVars
<1>5. ASSUME NEW m \in Lcores, NEW k \in Keys, Lookup(m, k) PROVE Goal
  BY <1>5, SafeQuiet DEF Lookup, tableVars, freeVars, passVars, safeVars
<1>6. ASSUME NEW m \in Lcores, NEW k \in Keys, NEW kread \in Keys, EvictScan(m, k, kread)
      PROVE  Goal
  BY <1>6, SafeQuiet DEF EvictScan, tableVars, freeVars, safeVars
<1>7. ASSUME NEW m \in Lcores, NEW j \in Indices, AgeScan(m, j) PROVE Goal
  BY <1>7, SafeQuiet DEF AgeScan, tableVars, freeVars, safeVars
<1>8. ASSUME NEW m \in Lcores, AgeStart(m) \/ ClearStart(m) PROVE Goal
  BY <1>8, SafeQuiet DEF AgeStart, ClearStart, tableVars, freeVars, passVars, safeVars
<1>9. ASSUME NEW m \in Lcores, Step(m) PROVE Goal
  <2>1. CASE Done(m) \/ AllocEmpty(m) \/ EvictStart(m) \/ CreateFails(m) \/ Publish(m)
    BY <2>1, SafeQuiet DEF Done, AllocEmpty, EvictStart, CreateFails, Publish,
       tableVars, freeVars, passVars, safeVars
  <2>2. CASE EvictSelect(m) \/ AgeWatch(m) \/ AgeScanEnd(m) \/ ClearScan(m)
    BY <2>2, SafeQuiet DEF EvictSelect, AgeWatch, AgeScanEnd, ClearScan,
       tableVars, freeVars, passVars, safeVars
  <2>3. CASE AllocCached(m) \/ AllocRing(m) \/ ReclaimEnd(m)
    BY <2>3, SafeQuiet DEF AllocCached, AllocRing, ReclaimEnd, tableVars, passVars, safeVars
  <2>4. CASE ReclaimTake(m)
    <3>1. PICK part \in SUBSET limbo[1].idx :
            limbo' = IF part = limbo[1].idx THEN Tail(limbo)
                     ELSE [limbo EXCEPT ![1] = [idx |-> @.idx \ part, wait |-> @.wait]]
      BY <2>4 DEF ReclaimTake
    <3>2. /\ limbo # <<>> /\ limbo[1].wait = {}
          /\ UNCHANGED <<flow_hash, del, entry_key>>
      BY <2>4 DEF ReclaimTake, MayTake, tableVars
    <3>3. CASE ~(\E b \in 1..Len(limbo) : i \in limbo[b].idx /\ l \in limbo[b].wait)
      BY <3>2, <3>3 DEF Safe, InHash, Mapped
    <3>4. ASSUME NEW b \in 1..Len(limbo), i \in limbo[b].idx, l \in limbo[b].wait
          PROVE  Goal
      <4>1. b # 1 /\ Len(limbo) \in Nat
        BY <1>t, <3>2, <3>4, LenProperties DEF TypeOK
      <4>2. CASE /\ Len(limbo') = Len(limbo) - 1
                 /\ \A c \in 1..Len(limbo') : limbo'[c] = limbo[c + 1]
        <5>1. b - 1 \in 1..Len(limbo') /\ (b - 1) + 1 = b
          BY <4>1, <4>2
        <5>2. limbo'[b - 1] = limbo[b]
          BY <4>2, <5>1
        <5> QED
          BY <3>2, <3>4, <5>1, <5>2 DEF Safe
      <4>3. CASE /\ Len(limbo') = Len(limbo)
                 /\ \A c \in 2..Len(limbo') : limbo'[c] = limbo[c]
        BY <3>2, <3>4, <4>1, <4>3 DEF Safe
      <4> QED
        BY <1>t, <3>1, <3>2, <4>2, <4>3, TakeLimbo
    <3> QED
      BY <3>3, <3>4
  <2>5. CASE Fill(m) \/ GiveBack(m)
    <3>1. own[m] # i
      BY SafeNotReusable, ReusableIn
    <3>2. entry_key'[i] = entry_key[i] /\ UNCHANGED <<flow_hash, limbo, del>>
      BY <1>t, <2>5, <3>1 DEF Fill, GiveBack, freeVars, passVars, TypeOK
    <3> QED
      BY <3>2 DEF Safe, InHash, Mapped
  <2>6. CASE Add(m)
    <3>1. UNCHANGED <<limbo, del, entry_key>>
      BY <2>6 DEF Add, freeVars, passVars
    <3>2. InHash \subseteq InHash'
      <4>1. CASE ~StillAbsent(m)
        BY <2>6, <4>1 DEF Add, InHash, Mapped
      <4>2. CASE StillAbsent(m)
        <5>1. \A k \in Keys : flow_hash[k] # None => flow_hash'[k] = flow_hash[k]
          BY <1>t, <2>6, <4>2 DEF Add, StillAbsent, TypeOK
        <5> QED
          BY <5>1 DEF InHash, Mapped
      <4> QED
        BY <4>1, <4>2
    <3> QED
      BY <3>1, <3>2 DEF Safe
  <2>7. CASE EvictDelete(m) \/ AgeDelete(m)
    <3>1. PICK c \in cand[m] :
            \/ StillMapped(c) /\ DeleteMapping(m, c[1], c[2])
            \/ KeepMapping
      BY <2>7 DEF EvictDelete, AgeDelete
    <3>2. UNCHANGED <<limbo, entry_key>>
      BY <2>7 DEF EvictDelete, AgeDelete, freeVars
    <3>3. CASE KeepMapping
      BY <3>2, <3>3, SafeQuiet DEF KeepMapping, safeVars
    <3>4. CASE StillMapped(c) /\ DeleteMapping(m, c[1], c[2])
      <4>1. c[1] \in Keys /\ c[2] \in Indices /\ flow_hash[c[1]] = c[2]
        BY <1>t, <3>4 DEF StillMapped, TypeOK
      <4> QED
        BY <3>2, <3>4, <4>1, SafeDelete
    <3> QED
      BY <3>1, <3>3, <3>4
  <2>8. CASE ClearDelete(m)
    <3>1. PICK c \in cand[m] :
            \/ flow_hash[c[1]] # None /\ DeleteMapping(m, c[1], flow_hash[c[1]])
            \/ KeepMapping
      BY <2>8 DEF ClearDelete
    <3>2. UNCHANGED <<limbo, entry_key>>
      BY <2>8 DEF ClearDelete, freeVars
    <3>3. CASE KeepMapping
      BY <3>2, <3>3, SafeQuiet DEF KeepMapping, safeVars
    <3>4. CASE flow_hash[c[1]] # None /\ DeleteMapping(m, c[1], flow_hash[c[1]])
      <4>1. c[1] \in Keys
        BY <1>t, <2>8 DEF ClearDelete, ControlOK, LcoreOK
      <4>2. flow_hash[c[1]] \in Indices
        BY <1>t, <3>4, <4>1 DEF TypeOK
      <4> QED
        BY <3>2, <3>4, <4>1, <4>2, SafeDelete
    <3> QED
      BY <3>1, <3>3, <3>4
  <2>9. CASE Retire(m)
    <3>1. /\ PushLimbo(del[m]) /\ del' = [del EXCEPT ![m] = {}]
          /\ UNCHANGED <<flow_hash, entry_key>>
      BY <1>t, <2>9, RetireAll DEF Retire, tableVars
    <3>2. l \in readers
      BY <1>t DEF ControlOK, LcoreOK
    <3>3. \A o \in Lcores \ {m} : del'[o] = del[o]
      BY <1>t, <3>1 DEF TypeOK
    <3>4. /\ \A b \in 1..Len(limbo) : i \in limbo[b].idx /\ l \in limbo[b].wait =>
               \E c \in 1..Len(limbo') : i \in limbo'[c].idx /\ l \in limbo'[c].wait
          /\ i \in del[m] =>
               \E c \in 1..Len(limbo') : i \in limbo'[c].idx /\ l \in limbo'[c].wait
      <4>1. del[m] \in SUBSET Indices /\ PushLimbo(del[m])
        BY <1>t, <3>1 DEF TypeOK
      <4> QED
        BY <1>t, <3>2, <4>1, PushKeeps
    <3> QED
      BY <3>1, <3>3, <3>4 DEF Safe, InHash, Mapped
  <2> QED
    BY <1>9, <2>1, <2>2, <2>3, <2>4, <2>5, <2>6, <2>7, <2>8, <2>9 DEF Step
<1> QED
  BY <1>1, <1>2, <1>3, <1>4, <1>5, <1>6, <1>7, <1>8, <1>9 DEF Next

-----------------------------------------------------------------------------
(* The keys of the entries, the bitmap and the index.                        *)

EntriesInv == KeysAgree /\ UsedIsMapped /\ OwnFilled

\* Lcores' moves outside creates, and the fields they leave alone.
LEMMA EntriesQuiet ==
  ASSUME EntriesInv, UNCHANGED <<flow_hash, flow_used, entry_key, own>>,
         \A l \in Lcores : pc'[l] \in {"add", "giveback"} =>
                             pc[l] \in {"add", "giveback"} /\ key'[l] = key[l]
  PROVE  EntriesInv'
<1> QED
  BY DEF EntriesInv, KeysAgree, UsedIsMapped, OwnFilled, InHash, Mapped

LEMMA EntriesDelete ==
  ASSUME PlaceInv, EntriesInv, NEW m \in Lcores, NEW k \in Keys, NEW i \in Indices,
         flow_hash[k] = i, DeleteMapping(m, k, i),
         UNCHANGED <<entry_key, own, key, pc>>
  PROVE  EntriesInv'
<1>1. /\ InHash' = InHash \ {i}
      /\ \A j \in Keys : flow_hash'[j] = IF j = k THEN None ELSE flow_hash[j]
  BY DeleteEffect
<1>2. UsedIsMapped'
  BY <1>1 DEF EntriesInv, UsedIsMapped, DeleteMapping, BitCleared
<1>3. KeysAgree'
  BY <1>1 DEF EntriesInv, KeysAgree, Mapped
<1> QED
  BY <1>2, <1>3 DEF EntriesInv, OwnFilled

LEMMA EntriesStep == PlaceInv /\ EntriesInv /\ [Next]_vars => EntriesInv'
<1> SUFFICES ASSUME PlaceInv, EntriesInv, [Next]_vars PROVE EntriesInv'
  OBVIOUS
<1>t. TypeOK /\ ControlOK /\ Exclusive
  BY DEF PlaceInv, TypeInv
<1> USE ConstantsAssumption
<1>1. CASE UNCHANGED vars
  BY <1>1, EntriesQuiet DEF vars, tableVars, packetVars
<1>2. ASSUME NEW m \in Lcores, Register(m) \/ Quiescent(m) \/ Unregister(m)
      PROVE  EntriesInv'
  BY <1>t, <1>2, EntriesQuiet DEF Register, Quiescent, Unregister, Goto, TypeOK,
     tableVars, packetVars
<1>5. ASSUME NEW m \in Lcores, NEW k \in Keys, Lookup(m, k) PROVE EntriesInv'
  BY <1>t, <1>5, EntriesQuiet DEF Lookup, TypeOK, tableVars
<1>6. ASSUME NEW m \in Lcores, NEW k \in Keys, NEW kread \in Keys, EvictScan(m, k, kread)
      PROVE  EntriesInv'
  BY <1>6, EntriesQuiet DEF EvictScan, tableVars, packetVars
<1>7. ASSUME NEW m \in Lcores, NEW j \in Indices, AgeScan(m, j) PROVE EntriesInv'
  BY <1>7, EntriesQuiet DEF AgeScan, tableVars, packetVars
<1>8. ASSUME NEW m \in Lcores, AgeStart(m) \/ ClearStart(m) PROVE EntriesInv'
  BY <1>t, <1>8, EntriesQuiet DEF AgeStart, ClearStart, Goto, TypeOK, tableVars, packetVars
<1>9. ASSUME NEW m \in Lcores, Step(m) PROVE EntriesInv'
  <2>1. CASE Done(m) \/ AllocEmpty(m) \/ EvictStart(m) \/ CreateFails(m)
    BY <1>t, <2>1, EntriesQuiet DEF Done, AllocEmpty, EvictStart, CreateFails, Goto,
       TypeOK, tableVars, packetVars
  <2>2. CASE \/ EvictSelect(m) \/ AgeWatch(m) \/ AgeScanEnd(m) \/ ClearScan(m)
             \/ ReclaimTake(m) \/ Publish(m)
    BY <1>t, <2>2, EntriesQuiet DEF EvictSelect, AgeWatch, AgeScanEnd, ClearScan,
       ReclaimTake, Publish, Goto, TypeOK, tableVars, packetVars
  <2>3. CASE ReclaimEnd(m) \/ Retire(m)
    BY <1>t, <2>3, EntriesQuiet DEF ReclaimEnd, Retire, Goto, TypeOK, tableVars, packetVars
  <2>4. CASE AllocCached(m) \/ AllocRing(m)
    <3>1. /\ UNCHANGED <<flow_hash, flow_used, entry_key, key>>
          /\ pc' = [pc EXCEPT ![m] = "fill"]
          /\ \A o \in Lcores \ {m} : own'[o] = own[o]
      BY <1>t, <2>4 DEF AllocCached, AllocRing, Goto, tableVars, TypeOK
    <3>2. OwnFilled'
      BY <1>t, <3>1 DEF EntriesInv, OwnFilled, TypeOK
    <3> QED
      BY <3>1, <3>2 DEF EntriesInv, KeysAgree, UsedIsMapped, InHash, Mapped
  <2>5. CASE Fill(m) \/ GiveBack(m)
    <3>1. /\ own[m] \in Indices
          /\ UNCHANGED <<flow_hash, flow_used, key>>
          /\ \A j \in Indices : j # own[m] => entry_key'[j] = entry_key[j]
      BY <1>t, <2>5 DEF Fill, GiveBack, Goto, ControlOK, LcoreOK, AtCreate, TypeOK,
         packetVars
    <3>2. \A k \in Mapped : flow_hash[k] \in Indices /\ flow_hash[k] # own[m]
      BY <1>t, <3>1 DEF Exclusive, Priv, Mapped, TypeOK
    <3>3. KeysAgree' /\ UsedIsMapped'
      BY <3>1, <3>2 DEF EntriesInv, KeysAgree, UsedIsMapped, InHash, Mapped
    <3>4. ASSUME NEW o \in Lcores, pc'[o] \in {"add", "giveback"}
          PROVE  entry_key'[own'[o]] = key'[o]
      <4>1. CASE o = m
        BY <1>t, <2>5, <3>1, <3>4, <4>1 DEF Fill, GiveBack, Goto, TypeOK, packetVars
      <4>2. CASE o # m
        <5>1. pc[o] = pc'[o] /\ own'[o] = own[o]
          BY <1>t, <2>5, <4>2 DEF Fill, GiveBack, Goto, TypeOK, packetVars
        <5>2. own[o] \in Indices /\ own[o] # own[m]
          BY <1>t, <3>1, <3>4, <4>2, <5>1 DEF ControlOK, LcoreOK, AtCreate, Exclusive, Priv
        <5> QED
          BY <3>1, <3>4, <5>1, <5>2 DEF EntriesInv, OwnFilled
      <4> QED
        BY <4>1, <4>2
    <3> QED
      BY <3>3, <3>4 DEF EntriesInv, OwnFilled
  <2>6. CASE Add(m)
    <3>1. /\ UNCHANGED <<entry_key, key>>
          /\ pc[m] = "add" /\ key[m] \in Keys /\ own[m] \in Indices
          /\ entry_key[own[m]] = key[m]
      BY <1>t, <2>6 DEF Add, EntriesInv, OwnFilled, ControlOK, LcoreOK, AtCreate, AtPacket
    <3>2. CASE ~StillAbsent(m)
      BY <1>t, <2>6, <3>1, <3>2, EntriesQuiet DEF Add, TypeOK
    <3>3. CASE StillAbsent(m)
      <4>1. /\ flow_hash' = [flow_hash EXCEPT ![key[m]] = own[m]]
            /\ flow_used' = flow_used \cup {own[m]}
            /\ own' = [own EXCEPT ![m] = None]
            /\ pc' = [pc EXCEPT ![m] = "publish"]
        BY <2>6, <3>3 DEF Add
      <4>2. \A k \in Keys : flow_hash'[k] = IF k = key[m] THEN own[m] ELSE flow_hash[k]
        BY <1>t, <4>1 DEF TypeOK
      <4>3. InHash' = InHash \cup {own[m]}
        BY <3>1, <3>3, <4>2 DEF InHash, Mapped, StillAbsent
      <4>4. UsedIsMapped'
        BY <4>1, <4>3 DEF EntriesInv, UsedIsMapped
      <4>5. KeysAgree'
        BY <3>1, <4>2 DEF EntriesInv, KeysAgree, Mapped
      <4>6. OwnFilled'
        BY <1>t, <3>1, <4>1 DEF EntriesInv, OwnFilled, TypeOK
      <4> QED
        BY <4>4, <4>5, <4>6 DEF EntriesInv
    <3> QED
      BY <3>2, <3>3
  <2>7. CASE EvictDelete(m) \/ AgeDelete(m)
    <3>1. PICK c \in cand[m] :
            \/ StillMapped(c) /\ DeleteMapping(m, c[1], c[2])
            \/ KeepMapping
      BY <2>7 DEF EvictDelete, AgeDelete
    <3>2. UNCHANGED <<entry_key, own, key, pc>>
      BY <2>7 DEF EvictDelete, AgeDelete, packetVars
    <3>3. CASE KeepMapping
      BY <3>2, <3>3, EntriesQuiet DEF KeepMapping
    <3>4. CASE StillMapped(c) /\ DeleteMapping(m, c[1], c[2])
      <4>1. c[1] \in Keys /\ c[2] \in Indices /\ flow_hash[c[1]] = c[2]
        BY <1>t, <3>4 DEF StillMapped, TypeOK
      <4> QED
        BY <3>2, <3>4, <4>1, EntriesDelete
    <3> QED
      BY <3>1, <3>3, <3>4
  <2>8. CASE ClearDelete(m)
    <3>1. PICK c \in cand[m] :
            \/ flow_hash[c[1]] # None /\ DeleteMapping(m, c[1], flow_hash[c[1]])
            \/ KeepMapping
      BY <2>8 DEF ClearDelete
    <3>2. UNCHANGED <<entry_key, own, key, pc>>
      BY <2>8 DEF ClearDelete, packetVars
    <3>3. CASE KeepMapping
      BY <3>2, <3>3, EntriesQuiet DEF KeepMapping
    <3>4. CASE flow_hash[c[1]] # None /\ DeleteMapping(m, c[1], flow_hash[c[1]])
      <4>1. c[1] \in Keys
        BY <1>t, <2>8 DEF ClearDelete, ControlOK, LcoreOK
      <4>2. flow_hash[c[1]] \in Indices
        BY <1>t, <3>4, <4>1 DEF TypeOK
      <4> QED
        BY <3>2, <3>4, <4>1, <4>2, EntriesDelete
    <3> QED
      BY <3>1, <3>3, <3>4
  <2> QED
    BY <1>9, <2>1, <2>2, <2>3, <2>4, <2>5, <2>6, <2>7, <2>8 DEF Step
<1> QED
  BY <1>1, <1>2, <1>5, <1>6, <1>7, <1>8, <1>9 DEF Next

-----------------------------------------------------------------------------
(* What is held: flow pointers, and the bitmap word of an aging pass.        *)

\* A pointer already held, by an lcore that keeps it.
LEMMA RefKept ==
  ASSUME PlaceInv, RefsSafe, [Next]_vars, NEW l \in Lcores,
         ref[l] \in Indices, ref'[l] = ref[l], key'[l] = key[l]
  PROVE  Safe(l, ref[l])' /\ entry_key'[ref[l]] = key'[l]
<1>1. pc[l] \in AtHeld
  BY DEF PlaceInv, TypeInv, ControlOK, LcoreOK
<1> QED
  BY <1>1, SafeStep DEF RefsSafe, AtHeld

LEMMA RefsStep == PlaceInv /\ EntriesInv /\ RefsSafe /\ [Next]_vars => RefsSafe'
<1> SUFFICES ASSUME PlaceInv, EntriesInv, RefsSafe, [Next]_vars,
                    NEW l \in Lcores, ref'[l] \in Indices
             PROVE  Safe(l, ref[l])' /\ entry_key'[ref'[l]] = key'[l]
  BY DEF RefsSafe
<1>t. TypeOK /\ ControlOK /\ Exclusive
  BY DEF PlaceInv, TypeInv
<1> USE ConstantsAssumption
<1> DEFINE Goal == Safe(l, ref[l])' /\ entry_key'[ref'[l]] = key'[l]
<1>k. ASSUME ref'[l] = ref[l], key'[l] = key[l] PROVE Goal
  BY <1>k, RefKept DEF Safe
<1>1. CASE UNCHANGED vars
  BY <1>1, <1>k DEF vars, packetVars
<1>2. ASSUME NEW m \in Lcores, Register(m) \/ Quiescent(m) \/ Unregister(m)
      PROVE  Goal
  BY <1>2, <1>k DEF Register, Quiescent, Unregister, packetVars
<1>3. ASSUME NEW m \in Lcores, NEW k \in Keys, Lookup(m, k) PROVE Goal
  <2>1. CASE m # l
    BY <1>t, <1>3, <2>1, <1>k DEF Lookup, TypeOK
  <2>2. CASE m = l
    <3>1. ref'[l] = flow_hash[k] /\ key'[l] = k
          /\ UNCHANGED <<flow_hash, entry_key>>
      BY <1>t, <1>3, <2>2 DEF Lookup, TypeOK, tableVars
    <3>2. k \in Mapped /\ entry_key[flow_hash[k]] = k
      BY <3>1 DEF Mapped, EntriesInv, KeysAgree
    <3> QED
      BY <3>1, <3>2 DEF Safe, InHash, Mapped
  <2> QED
    BY <2>1, <2>2
<1>4. ASSUME NEW m \in Lcores, NEW k \in Keys, NEW kread \in Keys, EvictScan(m, k, kread)
      PROVE  Goal
  BY <1>4, <1>k DEF EvictScan, packetVars
<1>5. ASSUME NEW m \in Lcores, NEW j \in Indices, AgeScan(m, j) PROVE Goal
  BY <1>5, <1>k DEF AgeScan, packetVars
<1>6. ASSUME NEW m \in Lcores, AgeStart(m) \/ ClearStart(m) PROVE Goal
  BY <1>6, <1>k DEF AgeStart, ClearStart, packetVars
<1>7. ASSUME NEW m \in Lcores, Step(m) PROVE Goal
  <2>1. CASE Done(m)
    <3>1. m # l
      BY <1>t, <2>1 DEF Done, TypeOK
    <3> QED
      BY <1>t, <2>1, <3>1, <1>k DEF Done, TypeOK
  <2>2. CASE CreateFails(m)
    <3>1. CASE m # l
      BY <1>t, <2>2, <3>1, <1>k DEF CreateFails, TypeOK
    <3>2. CASE m = l
      BY <1>t, <2>2, <3>2 DEF CreateFails, Goto, ControlOK, LcoreOK, AtHeld
    <3> QED
      BY <3>1, <3>2
  <2>3. CASE Add(m)
    <3>1. CASE m # l
      BY <1>t, <2>3, <3>1, <1>k DEF Add, TypeOK
    <3>2. CASE m = l
      <4>1. /\ pc[l] = "add" /\ key[l] \in Keys /\ own[l] \in Indices
            /\ UNCHANGED <<entry_key, key>> /\ entry_key[own[l]] = key[l]
        BY <1>t, <2>3, <3>2 DEF Add, EntriesInv, OwnFilled, ControlOK, LcoreOK, AtCreate,
                                AtPacket
      <4>2. ref'[l] = flow_hash'[key[l]] /\ entry_key[ref'[l]] = key[l]
        <5>1. CASE StillAbsent(l)
          BY <1>t, <2>3, <3>2, <4>1, <5>1 DEF Add, TypeOK
        <5>2. CASE ~StillAbsent(l)
          BY <1>t, <2>3, <3>2, <4>1, <5>2 DEF Add, StillAbsent, TypeOK, EntriesInv,
                                              KeysAgree, Mapped
        <5> QED
          BY <5>1, <5>2
      <4> QED
        BY <4>1, <4>2 DEF Safe, InHash, Mapped
    <3> QED
      BY <3>1, <3>2
  <2>4. CASE ~(Done(m) \/ CreateFails(m) \/ Add(m))
    <3>1. UNCHANGED <<ref, key>>
      BY <1>7, <2>4 DEF Step, AllocCached, AllocRing, AllocEmpty, ReclaimTake, ReclaimEnd,
         EvictStart, Fill, GiveBack, Publish, EvictSelect, EvictDelete, AgeWatch,
         AgeScanEnd, AgeDelete, ClearScan, ClearDelete, Retire, packetVars
    <3> QED
      BY <3>1, <1>k
  <2> QED
    BY <2>1, <2>2, <2>3, <2>4
<1> QED
  BY <1>1, <1>2, <1>3, <1>4, <1>5, <1>6, <1>7 DEF Next

LEMMA BitsStep == PlaceInv /\ EntriesInv /\ BitsSafe /\ [Next]_vars => BitsSafe'
<1> SUFFICES ASSUME PlaceInv, EntriesInv, BitsSafe, [Next]_vars, NEW i \in bits'
             PROVE  Safe(Maint, i)'
  BY DEF BitsSafe
<1>t. TypeOK /\ ControlOK
  BY DEF PlaceInv, TypeInv
<1> USE ConstantsAssumption
<1>1. CASE i \in bits
  <2>1. pc[Maint] = "age_scan" /\ i \in Indices
    BY <1>t, <1>1 DEF ControlOK, TypeOK
  <2> QED
    BY <1>1, <2>1, SafeStep DEF BitsSafe
<1>2. CASE i \notin bits
  <2>1. PICK m \in Lcores : AgeWatch(m) /\ bits' = flow_used
    BY <1>2 DEF Next, Step, vars, passVars, Register, Quiescent, Unregister, Lookup,
       EvictScan, AgeScan, AgeStart, ClearStart, Done, AllocCached, AllocRing, AllocEmpty,
       ReclaimTake, ReclaimEnd, EvictStart, CreateFails, Fill, Add, GiveBack, Publish,
       EvictSelect, EvictDelete, AgeWatch, AgeScanEnd, AgeDelete, ClearScan, ClearDelete,
       Retire
  <2>2. UNCHANGED flow_hash /\ i \in InHash
    BY <2>1 DEF AgeWatch, tableVars, EntriesInv, UsedIsMapped
  <2> QED
    BY <2>2 DEF Safe, InHash, Mapped
<1> QED
  BY <1>1, <1>2

-----------------------------------------------------------------------------
HeldAll == PlaceInv /\ EntriesInv /\ RefsSafe /\ BitsSafe

LEMMA HeldInvariant == Spec => []HeldAll
<1>1. Init => HeldAll
  <2> SUFFICES ASSUME Init PROVE HeldAll
    OBVIOUS
  <2>1. PlaceInv
    BY InitPlace
  <2>2. EntriesInv /\ RefsSafe /\ BitsSafe
    BY ConstantsAssumption DEF Init, EntriesInv, KeysAgree, UsedIsMapped, OwnFilled,
       RefsSafe, BitsSafe, InHash, Mapped
  <2> QED
    BY <2>1, <2>2 DEF HeldAll
<1>2. HeldAll /\ [Next]_vars => HeldAll'
  <2>1. PlaceInv /\ [Next]_vars => PlaceInv'
    BY TypeStep, ControlStep, PlaceStep DEF PlaceInv, TypeInv
  <2> QED
    BY <2>1, EntriesStep, RefsStep, BitsStep DEF HeldAll
<1> QED
  BY <1>1, <1>2, PTL DEF Spec

\* A flow pointer an lcore holds is never the entry of a later flow: until that
\* lcore reports a quiescent state no create can have the entry, and it still
\* carries the key of the lcore's packet.  The same for what aging reads.
THEOREM HeldNotReusedCorrect == Spec => []HeldNotReused
<1>1. HeldAll => HeldNotReused
  <2> SUFFICES ASSUME HeldAll PROVE HeldNotReused
    OBVIOUS
  <2>t. TypeOK
    BY DEF HeldAll, PlaceInv, TypeInv
  <2>1. ASSUME NEW l \in Lcores, ref[l] # None
        PROVE  ref[l] \notin Reusable /\ entry_key[ref[l]] = key[l]
    BY <2>t, <2>1, SafeNotReusable DEF HeldAll, RefsSafe, TypeOK
  <2>2. bits \cap Reusable = {}
    BY <2>t, SafeNotReusable, ConstantsAssumption DEF HeldAll, BitsSafe, TypeOK
  <2> QED
    BY <2>1, <2>2 DEF HeldNotReused
<1> QED
  BY HeldInvariant, <1>1, PTL

\* A held flow is the one its key maps to, until a delete pass removes it: no
\* racing create gives the key a second entry.
THEOREM NoOrphanCorrect == Spec => []NoOrphan
<1>1. HeldAll => NoOrphan
  <2> SUFFICES ASSUME HeldAll, NEW l \in Lcores, ref[l] # None
               PROVE  \/ flow_hash[key[l]] = ref[l]
                      \/ ref[l] \in LimboIdx \cup UNION {del[m] : m \in Lcores}
    BY DEF NoOrphan
  <2>1. TypeOK /\ ref[l] \in Indices
    BY DEF HeldAll, PlaceInv, TypeInv, TypeOK
  <2>2. Safe(l, ref[l]) /\ entry_key[ref[l]] = key[l]
    BY <2>1 DEF HeldAll, RefsSafe
  <2>3. CASE ref[l] \in InHash
    <3>1. PICK k \in Mapped : flow_hash[k] = ref[l]
      BY <2>3 DEF InHash
    <3> QED
      BY <2>2, <3>1 DEF HeldAll, EntriesInv, KeysAgree
  <2> QED
    BY <2>2, <2>3 DEF Safe, LimboIdx
<1> QED
  BY HeldInvariant, <1>1, PTL

\* The lock-free readers of the index see entries that hold the key looked up,
\* and the bitmap aging walks is exactly the set of mapped entries.
THEOREM IndexConsistentCorrect == Spec => []IndexConsistent
<1>1. HeldAll => IndexConsistent
  BY DEF HeldAll, EntriesInv, KeysAgree, UsedIsMapped, IndexConsistent
<1> QED
  BY HeldInvariant, <1>1, PTL

\* A mapped key keeps its entry until a delete: whatever creates race, none of
\* them moves the key to an entry of its own.
THEOREM MappingNotReplacedCorrect == Spec => MappingNotReplaced
<1> DEFINE Kept == \A k \in Keys : flow_hash[k] # None => flow_hash'[k] \in {flow_hash[k], None}
<1>1. PlaceInv /\ [Next]_vars => [Kept]_vars
  <2> SUFFICES ASSUME PlaceInv, Next, NEW k \in Keys, flow_hash[k] # None
               PROVE  flow_hash'[k] \in {flow_hash[k], None}
    OBVIOUS
  <2>t. TypeOK /\ ControlOK
    BY DEF PlaceInv, TypeInv
  <2>1. ASSUME NEW m \in Lcores, Add(m) PROVE flow_hash'[k] = flow_hash[k]
    BY <2>t, <2>1 DEF Add, StillAbsent, TypeOK
  <2>2. ASSUME NEW m \in Lcores, NEW j \in Keys, NEW i, DeleteMapping(m, j, i)
        PROVE  flow_hash'[k] \in {flow_hash[k], None}
    BY <2>t, <2>2 DEF DeleteMapping, TypeOK
  <2>3. ASSUME NEW m \in Lcores, EvictDelete(m) \/ AgeDelete(m)
        PROVE  flow_hash'[k] \in {flow_hash[k], None}
    <3>1. PICK c \in cand[m] : \/ StillMapped(c) /\ DeleteMapping(m, c[1], c[2])
                               \/ KeepMapping
      BY <2>3 DEF EvictDelete, AgeDelete
    <3>2. CASE StillMapped(c) /\ DeleteMapping(m, c[1], c[2])
      <4>1. c[1] \in Keys
        BY <2>t, <3>2 DEF StillMapped, TypeOK
      <4> QED
        BY <2>2, <3>2, <4>1
    <3> QED
      BY <3>1, <3>2 DEF KeepMapping
  <2>4. ASSUME NEW m \in Lcores, ClearDelete(m)
        PROVE  flow_hash'[k] \in {flow_hash[k], None}
    <3>1. PICK c \in cand[m] : \/ DeleteMapping(m, c[1], flow_hash[c[1]])
                               \/ KeepMapping
      BY <2>4 DEF ClearDelete
    <3>2. c[1] \in Keys
      BY <2>t, <2>4 DEF ClearDelete, ControlOK, LcoreOK
    <3> QED
      BY <2>2, <3>1, <3>2 DEF KeepMapping
  <2>5. ASSUME NEW m \in Lcores, Step(m),
               ~(Add(m) \/ EvictDelete(m) \/ AgeDelete(m) \/ ClearDelete(m))
        PROVE  flow_hash' = flow_hash
    BY <2>5 DEF Step, Done, AllocCached, AllocRing, AllocEmpty, ReclaimTake, ReclaimEnd,
       EvictStart, CreateFails, Fill, GiveBack, Publish, EvictSelect, AgeWatch, AgeScanEnd,
       ClearScan, Retire, tableVars
  <2>6. CASE \E m \in Lcores : Step(m)
    BY <2>1, <2>3, <2>4, <2>5, <2>6
  <2>7. CASE ~(\E m \in Lcores : Step(m))
    <3>1. flow_hash' = flow_hash
      BY <2>7 DEF Next, Register, Quiescent, Unregister, Lookup, EvictScan, AgeScan,
         AgeStart, ClearStart, tableVars
    <3> QED
      BY <3>1
  <2> QED
    BY <2>6, <2>7
<1> QED
  BY PlaceInvariant, <1>1, PTL DEF Spec, MappingNotReplaced

-----------------------------------------------------------------------------
(* FlowTable implements FlowStore: every step of the table is a step of the  *)
(* store its users rely on, or leaves the store as it is.                    *)

DeadIdx == LimboIdx \cup (UNION {del[l] : l \in Lcores})

LEMMA DeadIs ==
  ASSUME NEW i
  PROVE  i \in DeadIdx <=> i \in LimboIdx \/ \E l \in Lcores : i \in del[l]
<1> QED
  BY DEF DeadIdx

LEMMA PhaseIs ==
  ASSUME PlaceInv, NEW i \in Indices
  PROVE  /\ Phase(i) = "live" <=> i \in InHash
         /\ Phase(i) = "dead" <=> i \in DeadIdx
         /\ Phase(i) = "free" <=> i \notin InHash /\ i \notin DeadIdx
<1>1. i \in InHash => i \notin DeadIdx
  BY ConstantsAssumption, PrivateApart, DeadIs
     DEF PlaceInv, TypeInv, Exclusive, InHash, Mapped
<1> QED
  BY <1>1 DEF Phase, DeadIdx

LEMMA LiveIs ==
  ASSUME HeldAll, NEW k \in Keys
  PROVE  Store!Live(k) = {i \in Indices : flow_hash[k] = i}
<1>1. PlaceInv /\ TypeOK /\ KeysAgree
  BY DEF HeldAll, PlaceInv, TypeInv, EntriesInv
<1>2. ASSUME NEW i \in Indices, Phase(i) = "live", entry_key[i] = k
      PROVE  flow_hash[k] = i
  <2>1. PICK j \in Mapped : flow_hash[j] = i
    BY <1>1, <1>2, PhaseIs DEF InHash
  <2> QED
    BY <1>1, <1>2, <2>1 DEF KeysAgree
<1>3. ASSUME NEW i \in Indices, flow_hash[k] = i
      PROVE  Phase(i) = "live" /\ entry_key[i] = k
  <2>1. k \in Mapped /\ i \in InHash
    BY <1>3, ConstantsAssumption DEF Mapped, InHash
  <2> QED
    BY <1>1, <1>3, <2>1, PhaseIs DEF KeysAgree
<1>4. ASSUME NEW i \in Indices
      PROVE  i \in Store!Live(k) <=> Phase(i) = "live" /\ entry_key[i] = k
  BY DEF Store!Live
<1> QED
  BY <1>2, <1>3, <1>4 DEF Store!Live

\* The store's variables, as functions of the sets they are built from.
LEMMA SamePhases ==
  ASSUME InHash' = InHash, DeadIdx' = DeadIdx,
         \A i \in Indices : i \in InHash \cup DeadIdx => entry_key'[i] = entry_key[i]
  PROVE  /\ [i \in Indices |-> Phase(i)]' = [i \in Indices |-> Phase(i)]
         /\ [i \in Indices |-> IF Phase(i) = "free" THEN None ELSE entry_key[i]]'
            = [i \in Indices |-> IF Phase(i) = "free" THEN None ELSE entry_key[i]]
<1>1. \A i \in Indices : Phase(i)' = Phase(i)
  BY DEF Phase, DeadIdx
<1>2. \A i \in Indices : Phase(i) # "free" => i \in InHash \cup DeadIdx
  BY DEF Phase, DeadIdx
<1> QED
  BY <1>1, <1>2

LEMMA SameHeld ==
  ASSUME NEW l \in Lcores, ref'[l] = ref[l], l = Maint => bits' = bits
  PROVE  Held(l)' = Held(l)
<1> QED
  BY DEF Held

LEMMA SameStore ==
  ASSUME InHash' = InHash, DeadIdx' = DeadIdx,
         \A i \in Indices : i \in InHash \cup DeadIdx => entry_key'[i] = entry_key[i],
         \A l \in Lcores : Held(l)' = Held(l)
  PROVE  UNCHANGED Store!svars
<1>1. [l \in Lcores |-> Held(l)]' = [l \in Lcores |-> Held(l)]
  OBVIOUS
<1> QED
  BY <1>1, SamePhases DEF Store!svars

\* Steps that change none of what the store is made of.
LEMMA StoreQuiet ==
  ASSUME UNCHANGED <<flow_hash, del, entry_key, ref, bits>>, LimboIdx' = LimboIdx
  PROVE  UNCHANGED Store!svars
<1>1. InHash' = InHash /\ DeadIdx' = DeadIdx
  BY DEF InHash, Mapped, DeadIdx
<1>2. \A l \in Lcores : Held(l)' = Held(l)
  BY SameHeld
<1> QED
  BY <1>1, <1>2, SameStore

\* Steps that only change what lcores hold.
LEMMA OnlyHeld ==
  ASSUME UNCHANGED <<flow_hash, limbo, del, entry_key>>
  PROVE  UNCHANGED <<[i \in Indices |-> Phase(i)],
                     [i \in Indices |-> IF Phase(i) = "free" THEN None ELSE entry_key[i]]>>
<1>1. InHash' = InHash /\ DeadIdx' = DeadIdx
  BY DEF InHash, Mapped, DeadIdx, LimboIdx
<1> QED
  BY <1>1, SamePhases

\* A reader's pointer becomes the entry its key maps to: the store's Find.
LEMMA FindStep ==
  ASSUME HeldAll, NEW l \in Lcores, NEW k \in Keys, flow_hash[k] # None, ref[l] = None,
         ref' = [ref EXCEPT ![l] = flow_hash[k]],
         UNCHANGED <<flow_hash, limbo, del, entry_key, bits>>
  PROVE  Store!Find(l, k)
<1>t. TypeOK
  BY DEF HeldAll, PlaceInv, TypeInv
<1> DEFINE i == flow_hash[k]
<1>1. i \in Indices /\ i \in Store!Live(k)
  BY <1>t, LiveIs DEF TypeOK
<1>2. Held(l)' = Held(l) \cup {i}
  BY <1>t, <1>1, ConstantsAssumption DEF Held, TypeOK
<1>3. \A m \in Lcores \ {l} : Held(m)' = Held(m)
  BY <1>t DEF Held, TypeOK
<1>4. [m \in Lcores |-> Held(m)]' =
        [[m \in Lcores |-> Held(m)] EXCEPT ![l] = @ \cup {i}]
  BY <1>2, <1>3
<1> QED
  BY <1>1, <1>4, OnlyHeld DEF Store!Find

\* Pointers go out of scope: the store's Release.
LEMMA ReleaseStep ==
  ASSUME TypeOK, NEW l \in Lcores, \A m \in Lcores \ {l} : Held(m)' = Held(m),
         Held(l)' \subseteq Held(l), Held(l) \subseteq Indices,
         UNCHANGED <<flow_hash, limbo, del, entry_key>>
  PROVE  \E keep \in SUBSET Indices : Store!Release(l, keep)
<1> DEFINE keep == Held(l)'
<1>1. keep \in SUBSET Indices /\ Held(l) \cap keep = keep
  OBVIOUS
<1>2. [m \in Lcores |-> Held(m)]' =
        [[m \in Lcores |-> Held(m)] EXCEPT ![l] = @ \cap keep]
  BY <1>1
<1>3. Store!Release(l, keep)
  BY <1>2, OnlyHeld DEF Store!Release
<1> QED
  BY <1>1, <1>3

\* The delete of a mapping: the store's Delete.
LEMMA DeleteStep ==
  ASSUME HeldAll, NEW m \in Lcores, NEW k \in Keys, NEW i \in Indices,
         flow_hash[k] = i, DeleteMapping(m, k, i),
         UNCHANGED <<limbo, entry_key, ref, bits>>
  PROVE  Store!Delete(i)
<1>t. TypeOK /\ PlaceInv
  BY DEF HeldAll, PlaceInv, TypeInv
<1>1. /\ InHash' = InHash \ {i} /\ i \in InHash
  BY <1>t, DeleteEffect, ConstantsAssumption DEF InHash, Mapped
<1>2. DeadIdx' = DeadIdx \cup {i}
  <2>1. \A o \in Lcores : del'[o] = IF o = m THEN del[o] \cup {i} ELSE del[o]
    BY <1>t DEF DeleteMapping, TypeOK
  <2>2. LimboIdx' = LimboIdx
    BY DEF LimboIdx
  <2>3. UNION {del'[o] : o \in Lcores} = (UNION {del[o] : o \in Lcores}) \cup {i}
    <3>1. \A j : (\E o \in Lcores : j \in del'[o]) <=> (\E o \in Lcores : j \in del[o]) \/ j = i
      BY <2>1
    <3> QED
      BY <3>1
  <2> QED
    BY <2>2, <2>3 DEF DeadIdx
<1>3. \A j \in Indices : Phase(j)' = IF j = i THEN "dead" ELSE Phase(j)
  BY <1>1, <1>2 DEF Phase, DeadIdx
<1>4. Phase(i) = "live"
  BY <1>1 DEF Phase
<1>5. [j \in Indices |-> Phase(j)]' = [[j \in Indices |-> Phase(j)] EXCEPT ![i] = "dead"]
  BY <1>3
<1>6. [j \in Indices |-> IF Phase(j) = "free" THEN None ELSE entry_key[j]]'
      = [j \in Indices |-> IF Phase(j) = "free" THEN None ELSE entry_key[j]]
  BY <1>3, <1>4
<1>7. [l \in Lcores |-> Held(l)]' = [l \in Lcores |-> Held(l)]
  BY SameHeld
<1> QED
  BY <1>4, <1>5, <1>6, <1>7 DEF Store!Delete

-----------------------------------------------------------------------------
(* The actions that change the store, one lemma each.                        *)

\* A create adds its entry: Insert; or finds the one a racing create added.
LEMMA AddStores ==
  ASSUME HeldAll, NEW l \in Lcores, Add(l)
  PROVE  \E k \in Keys : Store!Find(l, k) \/ \E i \in Indices : Store!Insert(l, k, i)
<1>t. TypeOK /\ ControlOK /\ Exclusive /\ PlaceInv
  BY DEF HeldAll, PlaceInv, TypeInv
<1>0. /\ pc[l] = "add"
      /\ UNCHANGED <<limbo, del, entry_key, bits>>
  BY DEF Add, freeVars, passVars
<1>1. /\ key[l] \in Keys /\ own[l] \in Indices /\ pc[l] = "add"
      /\ entry_key[own[l]] = key[l]
      /\ ref[l] = None
      /\ UNCHANGED <<limbo, del, entry_key, bits>>
  <2>1. key[l] \in Keys /\ own[l] \in Indices /\ ref[l] = None
    BY <1>t, <1>0 DEF ControlOK, LcoreOK, AtCreate, AtPacket, AtHeld, TypeOK
  <2>2. entry_key[own[l]] = key[l]
    BY <1>0 DEF HeldAll, EntriesInv, OwnFilled
  <2> QED
    BY <1>0, <2>1, <2>2
<1>2. CASE ~StillAbsent(l)
  <2>1. /\ flow_hash[key[l]] # None /\ flow_hash' = flow_hash
        /\ ref' = [ref EXCEPT ![l] = flow_hash[key[l]]]
    BY <1>2 DEF Add, StillAbsent
  <2> QED
    BY <1>1, <2>1, FindStep
<1>3. CASE StillAbsent(l)
  <2>0. PICK k \in Keys, i \in Indices : k = key[l] /\ i = own[l]
    BY <1>1
  <2>1. /\ flow_hash[k] = None
        /\ flow_hash' = [flow_hash EXCEPT ![k] = i]
        /\ ref' = [ref EXCEPT ![l] = i]
    BY <1>3, <2>0 DEF Add, StillAbsent
  <2>2. \A j \in Keys : flow_hash'[j] = IF j = k THEN i ELSE flow_hash[j]
    BY <1>t, <2>1 DEF TypeOK
  <2>3. InHash' = InHash \cup {i} /\ DeadIdx' = DeadIdx
    <3>1. InHash' = InHash \cup {i}
      BY <2>1, <2>2, ConstantsAssumption DEF InHash, Mapped
    <3>2. DeadIdx' = DeadIdx
      BY <1>1 DEF DeadIdx, LimboIdx
    <3> QED
      BY <3>1, <3>2
  <2>4. i \notin InHash /\ i \notin DeadIdx
    <3>1. i \in Priv(l) /\ i \notin del[l]
      BY <1>t, <1>1, <2>0, PrivateApart
    <3>2. /\ i \notin LimboIdx /\ \A j \in Keys : flow_hash[j] # i
          /\ \A m \in Lcores \ {l} : i \notin Priv(m)
      BY <1>t, <3>1 DEF Exclusive
    <3>3. \A m \in Lcores : i \notin del[m]
      BY <1>t, <1>1, <3>1, <3>2, PrivateApart
    <3> QED
      <4>1. i \notin DeadIdx
        BY <3>2, <3>3, DeadIs
      <4>2. i \notin InHash
        BY <3>2 DEF InHash, Mapped
      <4> QED
        BY <4>1, <4>2
  <2>5. \A j \in Indices : Phase(j)' = IF j = i THEN "live" ELSE Phase(j)
    BY <2>3 DEF Phase, DeadIdx
  <2>6. Phase(i) = "free" /\ Store!Live(k) = {}
    <3>1. Phase(i) = "free"
      BY <1>t, <1>1, <2>4, PhaseIs
    <3>2. Store!Live(k) = {}
      BY <1>1, <2>1, LiveIs, ConstantsAssumption
    <3> QED
      BY <3>1, <3>2
  <2>7. [j \in Indices |-> Phase(j)]' = [[j \in Indices |-> Phase(j)] EXCEPT ![i] = "live"]
    BY <2>5
  <2>8. [j \in Indices |-> IF Phase(j) = "free" THEN None ELSE entry_key[j]]'
        = [[j \in Indices |-> IF Phase(j) = "free" THEN None ELSE entry_key[j]]
             EXCEPT ![i] = k]
    BY <1>1, <2>0, <2>5
  <2>9. Held(l)' = Held(l) \cup {i} /\ \A m \in Lcores \ {l} : Held(m)' = Held(m)
    BY <1>t, <1>1, <2>1, ConstantsAssumption DEF Held, TypeOK
  <2>10. [m \in Lcores |-> Held(m)]' =
           [[m \in Lcores |-> Held(m)] EXCEPT ![l] = @ \cup {i}]
    BY <2>9
  <2>11. Store!Insert(l, k, i)
    BY <1>1, <2>6, <2>7, <2>8, <2>10 DEF Store!Insert
  <2> QED
    BY <2>11
<1> QED
  BY <1>2, <1>3

\* A batch taken out of the limbo: nobody holds what is in it.
LEMMA TakeStores ==
  ASSUME HeldAll, NEW l \in Lcores, ReclaimTake(l)
  PROVE  \E S \in SUBSET Indices : Store!Recycle(S)
<1>t. TypeOK /\ ControlOK /\ Exclusive /\ BatchesApart /\ PlaceInv
  BY DEF HeldAll, PlaceInv, TypeInv
<1>1. PICK part \in SUBSET limbo[1].idx :
        limbo' = IF part = limbo[1].idx THEN Tail(limbo)
                 ELSE [limbo EXCEPT ![1] = [idx |-> @.idx \ part, wait |-> @.wait]]
  BY DEF ReclaimTake
<1>2. /\ limbo # <<>> /\ limbo[1].wait = {}
      /\ UNCHANGED <<flow_hash, del, entry_key, ref, bits>>
  BY DEF ReclaimTake, MayTake, tableVars, packetVars
<1>3. LimboIdx' = LimboIdx \ part /\ part \subseteq LimboIdx
  BY <1>t, <1>1, <1>2, TakeIdx
<1>4. part \subseteq Indices
  <2>1. 1 \in 1..Len(limbo)
    BY <1>t, <1>2, EmptySeq, LenProperties DEF TypeOK
  <2>2. limbo[1] \in Batch
    BY <1>t, <2>1, ElementOfSeq DEF TypeOK
  <2> QED
    BY <2>2 DEF Batch
<1>5. ASSUME NEW i \in part
      PROVE  i \notin InHash /\ \A m \in Lcores : i \notin del[m]
  <2>1. i \in LimboIdx /\ i \in Indices /\ i # None
    BY <1>3, <1>4, ConstantsAssumption
  <2> QED
    BY <1>t, <2>1, PrivateApart DEF Exclusive, InHash, Mapped
<1>6. InHash' = InHash /\ DeadIdx' = DeadIdx \ part
  <2>1. InHash' = InHash
    BY <1>2 DEF InHash, Mapped
  <2>2. \A i \in part : i \notin UNION {del[m] : m \in Lcores}
    BY <1>5
  <2>3. UNION {del'[m] : m \in Lcores} = UNION {del[m] : m \in Lcores}
    BY <1>2
  <2> QED
    BY <1>3, <2>1, <2>2, <2>3 DEF DeadIdx
<1>7. \A i \in part : Phase(i) = "dead"
  BY <1>t, <1>3, <1>4, PhaseIs, DeadIs
<1>8. \A i \in Indices : Phase(i)' = IF i \in part THEN "free" ELSE Phase(i)
  BY <1>5, <1>6 DEF Phase, DeadIdx
<1>9. ASSUME NEW m \in Lcores, NEW i \in part PROVE ~Safe(m, i)
  <2>1. 1 \in 1..Len(limbo) /\ i \in limbo[1].idx
    BY <1>t, <1>2, EmptySeq, LenProperties DEF TypeOK
  <2>2. \A b \in 1..Len(limbo) : i \in limbo[b].idx => b = 1
    BY <1>t, <2>1 DEF BatchesApart
  <2> QED
    BY <1>2, <1>5, <2>2 DEF Safe
<1>10. ASSUME NEW m \in Lcores PROVE Held(m) \cap part = {}
  <2>1. ref[m] \notin part
    BY <1>4, <1>9 DEF HeldAll, RefsSafe
  <2>2. m = Maint => bits \cap part = {}
    BY <1>9 DEF HeldAll, BitsSafe
  <2> QED
    BY <2>1, <2>2 DEF Held
<1>11. [i \in Indices |-> Phase(i)]'
       = [i \in Indices |-> IF i \in part THEN "free" ELSE [j \in Indices |-> Phase(j)][i]]
  BY <1>8
<1>12. [i \in Indices |-> IF Phase(i) = "free" THEN None ELSE entry_key[i]]'
       = [i \in Indices |-> IF i \in part THEN None
            ELSE [j \in Indices |-> IF Phase(j) = "free" THEN None ELSE entry_key[j]][i]]
  BY <1>2, <1>8
<1>13. [m \in Lcores |-> Held(m)]' = [m \in Lcores |-> Held(m)]
  BY <1>2, SameHeld
<1>14. Store!Recycle(part)
  BY <1>4, <1>7, <1>10, <1>11, <1>12, <1>13 DEF Store!Recycle
<1> QED
  BY <1>4, <1>14

\* A deleted entry stays dead when it moves to the limbo.
LEMMA RetireStores ==
  ASSUME HeldAll, NEW l \in Lcores, Retire(l)
  PROVE  UNCHANGED Store!svars
<1>t. TypeOK /\ ControlOK /\ Exclusive /\ BatchesApart /\ PlaceInv
  BY DEF HeldAll, PlaceInv, TypeInv
<1>1. /\ PushLimbo(del[l]) /\ del' = [del EXCEPT ![l] = {}]
      /\ UNCHANGED <<flow_hash, entry_key, ref, bits>>
  BY <1>t, RetireAll DEF Retire, tableVars
<1>2. del[l] \in SUBSET Indices /\ del[l] \cap LimboIdx = {}
  BY <1>t DEF TypeOK, Exclusive, Priv
<1>3. LimboIdx' = LimboIdx \cup del[l]
  BY <1>t, <1>1, <1>2, PushIdx
<1>4. \A m \in Lcores : del'[m] = IF m = l THEN {} ELSE del[m]
  BY <1>t, <1>1 DEF TypeOK
<1>5. DeadIdx' = DeadIdx
  <2>1. \A i : i \in DeadIdx' <=> i \in LimboIdx' \/ \E m \in Lcores : i \in del'[m]
    BY DEF DeadIdx
  <2>2. \A i : i \in DeadIdx' <=> i \in DeadIdx
    BY <1>3, <1>4, <2>1, DeadIs
  <2> QED
    BY <2>2
<1>6. InHash' = InHash
  BY <1>1 DEF InHash, Mapped
<1>7. \A m \in Lcores : Held(m)' = Held(m)
  BY <1>1, SameHeld
<1> QED
  BY <1>1, <1>5, <1>6, <1>7, SameStore

-----------------------------------------------------------------------------
LEMMA InitStores == Init => Store!SInit
<1> SUFFICES ASSUME Init PROVE Store!SInit
  OBVIOUS
<1>1. InHash = {} /\ DeadIdx = {}
  BY EmptySeq DEF Init, InHash, Mapped, DeadIdx, LimboIdx
<1>2. \A i \in Indices : Phase(i) = "free"
  BY <1>1 DEF Phase, DeadIdx
<1>3. \A l \in Lcores : Held(l) = {}
  BY DEF Init, Held
<1> QED
  BY <1>2, <1>3 DEF Store!SInit

LEMMA StepStores == HeldAll /\ [Next]_vars => [Store!SNext]_(Store!svars)
<1> SUFFICES ASSUME HeldAll, [Next]_vars PROVE Store!SNext \/ UNCHANGED Store!svars
  OBVIOUS
<1>t. TypeOK /\ ControlOK /\ Exclusive /\ BatchesApart /\ PlaceInv
  BY DEF HeldAll, PlaceInv, TypeInv
<1> DEFINE Goal == Store!SNext \/ UNCHANGED Store!svars
<1>q. ASSUME UNCHANGED <<flow_hash, limbo, del, entry_key, ref, bits>> PROVE Goal
  BY <1>q, StoreQuiet DEF LimboIdx
<1>r. ASSUME NEW l \in Lcores, \A m \in Lcores \ {l} : Held(m)' = Held(m),
             Held(l)' \subseteq Held(l), UNCHANGED <<flow_hash, limbo, del, entry_key>>
      PROVE  Goal
  <2>1. Held(l) \subseteq Indices
    BY <1>t DEF Held, TypeOK
  <2> QED
    BY <1>t, <1>r, <2>1, ReleaseStep DEF Store!SNext
<1>d. ASSUME NEW m \in Lcores, NEW k \in Keys, NEW i \in Indices, flow_hash[k] = i,
             DeleteMapping(m, k, i), UNCHANGED <<limbo, entry_key, ref, bits>>
      PROVE  Goal
  BY <1>d, DeleteStep DEF Store!SNext
<1>1. CASE UNCHANGED vars
  BY <1>1, <1>q DEF vars, tableVars, freeVars, packetVars, passVars
<1>2. ASSUME NEW m \in Lcores, Register(m) PROVE Goal
  BY <1>2, <1>q DEF Register, tableVars, freeVars, packetVars, passVars
<1>3. ASSUME NEW m \in Lcores, Quiescent(m) \/ Unregister(m) PROVE Goal
  <2>1. /\ Acknowledge(m)
        /\ UNCHANGED <<flow_hash, del, entry_key, ref, bits>>
    BY <1>3 DEF Quiescent, Unregister, Offline, tableVars, packetVars, passVars
  <2> QED
    BY <1>t, <2>1, AckIdx, StoreQuiet
<1>4. ASSUME NEW m \in Lcores, NEW k \in Keys, Lookup(m, k) PROVE Goal
  <2>1. /\ ref' = [ref EXCEPT ![m] = flow_hash[k]] /\ ref[m] = None
        /\ UNCHANGED <<flow_hash, limbo, del, entry_key, bits>>
    BY <1>t, <1>4 DEF Lookup, tableVars, freeVars, passVars, ControlOK, LcoreOK, AtHeld,
                      TypeOK
  <2>2. CASE flow_hash[k] # None
    BY <2>1, <2>2, FindStep DEF Store!SNext
  <2>3. CASE flow_hash[k] = None
    <3>1. ref' = ref
      BY <1>t, <2>1, <2>3 DEF TypeOK
    <3> QED
      BY <2>1, <3>1, <1>q
  <2> QED
    BY <2>2, <2>3
<1>5. ASSUME NEW m \in Lcores, NEW k \in Keys, NEW kread \in Keys, EvictScan(m, k, kread)
      PROVE  Goal
  BY <1>5, <1>q DEF EvictScan, tableVars, freeVars, packetVars
<1>6. ASSUME NEW m \in Lcores, NEW j \in Indices, AgeScan(m, j) PROVE Goal
  <2>1. /\ bits' \subseteq bits
        /\ UNCHANGED <<flow_hash, limbo, del, entry_key, ref>>
    BY <1>6 DEF AgeScan, tableVars, freeVars, packetVars
  <2>2. Held(Maint)' \subseteq Held(Maint)
        /\ \A l \in Lcores \ {Maint} : Held(l)' = Held(l)
    BY <2>1 DEF Held
  <2> QED
    BY <2>1, <2>2, <1>r, ConstantsAssumption
<1>7. ASSUME NEW m \in Lcores, AgeStart(m) \/ ClearStart(m) PROVE Goal
  BY <1>7, <1>q DEF AgeStart, ClearStart, tableVars, freeVars, packetVars, passVars
<1>8. ASSUME NEW m \in Lcores, Step(m) PROVE Goal
  <2>1. CASE Done(m)
    <3>1. /\ UNCHANGED <<flow_hash, limbo, del, entry_key, bits>>
          /\ ref' = [ref EXCEPT ![m] = None]
      BY <2>1 DEF Done, tableVars, freeVars, passVars
    <3>2. Held(m)' \subseteq Held(m) /\ \A l \in Lcores \ {m} : Held(l)' = Held(l)
      BY <1>t, <3>1 DEF Held, TypeOK
    <3> QED
      BY <3>1, <3>2, <1>r
  <2>2. CASE \/ AllocCached(m) \/ AllocRing(m) \/ AllocEmpty(m) \/ EvictStart(m)
             \/ CreateFails(m) \/ Publish(m) \/ EvictSelect(m) \/ ClearScan(m)
             \/ ReclaimEnd(m)
    BY <2>2, <1>q DEF AllocCached, AllocRing, AllocEmpty, EvictStart, CreateFails, Publish,
       EvictSelect, ClearScan, ReclaimEnd, tableVars, freeVars, packetVars, passVars
  <2>3. CASE ReclaimTake(m)
    BY <2>3, TakeStores DEF Store!SNext
  <2>4. CASE Fill(m) \/ GiveBack(m)
    <3>1. /\ own[m] \in Indices
          /\ UNCHANGED <<flow_hash, limbo, del, ref, bits>>
          /\ \A j \in Indices : j # own[m] => entry_key'[j] = entry_key[j]
      BY <1>t, <2>4 DEF Fill, GiveBack, Goto, ControlOK, LcoreOK, AtCreate, TypeOK,
         freeVars, packetVars, passVars
    <3>2. own[m] \notin InHash \cup DeadIdx
      <4>1. own[m] \in Priv(m) /\ own[m] \notin del[m]
        BY <1>t, <3>1, PrivateApart
      <4>2. /\ own[m] \notin LimboIdx /\ \A j \in Keys : flow_hash[j] # own[m]
            /\ \A l \in Lcores \ {m} : own[m] \notin Priv(l)
        BY <1>t, <4>1 DEF Exclusive
      <4>3. \A l \in Lcores : own[m] \notin del[l]
        BY <1>t, <3>1, <4>1, <4>2, PrivateApart
      <4>4. own[m] \notin DeadIdx
        BY <4>2, <4>3, DeadIs
      <4>5. own[m] \notin InHash
        BY <4>2 DEF InHash, Mapped
      <4> QED
        BY <4>4, <4>5
    <3>3. InHash' = InHash /\ DeadIdx' = DeadIdx
      BY <3>1 DEF InHash, Mapped, DeadIdx, LimboIdx
    <3>4. \A l \in Lcores : Held(l)' = Held(l)
      BY <3>1, SameHeld
    <3> QED
      BY <3>1, <3>2, <3>3, <3>4, SameStore
  <2>5. CASE Add(m)
    BY <2>5, AddStores DEF Store!SNext
  <2>6. CASE EvictDelete(m) \/ AgeDelete(m)
    <3>1. PICK c \in cand[m] :
            \/ StillMapped(c) /\ DeleteMapping(m, c[1], c[2])
            \/ KeepMapping
      BY <2>6 DEF EvictDelete, AgeDelete
    <3>2. UNCHANGED <<limbo, entry_key, ref, bits>>
      BY <2>6 DEF EvictDelete, AgeDelete, freeVars, packetVars
    <3>3. CASE KeepMapping
      BY <3>2, <3>3, <1>q DEF KeepMapping
    <3>4. CASE StillMapped(c) /\ DeleteMapping(m, c[1], c[2])
      <4>1. c[1] \in Keys /\ c[2] \in Indices /\ flow_hash[c[1]] = c[2]
        BY <1>t, <3>4 DEF StillMapped, TypeOK
      <4> QED
        BY <3>2, <3>4, <4>1, <1>d
    <3> QED
      BY <3>1, <3>3, <3>4
  <2>7. CASE ClearDelete(m)
    <3>1. PICK c \in cand[m] :
            \/ flow_hash[c[1]] # None /\ DeleteMapping(m, c[1], flow_hash[c[1]])
            \/ KeepMapping
      BY <2>7 DEF ClearDelete
    <3>2. UNCHANGED <<limbo, entry_key, ref, bits>>
      BY <2>7 DEF ClearDelete, freeVars, packetVars
    <3>3. CASE KeepMapping
      BY <3>2, <3>3, <1>q DEF KeepMapping
    <3>4. CASE flow_hash[c[1]] # None /\ DeleteMapping(m, c[1], flow_hash[c[1]])
      <4>1. c[1] \in Keys
        BY <1>t, <2>7 DEF ClearDelete, ControlOK, LcoreOK
      <4>2. PICK i \in Indices : flow_hash[c[1]] = i
        BY <1>t, <3>4, <4>1 DEF TypeOK
      <4>3. DeleteMapping(m, c[1], i)
        BY <3>4, <4>2 DEF DeleteMapping, BitCleared
      <4> QED
        BY <3>2, <4>1, <4>2, <4>3, <1>d
    <3> QED
      BY <3>1, <3>3, <3>4
  <2>8. CASE AgeWatch(m)
    <3>1. /\ UNCHANGED <<flow_hash, limbo, del, entry_key, ref>>
          /\ m = Maint /\ bits = {}
          /\ bits' = bits \/ bits' = flow_used
      BY <1>t, <2>8 DEF AgeWatch, Goto, tableVars, freeVars, packetVars, ControlOK, LcoreOK,
                        AtMaint
    <3>2. CASE bits' = bits
      BY <3>1, <3>2, <1>q
    <3>3. CASE bits' = flow_used
      <4>1. flow_used = {i \in Indices : Phase(i) = "live"}
        BY <1>t, PhaseIs DEF HeldAll, EntriesInv, UsedIsMapped, TypeOK
      <4>2. Held(Maint)' = Held(Maint) \cup flow_used
            /\ \A l \in Lcores \ {Maint} : Held(l)' = Held(l)
        BY <3>1, <3>3 DEF Held
      <4>3. [l \in Lcores |-> Held(l)]' =
              [[l \in Lcores |-> Held(l)] EXCEPT ![Maint] = @ \cup
                 {i \in Indices : [j \in Indices |-> Phase(j)][i] = "live"}]
        BY <4>1, <4>2, ConstantsAssumption
      <4>4. Store!Visit(Maint)
        BY <3>1, <4>3, OnlyHeld DEF Store!Visit
      <4> QED
        BY <4>4, ConstantsAssumption DEF Store!SNext
    <3> QED
      BY <3>1, <3>2, <3>3
  <2>9. CASE AgeScanEnd(m)
    <3>1. bits' = {} /\ UNCHANGED <<flow_hash, limbo, del, entry_key, ref>>
      BY <2>9 DEF AgeScanEnd, tableVars, freeVars, packetVars
    <3>2. Held(Maint)' \subseteq Held(Maint)
          /\ \A l \in Lcores \ {Maint} : Held(l)' = Held(l)
      BY <3>1 DEF Held
    <3> QED
      BY <3>1, <3>2, <1>r, ConstantsAssumption
  <2>10. CASE Retire(m)
    BY <2>10, RetireStores
  <2> QED
    BY <1>8, <2>1, <2>2, <2>3, <2>4, <2>5, <2>6, <2>7, <2>8, <2>9, <2>10 DEF Step
<1> QED
  BY <1>1, <1>2, <1>3, <1>4, <1>5, <1>6, <1>7, <1>8 DEF Next

\* The flow table implements the store of flows its users rely on: at most one
\* live entry per key, and an entry reused only when nobody holds it.
THEOREM StoreImplemented == Spec => ImplementsStore
<1>1. Init => Store!SInit
  BY InitStores
<1>2. HeldAll /\ [Next]_vars => [Store!SNext]_(Store!svars)
  BY StepStores
<1> QED
  BY <1>1, <1>2, HeldInvariant, PTL DEF Spec, ImplementsStore, Store!SSpec
=============================================================================
