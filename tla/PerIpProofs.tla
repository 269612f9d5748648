----------------------------- MODULE PerIpProofs -----------------------------
(***************************************************************************)
(* Proofs about PerIpFeatures, for any keys, slots, lcores and bounds.     *)
(*                                                                         *)
(* The inductive invariant says where each slot is (Places), what a packet *)
(* lcore that uses a slot knows of it (UsedSafe) and what Layer 2 has of   *)
(* the packets counted on it (Windows).                                    *)
(***************************************************************************)
EXTENDS PerIpFeatures, FiniteSetTheorems, TLAPS

\* TypeOK, by the part of the state an action changes.
ListType ==
    /\ protected \subseteq Hosts /\ subnets \subseteq Subnets
    /\ request \in Keys \cup {None}

SlotType ==
    /\ perip_hash \in [Keys -> Slots \cup {None}]
    /\ free_slots \subseteq Slots /\ limbo \subseteq Slots
    /\ waits \in [Slots -> SUBSET Lcores] /\ counters \subseteq Slots

WindowType ==
    /\ rx \in Counts /\ aggregated \in Counts /\ previous \in Counts
    /\ exported \in Counts /\ left_out \subseteq Slots
    /\ \A s \in Slots : previous[s] <= aggregated[s] /\ aggregated[s] <= rx[s]

PacketType ==
    /\ pc \in [Lcores -> {"idle", "subnet", "count"}]
    /\ dst \in [Lcores -> Keys \cup {None}] /\ pif \in [Lcores -> Slots \cup {None}]
    /\ \A l \in Lcores : pif[l] # None <=> pc[l] = "count"

StatsType == stats \in {"snapshot", "export", "reset"}

\* A slot is free, in the limbo, or the slot of one key.
Places ==
    /\ \A k, j \in Keys : perip_hash[k] = perip_hash[j] /\ perip_hash[k] # None => k = j
    /\ \A k \in Keys : perip_hash[k] \notin free_slots \cup limbo
    /\ free_slots \cap limbo = {}
    /\ Slots \subseteq free_slots \cup limbo \cup Registered
    /\ counters = Slots \ free_slots

\* What an lcore uses is still its key's, or waits for it.
UsedSafe ==
    \A l \in Lcores : pc[l] = "count" =>
       /\ dst[l] \in Keys
       /\ \/ perip_hash[dst[l]] = pif[l]
          \/ pif[l] \in limbo /\ l \in waits[pif[l]]

\* Never more is exported of a slot than has gone into its finished windows.
WindowStart(s) == IF stats = "reset" THEN aggregated[s] ELSE previous[s]
ExportBounded ==
    \A s \in Slots : /\ s \in Registered => exported[s] <= WindowStart(s)
                     /\ s \notin Registered => exported[s] = 0

WindowsExact == EveryPacketOnce /\ ExportBounded

IInv == ListType /\ SlotType /\ WindowType /\ PacketType /\ StatsType
        /\ Places /\ UsedSafe /\ WindowsExact

LEMMA TypeParts ==
    TypeOK <=> ListType /\ SlotType /\ WindowType /\ PacketType /\ StatsType
BY DEF TypeOK, ListType, SlotType, WindowType, PacketType, StatsType

LEMMA NoneElsewhere == None \notin Keys /\ None \notin Slots
BY PerIpAssumption

\* A registered slot is a slot, and its key is one.
LEMMA RegisteredSlots ==
    ASSUME SlotType
    PROVE  /\ Registered \subseteq Slots
           /\ \A s \in Registered : \E k \in Keys : perip_hash[k] = s
           /\ \A k \in Keys : perip_hash[k] # None => perip_hash[k] \in Registered
BY DEF SlotType, Registered

-----------------------------------------------------------------------------
(* Slots.                                                                  *)

\* A slot some lcore uses waits for it, and so is not released.
LEMMA UsedNotReady ==
    ASSUME SlotType, UsedSafe, NEW l \in Lcores, pc[l] = "count",
           pif[l] \in limbo, l \in waits[pif[l]]
    PROVE  pif[l] \notin Ready
BY DEF Ready

LEMMA ReclaimKeepsSlots ==
    ASSUME SlotType, Places, UsedSafe, Reclaim,
           UNCHANGED <<perip_hash, waits, packetVars>>
    PROVE  SlotType' /\ Places' /\ UsedSafe' /\ Registered' = Registered
<1>1. Registered' = Registered
  BY DEF Registered
<1>2. SlotType'
  BY DEF SlotType, Reclaim, Ready
<1>3. Places'
  BY <1>1, NoneElsewhere DEF Places, Reclaim, Ready, SlotType
<1>4. UsedSafe'
  BY UsedNotReady DEF UsedSafe, Reclaim, packetVars
<1>5. QED BY <1>1, <1>2, <1>3, <1>4

LEMMA NewSlotKeepsSlots ==
    ASSUME SlotType, Places, UsedSafe, PacketType, UNCHANGED <<waits, packetVars>>,
           NEW k \in Keys, perip_hash[k] = None, NEW s \in free_slots \cup Ready, GetsSlot(k, s)
    PROVE  /\ SlotType' /\ Places' /\ UsedSafe'
           /\ s \notin Registered /\ Registered' = Registered \cup {s}
<1> s \in Slots /\ s # None
  BY NoneElsewhere DEF SlotType, Ready
<1> DEFINE hash == [perip_hash EXCEPT ![k] = s]
<1>0. /\ perip_hash' = hash /\ \A j \in Keys : hash[j] = IF j = k THEN s ELSE perip_hash[j]
      /\ \A j \in Keys : perip_hash[j] # s
  BY DEF GetsSlot, SlotType, Places, Ready
<1>1. s \notin Registered /\ Registered' = Registered \cup {s}
  BY <1>0 DEF Registered
<1>2. SlotType'
  BY DEF SlotType, GetsSlot, Ready
<1>3. Places'
  <2>1. \A i, j \in Keys : perip_hash'[i] = perip_hash'[j] /\ perip_hash'[i] # None => i = j
    BY <1>0 DEF Places
  <2>2. \A j \in Keys : perip_hash'[j] \notin free_slots' \cup limbo'
    BY <1>0 DEF Places, GetsSlot, Ready
  <2>3. free_slots' \cap limbo' = {} /\ Slots \subseteq free_slots' \cup limbo' \cup Registered'
    BY <1>1 DEF Places, GetsSlot, Ready
  <2>4. counters' = Slots \ free_slots'
    BY DEF Places, GetsSlot, Ready, SlotType
  <2>5. QED BY <2>1, <2>2, <2>3, <2>4 DEF Places
<1>4. UsedSafe'
  <2> SUFFICES ASSUME NEW l \in Lcores, pc[l] = "count"
               PROVE  /\ dst[l] \in Keys
                      /\ (perip_hash'[dst[l]] = pif[l] \/ (pif[l] \in limbo' /\ l \in waits[pif[l]]))
    BY DEF UsedSafe, packetVars
  <2>1. dst[l] \in Keys /\ pif[l] # None
    BY DEF UsedSafe, PacketType
  <2>2. CASE perip_hash[dst[l]] = pif[l]
    BY <1>0, <2>1, <2>2
  <2>3. CASE pif[l] \in limbo /\ l \in waits[pif[l]]
    BY <2>1, <2>3, UsedNotReady DEF GetsSlot
  <2>4. QED BY <2>2, <2>3 DEF UsedSafe
<1>5. QED BY <1>1, <1>2, <1>3, <1>4

LEMMA UnregisterKeepsSlots ==
    ASSUME SlotType, Places, UsedSafe, PacketType, UNCHANGED packetVars,
           NEW k \in Keys, perip_hash[k] # None, Unregister(k)
    PROVE  /\ SlotType' /\ Places' /\ UsedSafe'
           /\ perip_hash[k] \in Registered /\ Registered' = Registered \ {perip_hash[k]}
<1> DEFINE s == perip_hash[k]
           freed == {x \in limbo \cup {s} : IF x = s THEN WaitsFor = {} ELSE x \in Ready}
<1>0. /\ s \in Slots /\ s \in Registered /\ s \notin free_slots /\ s \notin limbo
      /\ \A j \in Keys : perip_hash[j] = s => j = k
  BY DEF SlotType, Registered, Places
<1>1. /\ perip_hash' = [perip_hash EXCEPT ![k] = None]
      /\ waits' = [waits EXCEPT ![s] = Lcores]
      /\ limbo' = (limbo \cup {s}) \ freed /\ free_slots' = free_slots \cup freed
      /\ counters' = counters \ freed
  BY DEF Unregister, WaitsFor
<1>2. \A j \in Keys : perip_hash'[j] = IF j = k THEN None ELSE perip_hash[j]
  BY <1>1 DEF SlotType
<1>3. freed \subseteq limbo \cup {s} /\ freed \subseteq Slots
  BY <1>0 DEF SlotType
<1>4. SlotType'
  BY <1>0, <1>1, <1>3 DEF SlotType
<1>5. Registered' = Registered \ {s}
  BY <1>0, <1>2 DEF Registered
<1>6. Places'
  <2>1. \A i, j \in Keys : perip_hash'[i] = perip_hash'[j] /\ perip_hash'[i] # None => i = j
    BY <1>2 DEF Places
  <2>2. \A j \in Keys : perip_hash'[j] \notin free_slots' \cup limbo'
    BY <1>0, <1>1, <1>2, <1>3, NoneElsewhere DEF Places, SlotType
  <2>3. free_slots' \cap limbo' = {}
    BY <1>0, <1>1, <1>3 DEF Places
  <2>4. Slots \subseteq free_slots' \cup limbo' \cup Registered'
    BY <1>1, <1>5 DEF Places
  <2>5. counters' = Slots \ free_slots'
    BY <1>1 DEF Places
  <2>6. QED BY <2>1, <2>2, <2>3, <2>4, <2>5 DEF Places
<1>7. UsedSafe'
  <2> SUFFICES ASSUME NEW l \in Lcores, pc[l] = "count"
               PROVE  /\ dst[l] \in Keys
                      /\ (perip_hash'[dst[l]] = pif[l] \/ (pif[l] \in limbo' /\ l \in waits'[pif[l]]))
    BY DEF UsedSafe, packetVars
  <2>1. dst[l] \in Keys /\ pif[l] \in Slots
    BY DEF UsedSafe, PacketType
  <2>2. CASE pif[l] = s
    <3>1. s \notin freed
      BY DEF WaitsFor
    <3>2. s \in limbo' /\ waits'[s] = Lcores
      BY <1>0, <1>1, <3>1 DEF SlotType
    <3>3. QED BY <2>1, <2>2, <3>2
  <2>3. CASE pif[l] # s /\ perip_hash[dst[l]] = pif[l]
    BY <1>2, <2>1, <2>3
  <2>4. CASE pif[l] # s /\ pif[l] \in limbo /\ l \in waits[pif[l]]
    <3>1. pif[l] \notin freed
      BY <2>4, UsedNotReady
    <3>2. waits'[pif[l]] = waits[pif[l]]
      BY <1>1, <2>1, <2>4 DEF SlotType
    <3>3. QED BY <1>1, <2>1, <2>4, <3>1, <3>2
  <2>5. QED BY <2>2, <2>3, <2>4 DEF UsedSafe
<1>8. QED BY <1>0, <1>4, <1>5, <1>6, <1>7

-----------------------------------------------------------------------------
(* Windows.                                                                *)

LEMMA RegisterSafe ==
    ASSUME IInv, UNCHANGED <<waits, stats, packetVars>>, NEW k \in Keys, Register(k)
    PROVE  SlotType' /\ WindowType' /\ Places' /\ UsedSafe' /\ WindowsExact'
<1> USE DEF IInv
<1>1. CASE Reclaim /\ UNCHANGED <<perip_hash, windowVars>>
  <2>1. SlotType' /\ Places' /\ UsedSafe' /\ Registered' = Registered
    BY <1>1, ReclaimKeepsSlots
  <2>2. WindowType'
    BY <1>1 DEF WindowType, windowVars, Counts
  <2>3. WindowsExact'
    BY <1>1, <2>1 DEF WindowsExact, EveryPacketOnce, ExportBounded, WindowStart, windowVars
  <2>4. QED BY <2>1, <2>2, <2>3
<1>2. CASE perip_hash[k] = None /\ \E s \in free_slots \cup Ready : GetsSlot(k, s)
  <2>1. PICK s \in free_slots \cup Ready : GetsSlot(k, s)
    BY <1>2
  <2>2. /\ SlotType' /\ Places' /\ UsedSafe'
        /\ s \notin Registered /\ Registered' = Registered \cup {s}
    BY <1>2, <2>1, NewSlotKeepsSlots
  <2>3. s \in Slots
    BY <2>1 DEF SlotType, Ready
  <2>4. /\ rx' = [rx EXCEPT ![s] = 0] /\ aggregated' = [aggregated EXCEPT ![s] = 0]
        /\ previous' = [previous EXCEPT ![s] = 0] /\ exported' = exported /\ left_out' = left_out
    BY <2>1 DEF GetsSlot, Cleared
  <2>5. 0 \in 0 .. MaxPackets
    BY PerIpAssumption
  <2>6. WindowType'
    BY <2>3, <2>4, <2>5 DEF WindowType, Counts
  <2>7. exported[s] = 0
    BY <2>2, <2>3 DEF WindowsExact, ExportBounded
  <2>8. /\ \A x \in Slots : x # s => aggregated'[x] = aggregated[x] /\ previous'[x] = previous[x]
        /\ aggregated'[s] = 0 /\ previous'[s] = 0
    BY <2>3, <2>4 DEF WindowType, Counts
  <2>9. EveryPacketOnce'
    BY <2>2, <2>4, <2>7, <2>8, RegisteredSlots DEF WindowsExact, EveryPacketOnce
  <2>10. ExportBounded'
    BY <2>2, <2>4, <2>7, <2>8 DEF WindowsExact, ExportBounded, WindowStart
  <2>11. QED BY <2>2, <2>6, <2>9, <2>10 DEF WindowsExact
<1>3. QED BY <1>1, <1>2 DEF Register

LEMMA BeginRegisterSafe ==
    ASSUME IInv, UNCHANGED <<waits, stats, packetVars>>, NEW k \in Keys, BeginRegister(k)
    PROVE  SlotType' /\ WindowType' /\ Places' /\ UsedSafe' /\ WindowsExact'
           /\ request' \in Keys \cup {None}
<1>1. Register(k)
  BY DEF BeginRegister, Register
<1>2. QED BY <1>1, RegisterSafe DEF BeginRegister

LEMMA UnregisterSafe ==
    ASSUME IInv, NEW k \in Keys, Unregister(k),
           UNCHANGED <<stats, packetVars, rx, aggregated, previous>>
    PROVE  SlotType' /\ WindowType' /\ Places' /\ UsedSafe' /\ WindowsExact'
<1> USE DEF IInv
<1> DEFINE s == perip_hash[k]
<1>1. CASE s = None
  <2>1. UNCHANGED <<slotVars, windowVars>>
    BY <1>1 DEF Unregister, windowVars
  <2>2. SlotType' /\ Places' /\ UsedSafe' /\ Registered' = Registered
    BY <2>1 DEF SlotType, Places, UsedSafe, Registered, slotVars, packetVars
  <2>3. WindowType' /\ WindowsExact'
    BY <2>1, <2>2 DEF WindowType, WindowsExact, EveryPacketOnce, ExportBounded, WindowStart,
                      windowVars, Counts
  <2>4. QED BY <2>2, <2>3
<1>2. CASE s # None
  <2>1. /\ SlotType' /\ Places' /\ UsedSafe'
        /\ s \in Registered /\ Registered' = Registered \ {s}
    BY <1>2, UnregisterKeepsSlots
  <2>2. s \in Slots /\ exported' = [exported EXCEPT ![s] = 0] /\ left_out' = left_out \ {s}
    BY <1>2, <2>1, RegisteredSlots DEF Unregister
  <2>3. /\ \A x \in Slots : exported'[x] = IF x = s THEN 0 ELSE exported[x]
        /\ exported' \in Counts
    BY <2>2, PerIpAssumption DEF WindowType, Counts
  <2>4. WindowType'
    BY <2>2, <2>3 DEF WindowType, Counts
  <2>5. EveryPacketOnce'
    BY <2>1, <2>2, <2>3, RegisteredSlots DEF WindowsExact, EveryPacketOnce
  <2>6. ExportBounded'
    BY <2>1, <2>2, <2>3 DEF WindowsExact, ExportBounded, WindowStart
  <2>7. QED BY <2>1, <2>4, <2>5, <2>6 DEF WindowsExact
<1>3. QED BY <1>1, <1>2

\* The walk: every counter is at least what the last walk saw.
LEMMA AggregateType ==
    ASSUME IInv, Aggregate, UNCHANGED <<rx, previous>>
    PROVE  /\ aggregated' \in Counts
           /\ \A s \in Slots : previous[s] <= aggregated'[s] /\ aggregated'[s] <= rx[s]
           /\ \A s \in Registered : aggregated'[s] = rx[s]
<1> USE DEF IInv
<1>1. \A s \in Slots : rx[s] \in 0 .. MaxPackets /\ aggregated[s] \in 0 .. MaxPackets
                       /\ previous[s] \in 0 .. MaxPackets
  BY DEF WindowType, Counts
<1>2. aggregated' = [s \in Slots |-> IF s \in Registered THEN rx[s] ELSE aggregated[s]]
  BY DEF Aggregate
<1>3. aggregated' \in Counts
  BY <1>1, <1>2 DEF Counts
<1>4. \A s \in Slots : previous[s] <= aggregated[s] /\ aggregated[s] <= rx[s]
  BY DEF WindowType
<1>5. \A s \in Slots : previous[s] <= aggregated'[s] /\ aggregated'[s] <= rx[s]
  BY <1>1, <1>2, <1>4, PerIpAssumption
<1>6. QED BY <1>2, <1>3, <1>5, RegisteredSlots

LEMMA SnapshotSafe ==
    ASSUME IInv, Snapshot
    PROVE  IInv'
<1> USE DEF IInv
<1>1. Registered' = Registered
  BY DEF Registered, Snapshot, slotVars
<1>2. WindowType'
  BY AggregateType DEF WindowType, Snapshot, Counts
<1>3. WindowsExact'
  BY <1>1 DEF WindowsExact, EveryPacketOnce, ExportBounded, WindowStart, Snapshot
<1>4. SlotType' /\ Places' /\ UsedSafe'
  BY <1>1 DEF SlotType, Places, UsedSafe, Snapshot, slotVars, packetVars
<1>5. ListType' /\ PacketType' /\ StatsType'
  BY DEF ListType, PacketType, StatsType, Snapshot, listVars, packetVars
<1>6. QED BY <1>2, <1>3, <1>4, <1>5

LEMMA ExportSafe ==
    ASSUME IInv, Export
    PROVE  IInv'
<1> USE DEF IInv
<1>1. Registered' = Registered
  BY DEF Registered, Export, slotVars
<1>2. /\ stats = "export" /\ stats' = "reset" /\ Aggregate /\ UNCHANGED <<rx, previous>>
      /\ UNCHANGED <<listVars, slotVars, packetVars>>
  BY DEF Export
<1>3. PICK T \in Busiest(ExportMax) :
         /\ exported' = [s \in Slots |-> IF s \in T THEN exported[s] + Window(s) ELSE exported[s]]
         /\ left_out' = left_out \cup (Registered \ T)
  BY DEF Export
<1>4. T \subseteq Registered /\ Registered \subseteq Slots
  BY RegisteredSlots DEF Busiest
<1>5. /\ aggregated' \in Counts
      /\ \A s \in Slots : previous[s] <= aggregated'[s] /\ aggregated'[s] <= rx[s]
      /\ \A s \in Registered : aggregated'[s] = rx[s]
  BY <1>2, AggregateType
<1>6. \A s \in Slots : /\ rx[s] \in 0 .. MaxPackets /\ previous[s] \in 0 .. MaxPackets
                       /\ exported[s] \in 0 .. MaxPackets /\ aggregated'[s] \in 0 .. MaxPackets
  BY <1>5 DEF WindowType, Counts
<1>7. \A s \in Registered : exported[s] <= previous[s]
  BY <1>2, <1>4 DEF WindowsExact, ExportBounded, WindowStart
<1>8. \A s \in Slots : exported'[s] = IF s \in T THEN exported[s] + (aggregated'[s] - previous[s])
                                      ELSE exported[s]
  BY <1>3 DEF Window
<1>9. \A s \in T : exported'[s] \in 0 .. MaxPackets /\ exported'[s] <= aggregated'[s]
  BY <1>4, <1>5, <1>6, <1>7, <1>8, PerIpAssumption
<1>10. exported' \in Counts
  <2>1. \A s \in Slots : exported'[s] \in 0 .. MaxPackets
    BY <1>6, <1>8, <1>9
  <2>2. QED BY <1>3, <2>1 DEF Counts
<1>11. WindowType'
  BY <1>2, <1>3, <1>4, <1>5, <1>10 DEF WindowType, Counts
<1>12. EveryPacketOnce'
  <2> SUFFICES ASSUME NEW s \in Registered, s \notin left_out'
               PROVE  exported'[s] = aggregated'[s]
    BY <1>1, <1>2 DEF EveryPacketOnce
  <2>1. s \in T /\ s \in Slots /\ s \notin left_out
    BY <1>3, <1>4
  <2>2. exported[s] = previous[s]
    BY <1>2, <2>1 DEF WindowsExact, EveryPacketOnce
  <2>3. QED BY <1>6, <1>8, <2>1, <2>2
<1>13. ExportBounded'
  <2> SUFFICES ASSUME NEW s \in Slots
               PROVE  /\ s \in Registered => exported'[s] <= aggregated'[s]
                      /\ s \notin Registered => exported'[s] = 0
    BY <1>1, <1>2 DEF ExportBounded, WindowStart
  <2>1. CASE s \in T
    BY <1>4, <1>9, <2>1
  <2>2. CASE s \in Registered \ T
    BY <1>5, <1>6, <1>7, <1>8, <2>2, PerIpAssumption
  <2>3. CASE s \notin Registered
    BY <1>4, <1>8, <2>3 DEF WindowsExact, ExportBounded
  <2>4. QED BY <2>1, <2>2, <2>3
<1>14. SlotType' /\ Places' /\ UsedSafe'
  BY <1>1, <1>2 DEF SlotType, Places, UsedSafe, slotVars, packetVars
<1>15. ListType' /\ PacketType' /\ StatsType'
  BY <1>2 DEF ListType, PacketType, StatsType, listVars, packetVars
<1>16. QED BY <1>11, <1>12, <1>13, <1>14, <1>15 DEF WindowsExact

\* The next window starts where the last walk was.
LEMMA ResetWindowsType ==
    ASSUME IInv, ResetWindows, UNCHANGED <<rx, aggregated, exported>>,
           Registered' = Registered, left_out' \in SUBSET Slots
    PROVE  /\ WindowType'
           /\ \A s \in Registered : previous'[s] = aggregated[s]
           /\ \A s \in Slots : s \notin Registered => previous'[s] = previous[s]
<1> USE DEF IInv
<1>1. \A s \in Slots : previous'[s] = IF s \in Registered THEN aggregated[s] ELSE previous[s]
  BY DEF ResetWindows, NextWindow
<1>2. previous' \in Counts
  BY <1>1 DEF ResetWindows, NextWindow, WindowType, Counts
<1>3. \A s \in Slots : previous'[s] <= aggregated[s]
  <2> SUFFICES ASSUME NEW s \in Slots
               PROVE  previous'[s] <= aggregated[s]
    OBVIOUS
  <2>1. aggregated[s] \in 0 .. MaxPackets /\ previous[s] <= aggregated[s]
    BY DEF WindowType, Counts
  <2>2. QED BY <1>1, <2>1, PerIpAssumption
<1>4. QED BY <1>1, <1>2, <1>3, RegisteredSlots DEF WindowType, Counts

LEMMA ResetSafe ==
    ASSUME IInv, Reset
    PROVE  IInv'
<1> USE DEF IInv
<1>1. /\ stats = "reset" /\ stats' = "snapshot" /\ ResetWindows /\ Reclaim
      /\ UNCHANGED <<listVars, perip_hash, waits, rx, aggregated, exported, left_out, packetVars>>
  BY DEF Reset
<1>2. SlotType' /\ Places' /\ UsedSafe' /\ Registered' = Registered
  BY <1>1, ReclaimKeepsSlots
<1>3. /\ WindowType'
      /\ \A s \in Registered : previous'[s] = aggregated[s]
  BY <1>1, <1>2, ResetWindowsType DEF WindowType
<1>4. WindowsExact'
  BY <1>1, <1>2, <1>3 DEF WindowsExact, EveryPacketOnce, ExportBounded, WindowStart
<1>5. ListType' /\ PacketType' /\ StatsType'
  BY <1>1 DEF ListType, PacketType, StatsType, listVars, packetVars
<1>6. QED BY <1>2, <1>3, <1>4, <1>5

LEMMA FactoryResetSafe ==
    ASSUME IInv, FactoryReset
    PROVE  IInv'
<1> USE DEF IInv
<1>1. /\ ResetWindows /\ Reclaim
      /\ left_out' = left_out \cup (IF stats = "reset" THEN {} ELSE Registered)
      /\ UNCHANGED <<listVars, perip_hash, waits, rx, aggregated, exported, stats, packetVars>>
  BY DEF FactoryReset
<1>2. SlotType' /\ Places' /\ UsedSafe' /\ Registered' = Registered
  BY <1>1, ReclaimKeepsSlots
<1>3. /\ WindowType'
      /\ \A s \in Registered : previous'[s] = aggregated[s]
  BY <1>1, <1>2, ResetWindowsType, RegisteredSlots DEF WindowType
<1>4. EveryPacketOnce'
  BY <1>1, <1>2 DEF WindowsExact, EveryPacketOnce
<1>5. ExportBounded'
  <2> SUFFICES ASSUME NEW s \in Registered
               PROVE  exported[s] <= WindowStart(s)'
    BY <1>1, <1>2 DEF WindowsExact, ExportBounded
  <2>1. s \in Slots
    BY RegisteredSlots
  <2>2. /\ exported[s] <= WindowStart(s) /\ previous[s] <= aggregated[s]
        /\ exported[s] \in Int /\ previous[s] \in Int /\ aggregated[s] \in Int
    BY <2>1, PerIpAssumption DEF WindowsExact, ExportBounded, WindowType, Counts
  <2>3. QED BY <1>1, <1>3, <2>2 DEF WindowStart
<1>6. ListType' /\ PacketType' /\ StatsType'
  BY <1>1 DEF ListType, PacketType, StatsType, listVars, packetVars
<1>7. QED BY <1>2, <1>3, <1>4, <1>5, <1>6 DEF WindowsExact

-----------------------------------------------------------------------------
(* Packets.                                                                *)

LEMMA PacketParts ==
    ASSUME IInv, UNCHANGED <<listVars, slotVars, stats, aggregated, previous, exported, left_out>>
    PROVE  /\ ListType' /\ SlotType' /\ StatsType' /\ Places' /\ Registered' = Registered
           /\ WindowsExact'
<1> USE DEF IInv
<1>1. Registered' = Registered
  BY DEF Registered, slotVars
<1>2. ListType' /\ SlotType' /\ StatsType' /\ Places'
  BY <1>1 DEF ListType, SlotType, StatsType, Places, listVars, slotVars
<1>3. WindowsExact'
  BY <1>1 DEF WindowsExact, EveryPacketOnce, ExportBounded, WindowStart
<1>4. QED BY <1>1, <1>2, <1>3

LEMMA LookUpSafe ==
    ASSUME IInv, NEW l \in Lcores, NEW d \in Destinations, LookUp(l, d)
    PROVE  IInv'
<1> USE DEF IInv
<1>1. /\ d \in Keys /\ perip_hash[d] \in Slots \cup {None}
      /\ UNCHANGED <<listVars, slotVars, stats, windowVars>>
      /\ dst' = [dst EXCEPT ![l] = d] /\ pif' = [pif EXCEPT ![l] = perip_hash[d]]
      /\ pc' = [pc EXCEPT ![l] = IF perip_hash[d] # None THEN "count" ELSE "subnet"]
  BY PerIpAssumption DEF LookUp, PacketOnly, Uses, Goto, SlotType
<1>2. PacketType'
  BY <1>1 DEF PacketType
<1>3. UsedSafe'
  BY <1>1 DEF UsedSafe, PacketType, slotVars
<1>4. WindowType'
  BY <1>1 DEF WindowType, windowVars, Counts
<1>5. QED BY <1>1, <1>2, <1>3, <1>4, PacketParts DEF windowVars

\* The packet's lcore uses no slot any more.
LEMMA FinishedSafe ==
    ASSUME IInv, NEW l \in Lcores, Finished(l), UNCHANGED slotVars
    PROVE  PacketType' /\ UsedSafe'
<1> USE DEF IInv
<1>1. /\ pc' = [pc EXCEPT ![l] = "idle"] /\ pif' = [pif EXCEPT ![l] = None]
      /\ dst' = [dst EXCEPT ![l] = None]
  BY DEF Finished, Goto, Uses
<1>2. PacketType'
  BY <1>1 DEF PacketType
<1>3. UsedSafe'
  BY <1>1 DEF UsedSafe, PacketType, slotVars
<1>4. QED BY <1>2, <1>3

LEMMA LookUpSubnetSafe ==
    ASSUME IInv, NEW l \in Lcores, LookUpSubnet(l)
    PROVE  IInv'
<1> USE DEF IInv
<1>1. UNCHANGED <<listVars, slotVars, stats, windowVars>>
  BY DEF LookUpSubnet, PacketOnly
<1>2. WindowType'
  BY <1>1 DEF WindowType, windowVars, Counts
<1>3. PacketType' /\ UsedSafe'
  <2>1. ASSUME NEW n \in Longest(dst[l]), perip_hash[Network[n]] # None,
               Uses(l, perip_hash[Network[n]]), Goto(l, "count"),
               dst' = [dst EXCEPT ![l] = Network[n]]
        PROVE  PacketType' /\ UsedSafe'
    <3>1. Network[n] \in Keys
      BY PerIpAssumption DEF Longest, ListType
    <3>2. PacketType'
      BY <2>1, <3>1 DEF Uses, Goto, PacketType, SlotType
    <3>3. UsedSafe'
      BY <1>1, <2>1, <3>1 DEF Uses, Goto, PacketType, UsedSafe, slotVars
    <3>4. QED BY <3>2, <3>3
  <2>2. ASSUME Finished(l) PROVE PacketType' /\ UsedSafe'
    BY <1>1, <2>2, FinishedSafe
  <2>3. QED BY <2>1, <2>2 DEF LookUpSubnet
<1>4. QED BY <1>1, <1>2, <1>3, PacketParts DEF windowVars

LEMMA CountPacketSafe ==
    ASSUME IInv, NEW l \in Lcores, CountPacket(l)
    PROVE  IInv'
<1> USE DEF IInv
<1>1. /\ Finished(l) /\ pif[l] \in Slots
      /\ UNCHANGED <<listVars, slotVars, stats, aggregated, previous, exported, left_out>>
  BY DEF CountPacket, PacketOnly, PacketType
<1>2. CASE UNCHANGED rx
  BY <1>1, <1>2, FinishedSafe, PacketParts DEF WindowType, Counts
<1>3. CASE rx[pif[l]] < MaxPackets /\ rx' = [rx EXCEPT ![pif[l]] = @ + 1]
  <2>1. rx[pif[l]] \in 0 .. MaxPackets
    BY <1>1 DEF WindowType, Counts
  <2>2. rx[pif[l]] + 1 \in 0 .. MaxPackets
    BY <1>3, <2>1, PerIpAssumption
  <2>3. rx' \in Counts
    BY <1>1, <1>3, <2>2 DEF WindowType, Counts
  <2>4. ASSUME NEW s \in Slots PROVE previous[s] <= aggregated[s] /\ aggregated[s] <= rx'[s]
    <3>1. /\ previous[s] <= aggregated[s] /\ aggregated[s] <= rx[s]
          /\ rx[s] \in 0 .. MaxPackets /\ aggregated[s] \in 0 .. MaxPackets
      BY DEF WindowType, Counts
    <3>2. rx'[s] = IF s = pif[l] THEN rx[s] + 1 ELSE rx[s]
      BY <1>1, <1>3 DEF WindowType, Counts
    <3>3. QED BY <3>1, <3>2, PerIpAssumption
  <2>5. WindowType'
    BY <1>1, <2>3, <2>4 DEF WindowType, Counts
  <2>6. QED BY <1>1, <2>5, FinishedSafe, PacketParts
<1>4. QED BY <1>2, <1>3 DEF CountPacket

LEMMA QuiesceSafe ==
    ASSUME IInv, NEW l \in Lcores, Quiesce(l)
    PROVE  IInv'
<1> USE DEF IInv
<1>1. /\ pc[l] = "idle" /\ waits' = [s \in Slots |-> waits[s] \ {l}]
      /\ UNCHANGED <<listVars, perip_hash, free_slots, limbo, counters, windowVars, stats, packetVars>>
  BY DEF Quiesce
<1>2. SlotType' /\ Places' /\ Registered' = Registered
  BY <1>1 DEF SlotType, Places, Registered
<1>3. UsedSafe'
  <2> SUFFICES ASSUME NEW m \in Lcores, pc[m] = "count"
               PROVE  /\ dst[m] \in Keys
                      /\ (perip_hash[dst[m]] = pif[m] \/ (pif[m] \in limbo /\ m \in waits'[pif[m]]))
    BY <1>1 DEF UsedSafe, packetVars
  <2>1. m # l /\ pif[m] \in Slots
    BY <1>1 DEF PacketType
  <2>2. QED BY <1>1, <2>1 DEF UsedSafe
<1>4. ListType' /\ WindowType' /\ PacketType' /\ StatsType'
  BY <1>1 DEF ListType, WindowType, PacketType, StatsType, listVars, windowVars, packetVars, Counts
<1>5. WindowsExact'
  BY <1>1, <1>2 DEF WindowsExact, EveryPacketOnce, ExportBounded, WindowStart, windowVars
<1>6. QED BY <1>2, <1>3, <1>4, <1>5

-----------------------------------------------------------------------------
(* Commands.                                                               *)

\* The part of the state no command changes.
LEMMA CommandParts ==
    ASSUME IInv, UNCHANGED <<stats, packetVars>>
    PROVE  PacketType' /\ StatsType'
BY DEF IInv, PacketType, StatsType, packetVars

LEMMA CommandSafe ==
    ASSUME IInv, Commands
    PROVE  IInv'
<1> USE DEF IInv
<1>1. ASSUME NEW h \in Hosts, ProtectHost(h) PROVE IInv'
  <2>1. h \in Keys
    BY PerIpAssumption
  <2>2. QED BY <1>1, <2>1, BeginRegisterSafe, CommandParts DEF ProtectHost, Command, ListType
<1>2. ASSUME NEW n \in Subnets, ProtectSubnet(n) PROVE IInv'
  <2>1. Network[n] \in Keys
    BY PerIpAssumption
  <2>2. QED BY <1>2, <2>1, BeginRegisterSafe, CommandParts DEF ProtectSubnet, Command, ListType
<1>3. ASSUME NEW h \in Hosts, UnprotectHost(h) PROVE IInv'
  <2>1. h \in Keys
    BY PerIpAssumption
  <2>2. QED BY <1>3, <2>1, UnregisterSafe, CommandParts DEF UnprotectHost, Command, ListType
<1>4. ASSUME NEW n \in Subnets, UnprotectSubnet(n) PROVE IInv'
  <2>1. Network[n] \in Keys
    BY PerIpAssumption
  <2>2. QED BY <1>4, <2>1, UnregisterSafe, CommandParts DEF UnprotectSubnet, Command, ListType
<1>5. ASSUME ClearHosts PROVE IInv'
  <2>1. /\ protected' = {} /\ UNCHANGED <<subnets, request, slotVars, windowVars, stats, packetVars>>
    BY <1>5 DEF ClearHosts, Command
  <2>2. SlotType' /\ Places' /\ UsedSafe' /\ Registered' = Registered
    BY <2>1 DEF SlotType, Places, UsedSafe, Registered, slotVars, packetVars
  <2>3. WindowType' /\ WindowsExact'
    BY <2>1, <2>2 DEF WindowType, WindowsExact, EveryPacketOnce, ExportBounded, WindowStart,
                      windowVars, Counts
  <2>4. ListType'
    BY <2>1 DEF ListType
  <2>5. QED BY <2>1, <2>2, <2>3, <2>4, CommandParts
<1>6. ASSUME WaitEnds PROVE IInv'
  <2>1. request \in Keys
    BY <1>6 DEF WaitEnds, ListType
  <2>2. QED BY <1>6, <2>1, RegisterSafe, CommandParts DEF WaitEnds, ListType
<1>7. QED BY <1>1, <1>2, <1>3, <1>4, <1>5, <1>6, FactoryResetSafe DEF Commands

-----------------------------------------------------------------------------
(* The invariant, and the theorems.                                        *)

LEMMA InitInv == Init => IInv
<1> SUFFICES ASSUME Init PROVE IInv
  OBVIOUS
<1> USE DEF Init
<1>1. Registered = {}
  BY DEF Registered
<1>2. Zero \in Counts /\ \A s \in Slots : Zero[s] = 0
  BY PerIpAssumption DEF Zero, Counts
<1>3. ListType /\ SlotType /\ WindowType /\ PacketType /\ StatsType
  BY <1>2 DEF ListType, SlotType, WindowType, PacketType, StatsType
<1>4. Places /\ UsedSafe
  BY <1>1, NoneElsewhere DEF Places, UsedSafe
<1>5. WindowsExact
  BY <1>1, <1>2 DEF WindowsExact, EveryPacketOnce, ExportBounded
<1>6. QED BY <1>3, <1>4, <1>5 DEF IInv

LEMMA StepInv == IInv /\ [Next]_vars => IInv'
<1> SUFFICES ASSUME IInv, [Next]_vars PROVE IInv'
  OBVIOUS
<1>1. CASE Next
  <2>1. ASSUME NEW l \in Lcores, Packet(l) PROVE IInv'
    BY <2>1, LookUpSafe, LookUpSubnetSafe, CountPacketSafe DEF Packet
  <2>2. QED BY <1>1, <2>1, CommandSafe, SnapshotSafe, ExportSafe, ResetSafe, QuiesceSafe
            DEF Next, Windows
<1>2. CASE UNCHANGED vars
  <2>1. UNCHANGED <<listVars, slotVars, windowVars, stats, packetVars>>
    BY <1>2 DEF vars
  <2>2. WindowType' /\ PacketType' /\ UsedSafe'
    BY <2>1 DEF IInv, WindowType, PacketType, UsedSafe, slotVars, windowVars, packetVars, Counts
  <2>3. QED BY <2>1, <2>2, PacketParts DEF IInv, windowVars
<1>3. QED BY <1>1, <1>2

LEMMA InvariantCorrect == Spec => []IInv
BY InitInv, StepInv, PTL DEF Spec

\* Every variable keeps its type; the difference that makes a window never wraps.
THEOREM TypeCorrect == Spec => []TypeOK
<1>1. IInv => TypeOK
  BY TypeParts DEF IInv
<1>2. QED BY <1>1, InvariantCorrect, PTL

\* A packet is counted on a slot that is its address's or that nobody has got
\* since, and a slot is in one place at a time (per_ip_features.c).
THEOREM OwnSlotCorrect == Spec => []OwnSlot
<1>1. IInv => OwnSlot
  <2> SUFFICES ASSUME IInv PROVE OwnSlot
    OBVIOUS
  <2> USE DEF IInv
  <2>1. ASSUME NEW l \in Lcores, pif[l] # None
        PROVE  \/ perip_hash[dst[l]] = pif[l]
               \/ pif[l] \in limbo /\ l \in waits[pif[l]]
    BY <2>1 DEF UsedSafe, PacketType
  <2>2. ASSUME NEW s \in Slots
        PROVE  LET holders == {k \in Keys : perip_hash[k] = s}
               IN  \/ s \in free_slots /\ s \notin limbo /\ holders = {}
                   \/ s \notin free_slots /\ s \in limbo /\ holders = {}
                   \/ s \notin free_slots /\ s \notin limbo /\ Cardinality(holders) = 1
    <3> DEFINE holders == {k \in Keys : perip_hash[k] = s}
    <3>1. CASE s \in free_slots \/ s \in limbo
      BY <3>1 DEF Places
    <3>2. CASE s \in Registered
      <4>1. PICK k \in Keys : perip_hash[k] = s
        BY <3>2, RegisteredSlots
      <4>2. holders = {k}
        BY <4>1, NoneElsewhere DEF Places
      <4>3. Cardinality(holders) = 1
        BY <4>2, FS_Singleton
      <4>4. QED BY <4>1, <4>3 DEF Places
    <3>3. QED BY <3>1, <3>2 DEF Places
  <2>3. QED BY <2>1, <2>2 DEF OwnSlot, Places
<1>2. QED BY <1>1, InvariantCorrect, PTL

\* Every packet counted for an address is exported in exactly one window
\* (l2_per_ip_features_export_update, per_ip_features_reset_all_windows).
THEOREM EveryPacketOnceCorrect == Spec => []EveryPacketOnce
<1>1. IInv => EveryPacketOnce
  BY DEF IInv, WindowsExact
<1>2. QED BY <1>1, InvariantCorrect, PTL
=============================================================================
