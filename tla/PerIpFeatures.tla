---------------------------- MODULE PerIpFeatures ----------------------------
(***************************************************************************)
(* The feature slots of protected addresses (telemetry/per_ip_features.c): *)
(* the operator's commands register and unregister them (ip_lists.c), the  *)
(* packet lcores count on them without a lock (Stage 3c of layer1.c), and  *)
(* the statistics thread exports a window of each and starts the next one  *)
(* (shared_memory.c), once a second.                                       *)
(*                                                                         *)
(* A section under the control lock is one step; a registration that waits *)
(* for a slot drops it and is several.  Of a slot's counters rx_packets    *)
(* stands for all that Stage 3c updates, of its sketches only the memory   *)
(* of the count-min counters is kept.  The limbo is FlowTable's: here a    *)
(* slot waits for a set of lcores.  Hash positions are left out: there are *)
(* twice as many as slots, and a slot in use or in the limbo holds one.    *)
(***************************************************************************)
EXTENDS Integers, FiniteSets, Sequences

CONSTANTS
    Keys,               \* addresses, and network addresses of subnets
    Hosts,              \* the addresses that may be protected themselves
    Subnets, Network,   \* prefixes, and the network address of each
    Destinations,       \* where packets go
    Covering,           \* the prefixes that hold a destination, longest first
    Slots,
    Lcores,             \* packet lcores: the registered readers
    ExportMax,          \* MAX_PROTECTED_IPS_EXPORT
    MaxPackets,         \* bound: packets counted on a slot
    None

ASSUME PerIpAssumption ==
    /\ Hosts \subseteq Keys /\ Network \in [Subnets -> Keys]
    /\ Destinations \subseteq Keys /\ Covering \in [Destinations -> Seq(Subnets)]
    /\ IsFiniteSet(Slots) /\ ExportMax \in Nat /\ MaxPackets \in Nat
    /\ None \notin Keys \cup Slots

VARIABLES
    protected, subnets,     \* the lists
    request,                \* the key whose registration waits for a slot, or None
    perip_hash,             \* key -> slot
    free_slots, limbo, waits,
    counters,               \* slots whose count-min counters are allocated
    rx, aggregated, previous,       \* packets counted; as of the last walk; of the last reset
    exported, left_out,     \* history: packets exported of the slot's registration;
                            \* slots a window of which was not meant to be exported
    stats,                  \* the statistics thread
    pc, dst, pif            \* a packet on each lcore, and the slot it uses

listVars == <<protected, subnets, request>>
slotVars == <<perip_hash, free_slots, limbo, waits, counters>>
windowVars == <<rx, aggregated, previous, exported, left_out>>
packetVars == <<pc, dst, pif>>
vars == <<listVars, slotVars, windowVars, stats, packetVars>>

Zero == [s \in Slots |-> 0]

Init ==
    /\ protected = {} /\ subnets = {} /\ request = None
    /\ perip_hash = [k \in Keys |-> None]
    /\ free_slots = Slots /\ limbo = {} /\ waits = [s \in Slots |-> {}]
    /\ counters = {}
    /\ rx = Zero /\ aggregated = Zero /\ previous = Zero /\ exported = Zero /\ left_out = {}
    /\ stats = "snapshot"
    /\ pc = [l \in Lcores |-> "idle"] /\ dst = [l \in Lcores |-> None]
    /\ pif = [l \in Lcores |-> None]

Registered == {perip_hash[k] : k \in Keys} \ {None}

-----------------------------------------------------------------------------
(* Release of unregistered slots (perip_reclaim_locked).                   *)

ReadyAtOnce == limbo
Ready == {s \in limbo : waits[s] = {}}

Reclaim ==
    /\ limbo' = limbo \ Ready /\ free_slots' = free_slots \cup Ready
    /\ counters' = counters \ Ready

-----------------------------------------------------------------------------
(* Registration.                                                           *)

\* A new slot is cleared, gets its counters, and is found from then on.
ClearedCountersOnly(s) == rx' = [rx EXCEPT ![s] = 0] /\ UNCHANGED <<aggregated, previous>>
Cleared(s) ==
    /\ rx' = [rx EXCEPT ![s] = 0]
    /\ aggregated' = [aggregated EXCEPT ![s] = 0] /\ previous' = [previous EXCEPT ![s] = 0]

GetsSlot(k, s) ==
    /\ perip_hash' = [perip_hash EXCEPT ![k] = s]
    /\ free_slots' = (free_slots \cup Ready) \ {s} /\ limbo' = limbo \ Ready
    /\ counters' = (counters \ Ready) \cup {s}
    /\ Cleared(s) /\ UNCHANGED <<exported, left_out>>

\* After a reclamation: a free slot is taken, unless the key has one, there is
\* none, its counters cannot be allocated, or the hash refuses the key.
Register(k) ==
    \/ perip_hash[k] = None /\ \E s \in free_slots \cup Ready : GetsSlot(k, s)
    \/ Reclaim /\ UNCHANGED <<perip_hash, windowVars>>

NoneFree == free_slots \cup Ready = {}
MustWait == NoneFree /\ limbo \ Ready # {}

\* per_ip_features_register: with no free slot while unregistered slots wait,
\* it waits too, whatever the key.
BeginRegister(k) ==
    /\ request' = IF MustWait THEN k ELSE None
    /\ IF MustWait THEN Reclaim /\ UNCHANGED <<perip_hash, windowVars>>
       ELSE Register(k)

\* It wakes, reclaims, and sees a free slot, nothing left to wait for, or its
\* deadline.  (Where it sees none of these it sleeps again: no change.)
WaitEnds ==
    /\ request # None
    /\ Register(request) /\ request' = None
    /\ UNCHANGED <<protected, subnets, waits, stats, packetVars>>

\* per_ip_features_unregister: the slot is not found any more, but an lcore
\* may still use it.
WaitsFor == Lcores

Unregister(k) ==
    LET s == perip_hash[k]
        freed == {x \in limbo \cup {s} : IF x = s THEN WaitsFor = {} ELSE x \in Ready}
    IN IF s = None THEN UNCHANGED <<slotVars, exported, left_out>>
       ELSE /\ perip_hash' = [perip_hash EXCEPT ![k] = None]
            /\ waits' = [waits EXCEPT ![s] = WaitsFor]
            /\ limbo' = (limbo \cup {s}) \ freed /\ free_slots' = free_slots \cup freed
            /\ counters' = counters \ freed
            /\ exported' = [exported EXCEPT ![s] = 0] /\ left_out' = left_out \ {s}

-----------------------------------------------------------------------------
(* The operator's commands, one at a time: they hold the lists' writer     *)
(* lock, also while a registration waits.                                  *)

Command == request = None /\ UNCHANGED <<stats, packetVars>>

ProtectHost(h) ==
    /\ Command
    /\ protected' = protected \cup {h}
    /\ BeginRegister(h)
    /\ UNCHANGED <<subnets, waits>>

ProtectSubnet(n) ==
    /\ Command /\ n \notin subnets
    /\ subnets' = subnets \cup {n}
    /\ BeginRegister(Network[n])
    /\ UNCHANGED <<protected, waits>>

UnprotectHost(h) ==
    /\ Command /\ h \in protected
    /\ protected' = protected \ {h}
    /\ Unregister(h)
    /\ UNCHANGED <<subnets, request, rx, aggregated, previous>>

UnprotectSubnet(n) ==
    /\ Command /\ n \in subnets
    /\ subnets' = subnets \ {n}
    /\ Unregister(Network[n])
    /\ UNCHANGED <<protected, request, rx, aggregated, previous>>

\* ip_protected_clear: the addresses keep their slots.
ClearHosts ==
    /\ Command /\ protected # {}
    /\ protected' = {}
    /\ UNCHANGED <<subnets, request, slotVars, windowVars>>

-----------------------------------------------------------------------------
(* A packet: Stage 3c of the pipeline.                                     *)

Goto(l, label) == pc' = [pc EXCEPT ![l] = label]
Uses(l, s) == pif' = [pif EXCEPT ![l] = s]
PacketOnly == UNCHANGED <<listVars, slotVars, stats>>

Finished(l) == Goto(l, "idle") /\ Uses(l, None) /\ dst' = [dst EXCEPT ![l] = None]

\* per_ip_features_lookup_track: the destination's own slot ...
LookUp(l, d) ==
    /\ pc[l] = "idle"
    /\ dst' = [dst EXCEPT ![l] = d]
    /\ Uses(l, perip_hash[d])
    /\ Goto(l, IF perip_hash[d] # None THEN "count" ELSE "subnet")
    /\ PacketOnly /\ UNCHANGED windowVars

\* ... or that of the longest prefix around it.
Longest(d) ==
    LET at == {i \in DOMAIN Covering[d] : Covering[d][i] \in subnets}
    IN {Covering[d][i] : i \in {j \in at : \A m \in at : j <= m}}

LookUpSubnet(l) ==
    /\ pc[l] = "subnet"
    /\ LET tracked == {n \in Longest(dst[l]) : perip_hash[Network[n]] # None}
       IN  \/ \E n \in tracked :
                /\ Uses(l, perip_hash[Network[n]]) /\ Goto(l, "count")
                /\ dst' = [dst EXCEPT ![l] = Network[n]]
           \/ tracked = {} /\ Finished(l)
    /\ PacketOnly /\ UNCHANGED windowVars

\* The packet is counted, unless the profile is going to drop it, and one in
\* eight is added to the sketches of the slot.
CountPacket(l) ==
    /\ pc[l] = "count"
    /\ Finished(l)
    /\ \/ rx[pif[l]] < MaxPackets /\ rx' = [rx EXCEPT ![pif[l]] = @ + 1]
       \/ UNCHANGED rx
    /\ PacketOnly /\ UNCHANGED <<aggregated, previous, exported, left_out>>

\* The lcore reports a quiescent state between two bursts.
Quiesce(l) ==
    /\ pc[l] = "idle" /\ \E s \in limbo : l \in waits[s]
    /\ waits' = [s \in Slots |-> waits[s] \ {l}]
    /\ UNCHANGED <<listVars, perip_hash, free_slots, limbo, counters, windowVars, stats,
                   packetVars>>

-----------------------------------------------------------------------------
(* Windows.                                                                *)

\* per_ip_features_snapshot_all: the slots exported, all or the busiest, and
\* the sums of all it looked at.
Volume(s) == rx[s] - previous[s]
Busiest(max) ==
    {T \in SUBSET Registered :
        /\ Cardinality(T) = IF Cardinality(Registered) < max THEN Cardinality(Registered) ELSE max
        /\ \A s \in T, x \in Registered \ T : Volume(s) >= Volume(x)}

\* What Layer 2 gets of a slot: the packets since the window's start.
Window(s) == aggregated'[s] - previous[s]

Aggregate == aggregated' = [s \in Slots |-> IF s \in Registered THEN rx[s] ELSE aggregated[s]]

\* l2_features_export_update looks at the slots first ...
Snapshot ==
    /\ stats = "snapshot" /\ stats' = "export"
    /\ Aggregate
    /\ UNCHANGED <<listVars, slotVars, rx, previous, exported, left_out, packetVars>>

\* ... then l2_per_ip_features_export_update exports them, and drops the lock.
Export ==
    /\ stats = "export" /\ stats' = "reset"
    /\ Aggregate
    /\ \E T \in Busiest(ExportMax) :
          /\ exported' = [s \in Slots |-> IF s \in T THEN exported[s] + Window(s) ELSE exported[s]]
          /\ left_out' = left_out \cup (Registered \ T)
    /\ UNCHANGED <<listVars, slotVars, rx, previous, packetVars>>

\* per_ip_features_reset_all_windows: what was looked at last is the start of
\* the next window, and unregistered slots are released.
NextWindowLive(s) == rx[s]
NextWindow(s) == aggregated[s]
ResetWindows ==
    previous' = [s \in Slots |-> IF s \in Registered THEN NextWindow(s) ELSE previous[s]]

ResetKeepsSlots ==
    /\ stats = "reset" /\ stats' = "snapshot"
    /\ ResetWindows /\ UNCHANGED <<limbo, free_slots, counters>>
    /\ UNCHANGED <<listVars, perip_hash, waits, rx, aggregated, exported, left_out, packetVars>>

Reset ==
    /\ stats = "reset" /\ stats' = "snapshot"
    /\ ResetWindows /\ Reclaim
    /\ UNCHANGED <<listVars, perip_hash, waits, rx, aggregated, exported, left_out, packetVars>>

\* The factory reset (layer1.c) starts a window of its own, from a command.
FactoryReset ==
    /\ request = None
    /\ ResetWindows /\ Reclaim
    /\ left_out' = left_out \cup (IF stats = "reset" THEN {} ELSE Registered)
    /\ UNCHANGED <<listVars, perip_hash, waits, rx, aggregated, exported, stats, packetVars>>

-----------------------------------------------------------------------------
Commands ==
    \/ \E h \in Hosts : ProtectHost(h) \/ UnprotectHost(h)
    \/ \E n \in Subnets : ProtectSubnet(n) \/ UnprotectSubnet(n)
    \/ ClearHosts \/ WaitEnds \/ FactoryReset

Packet(l) ==
    \/ \E d \in Destinations : LookUp(l, d)
    \/ LookUpSubnet(l) \/ CountPacket(l)

Windows == Snapshot \/ Export \/ Reset

Next == Commands \/ Windows \/ \E l \in Lcores : Packet(l) \/ Quiesce(l)

Spec == Init /\ [][Next]_vars

\* The statistics thread runs every second; a packet is finished, and a packet
\* loop reports a quiescent state on every poll, whatever else it does between.
FairSpec ==
    /\ Spec /\ WF_vars(Windows)
    /\ \A l \in Lcores : WF_vars(LookUpSubnet(l) \/ CountPacket(l)) /\ SF_vars(Quiesce(l))

-----------------------------------------------------------------------------
(* Properties.                                                             *)

Counts == [Slots -> 0 .. MaxPackets]

\* Every variable has its type, and the difference of two counters that a
\* window is made of (unsigned in the code) never wraps.
TypeOK ==
    /\ protected \subseteq Hosts /\ subnets \subseteq Subnets
    /\ request \in Keys \cup {None}
    /\ perip_hash \in [Keys -> Slots \cup {None}]
    /\ free_slots \subseteq Slots /\ limbo \subseteq Slots
    /\ waits \in [Slots -> SUBSET Lcores] /\ counters \subseteq Slots
    /\ rx \in Counts /\ aggregated \in Counts /\ previous \in Counts
    /\ exported \in Counts /\ left_out \subseteq Slots
    /\ stats \in {"snapshot", "export", "reset"}
    /\ pc \in [Lcores -> {"idle", "subnet", "count"}]
    /\ dst \in [Lcores -> Keys \cup {None}] /\ pif \in [Lcores -> Slots \cup {None}]
    /\ \A l \in Lcores : pif[l] # None <=> pc[l] = "count"
    /\ \A s \in Slots : previous[s] <= aggregated[s] /\ aggregated[s] <= rx[s]

\* "Released only after every registered flow table reader has reported a
\* quiescent state since the unregistration" (per_ip_features.h): a packet is
\* counted on the slot of the address it was looked up for, or on one nobody
\* has got since, and the count-min counters it uses are there.  "A slot is in
\* one place at a time", and its counters are allocated unless it is free.
OwnSlot ==
    /\ \A l \in Lcores : pif[l] # None =>
          \/ perip_hash[dst[l]] = pif[l]
          \/ pif[l] \in limbo /\ l \in waits[pif[l]]
    /\ \A s \in Slots :
          LET holders == {k \in Keys : perip_hash[k] = s}
          IN  \/ s \in free_slots /\ s \notin limbo /\ holders = {}
              \/ s \notin free_slots /\ s \in limbo /\ holders = {}
              \/ s \notin free_slots /\ s \notin limbo /\ Cardinality(holders) = 1
    /\ counters = Slots \ free_slots

\* Layer 2 gets every packet that was counted for an address in exactly one
\* window ("the next export cycle will have fresh delta values",
\* l2_per_ip_features_export_update), though packets are counted between the
\* export and the reset, which are two sections under the lock: except for
\* slots left out as not among the busiest, or by the factory reset, the next
\* window starts where the exported ones end.
EveryPacketOnce ==
    \A s \in Registered \ left_out :
       exported[s] = IF stats = "reset" THEN aggregated[s] ELSE previous[s]

\* "Unregistered slots whose grace period is over are released here too (once
\* a window), not only by the next registration or unregistration"
\* (per_ip_features_reset_all_windows).
SlotsReturn == \A s \in Slots : (s \in limbo) ~> (s \notin limbo)

\* "A protected subnet causes ALL traffic to any address inside it to be
\* aggregated into a SINGLE per-IP feature slot keyed by the subnet's network
\* address" (ip_lists.h): what has a slot keeps it while it stays protected, as
\* an address of its own or as a subnet.
ToTrack == protected \cup {Network[n] : n \in subnets}
TrackedWhileProtected ==
    [][\A k \in ToTrack \cap ToTrack' : perip_hash[k] # None => perip_hash'[k] # None]_vars
=============================================================================
