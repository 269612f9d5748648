------------------------------ MODULE FlowTable ------------------------------
(***************************************************************************)
(* The life cycle of the entries of the IPv4 flow table                     *)
(* (layer1/tables/flow_table.c): creates, lookups, aging, emergency         *)
(* eviction and clear, run by several lcores over one hash, one ring of     *)
(* free entry indices with per-lcore caches, and one limbo of deleted       *)
(* entries that wait for the readers' grace period.                         *)
(*                                                                          *)
(* A step is a region the code executes under one lock (the hash writer     *)
(* lock, the limbo lock) or one access to shared state outside the locks;   *)
(* everything between two such steps may interleave with other lcores.      *)
(*                                                                          *)
(* Grace periods: DPDK's QSBR token of a batch and the counters of the      *)
(* readers are represented by the set of readers whose counter is below     *)
(* the token (the field wait of a batch, and probe and owing of the         *)
(* stalled-reader check).  Starting a grace period puts every online reader *)
(* in the set, a quiescent report or going offline takes the reader out of  *)
(* all of them, and the check passes when the set is empty.                 *)
(*                                                                          *)
(* Time is abstract: whether a flow is expired, an eviction attempt is due  *)
(* (100 ms) or the probe is old (2 s) is a choice of the step that asks.    *)
(***************************************************************************)
EXTENDS Integers, FiniteSets, Sequences

CONSTANTS
  Keys,                 \* flow keys (canonical 5-tuples)
  Indices,              \* positions in flow_entries: max_flows of them
  Lcores,               \* packet-processing lcores; each is a flow reader
  Maint,                \* the lcore that runs layer1_maintenance
  CacheRefill,          \* cache_refill_batch
  FLOW_LIMBO_BATCHES,   \* batches a limbo keeps apart
  FLOW_EVICT_BATCH,     \* entries one emergency eviction asks for
  RECLAIM_CREATE_MAX,   \* indices a create takes back from the limbo
  RECLAIM_AGING_MAX,    \* indices an aging or clear call takes back at once
  None                  \* no key, no entry

ASSUME ConstantsAssumption ==
  /\ IsFiniteSet(Indices)
  /\ Maint \in Lcores
  /\ None \notin Keys /\ None \notin Indices
  /\ {CacheRefill, FLOW_LIMBO_BATCHES, FLOW_EVICT_BATCH,
      RECLAIM_CREATE_MAX, RECLAIM_AGING_MAX} \subseteq Nat \ {0}

VARIABLES
  flow_hash,      \* key -> entry index, or None
  flow_used,      \* occupancy bitmap: the entries in the hash
  entry_key,      \* the key field of each entry
  initializing,   \* entries whose state is FLOW_STATE_INITIALIZING
  free_ring,      \* free_index_ring
  free_cache,     \* lcore_free_caches
  limbo,          \* sequence of batches [idx, wait], oldest first
  readers,        \* readers registered and online
  probe,          \* readers that have not reported since the current probe
  marked,         \* readers with miss_token # 0 (the stalled ones)
  owing,          \* marked readers not yet past the probe they missed
  pc,             \* where each lcore is
  key,            \* the key of the packet it processes
  own,            \* the index a create took and has not added yet
  ref,            \* the flow pointer it holds
  cand,           \* candidates of a delete pass: <<key, index>> pairs
  bits,           \* the bitmap word aging is going through (lcore Maint)
  del,            \* indices this delete pass removed from the hash (freed[])
  got,            \* indices taken out of the limbo, not yet in the ring
  retried         \* the create has evicted and allocates for the second time

tableVars  == <<flow_hash, flow_used, entry_key, initializing>>
freeVars   == <<free_ring, free_cache, limbo>>
readerVars == <<readers, probe, marked, owing>>
packetVars == <<key, own, ref, retried>>
passVars   == <<cand, bits, del, got>>
vars == <<tableVars, freeVars, readerVars, packetVars, passVars, pc>>

PCs == {"off", "idle", "alloc", "reclaim", "realloc", "full", "fill", "add",
        "giveback", "publish", "use", "ev_scan", "ev_del", "age_reclaim",
        "age_watch", "age_scan", "age_del", "clear_scan", "clear_del",
        "clear_reclaim"}

Batch == [idx : SUBSET Indices, wait : SUBSET Lcores]

LimboIdx == UNION {limbo[b].idx : b \in 1..Len(limbo)}
LimboCount == Cardinality(LimboIdx)
Mapped == {k \in Keys : flow_hash[k] # None}
InHash == {flow_hash[k] : k \in Mapped}

Init ==
  /\ flow_hash = [k \in Keys |-> None]
  /\ flow_used = {}
  /\ entry_key = [i \in Indices |-> None]
  /\ initializing = {}
  /\ free_ring = Indices
  /\ free_cache = [l \in Lcores |-> {}]
  /\ limbo = <<>>
  /\ readers = {} /\ probe = {} /\ marked = {} /\ owing = {}
  /\ pc = [l \in Lcores |-> "off"]
  /\ key = [l \in Lcores |-> None]
  /\ own = [l \in Lcores |-> None]
  /\ ref = [l \in Lcores |-> None]
  /\ retried = [l \in Lcores |-> FALSE]
  /\ cand = [l \in Lcores |-> {}]
  /\ bits = {}
  /\ del = [l \in Lcores |-> {}]
  /\ got = [l \in Lcores |-> {}]

Goto(l, from, to) == pc[l] = from /\ pc' = [pc EXCEPT ![l] = to]

-----------------------------------------------------------------------------
(* Readers: a packet loop registers when it starts, reports a quiescent      *)
(* state on every poll, and unregisters before it exits.                     *)

Register(l) ==
  /\ Goto(l, "off", "idle")
  /\ readers' = readers \cup {l}
  /\ UNCHANGED <<tableVars, freeVars, probe, marked, owing, packetVars, passVars>>

\* The reader's counter takes the current token: no grace period that has
\* begun waits for it any more.
Acknowledge(l) ==
  /\ limbo' = [b \in 1..Len(limbo) |->
                [idx |-> limbo[b].idx, wait |-> limbo[b].wait \ {l}]]
  /\ probe' = probe \ {l}
  /\ owing' = owing \ {l}

Quiescent(l) ==
  /\ pc[l] = "idle"
  /\ Acknowledge(l)
  /\ UNCHANGED <<tableVars, free_ring, free_cache, readers, marked,
                 packetVars, passVars, pc>>

StaysOnline(l) == UNCHANGED <<limbo, probe, owing>>

\* A reader that goes offline is not waited for either.
Offline(l) == Acknowledge(l)

Unregister(l) ==
  /\ Goto(l, "idle", "off")
  /\ readers' = readers \ {l}
  /\ Offline(l)
  /\ marked' = marked \ {l}
  /\ UNCHANGED <<tableVars, free_ring, free_cache, packetVars, passVars>>

-----------------------------------------------------------------------------
(* Looking a flow up and creating it.                                        *)

\* The lookup of a packet's key: a hit returns the entry, a miss goes on to
\* create the flow.
Lookup(l, k) ==
  /\ pc[l] = "idle"
  /\ key' = [key EXCEPT ![l] = k]
  /\ ref' = [ref EXCEPT ![l] = flow_hash[k]]
  /\ pc' = [pc EXCEPT ![l] = IF flow_hash[k] # None THEN "use" ELSE "alloc"]
  /\ UNCHANGED <<tableVars, freeVars, readerVars, own, retried, passVars>>

\* The packet is done with: its flow pointer goes out of scope.
Done(l) ==
  /\ Goto(l, "use", "idle")
  /\ key' = [key EXCEPT ![l] = None]
  /\ ref' = [ref EXCEPT ![l] = None]
  /\ retried' = [retried EXCEPT ![l] = FALSE]
  /\ UNCHANGED <<tableVars, freeVars, readerVars, own, passVars>>

\* Allocation: the lcore's own cache first.
AllocCached(l) ==
  /\ Goto(l, "alloc", "fill")
  /\ \E i \in free_cache[l] :
       /\ own' = [own EXCEPT ![l] = i]
       /\ free_cache' = [free_cache EXCEPT ![l] = @ \ {i}]
  /\ UNCHANGED <<tableVars, free_ring, limbo, readerVars, key, ref, retried, passVars>>

\* Then a burst from the ring: one index is used, the others are cached.
AllocRing(l) ==
  /\ pc[l] \in {"alloc", "realloc"}
  /\ free_cache[l] = {}
  /\ \E burst \in SUBSET free_ring : \E i \in burst :
       /\ Cardinality(burst) <= CacheRefill
       /\ Cardinality(burst) = CacheRefill \/ burst = free_ring
       /\ own' = [own EXCEPT ![l] = i]
       /\ free_cache' = [free_cache EXCEPT ![l] = burst \ {i}]
       /\ free_ring' = free_ring \ burst
  /\ pc' = [pc EXCEPT ![l] = "fill"]
  /\ UNCHANGED <<tableVars, limbo, readerVars, key, ref, retried, passVars>>

\* An empty ring first takes back deleted entries, and is tried once more.
AllocEmpty(l) ==
  /\ pc[l] \in {"alloc", "realloc"}
  /\ free_cache[l] = {} /\ free_ring = {}
  /\ pc' = [pc EXCEPT ![l] = IF pc[l] = "alloc" THEN "reclaim" ELSE "full"]
  /\ UNCHANGED <<tableVars, freeVars, readerVars, packetVars, passVars>>

ReclaimMax(l) ==
  IF pc[l] = "reclaim" THEN RECLAIM_CREATE_MAX ELSE RECLAIM_AGING_MAX

MayTakeUnchecked(l) ==
  /\ Cardinality(got[l]) < ReclaimMax(l)
  /\ limbo # <<>>

\* flow_limbo_take stops at the maximum, at the end of the limbo, or at the
\* first batch some reader may still hold.
MayTake(l) ==
  /\ Cardinality(got[l]) < ReclaimMax(l)
  /\ limbo # <<>>
  /\ limbo[1].wait = {}

\* One batch, or as much of it as the maximum leaves.
ReclaimTake(l) ==
  /\ pc[l] \in {"reclaim", "age_reclaim", "clear_reclaim"}
  /\ MayTake(l)
  /\ \E part \in SUBSET limbo[1].idx :
       /\ part = limbo[1].idx \/ Cardinality(part) = ReclaimMax(l) - Cardinality(got[l])
       /\ Cardinality(part) <= ReclaimMax(l) - Cardinality(got[l])
       /\ got' = [got EXCEPT ![l] = @ \cup part]
       /\ limbo' = IF part = limbo[1].idx THEN Tail(limbo)
                   ELSE [limbo EXCEPT ![1] = [idx |-> @.idx \ part, wait |-> @.wait]]
  /\ UNCHANGED <<tableVars, free_ring, free_cache, readerVars, packetVars,
                 cand, bits, del, pc>>

\* The indices taken go to the ring.  A create that took none back has found
\* the table full; clear goes on until a call takes nothing.
ReclaimEnd(l) ==
  /\ \/ Goto(l, "reclaim", IF got[l] = {} THEN "full" ELSE "realloc")
     \/ Goto(l, "age_reclaim", "age_watch")
     \/ Goto(l, "clear_reclaim", IF got[l] = {} THEN "idle" ELSE "clear_reclaim")
  /\ ~MayTake(l)
  /\ free_ring' = free_ring \cup got[l]
  /\ got' = [got EXCEPT ![l] = {}]
  /\ UNCHANGED <<tableVars, free_cache, limbo, readerVars, packetVars, cand, bits, del>>

\* No index: evict, unless an eviction's worth of deleted entries already
\* waits, a reader is stalled, or another attempt was made in the last 100 ms
\* (this create's own, when it is retrying).
EvictStart(l) ==
  /\ Goto(l, "full", "ev_scan")
  /\ ~retried[l]
  /\ LimboCount < FLOW_EVICT_BATCH
  /\ marked = {}
  /\ UNCHANGED <<tableVars, freeVars, readerVars, packetVars, passVars>>

CreateFails(l) ==
  /\ Goto(l, "full", "idle")
  /\ key' = [key EXCEPT ![l] = None]
  /\ retried' = [retried EXCEPT ![l] = FALSE]
  /\ UNCHANGED <<tableVars, freeVars, readerVars, own, ref, passVars>>

\* The entry is cleared, marked as being initialized and filled in.
Fill(l) ==
  /\ Goto(l, "fill", "add")
  /\ entry_key' = [entry_key EXCEPT ![own[l]] = key[l]]
  /\ initializing' = initializing \cup {own[l]}
  /\ UNCHANGED <<flow_hash, flow_used, freeVars, readerVars, packetVars, passVars>>

\* The second lookup, under the writer lock.
StillAbsentUnchecked(l) == TRUE
StillAbsent(l) == flow_hash[key[l]] = None

\* Under the writer lock: look the key up again, add it if it is still
\* absent.  (rte_hash_add does not fail: extendable buckets, one key slot
\* per entry index.)
Add(l) ==
  /\ pc[l] = "add"
  /\ IF StillAbsent(l)
     THEN /\ flow_hash' = [flow_hash EXCEPT ![key[l]] = own[l]]
          /\ flow_used' = flow_used \cup {own[l]}
          /\ ref' = [ref EXCEPT ![l] = own[l]]
          /\ own' = [own EXCEPT ![l] = None]
          /\ pc' = [pc EXCEPT ![l] = "publish"]
     ELSE /\ ref' = [ref EXCEPT ![l] = flow_hash[key[l]]]
          /\ pc' = [pc EXCEPT ![l] = "giveback"]
          /\ UNCHANGED <<flow_hash, flow_used, own>>
  /\ UNCHANGED <<entry_key, initializing, freeVars, readerVars, key, retried, passVars>>

\* Another lcore added the key first: the entry taken goes back to the ring
\* and the existing flow is used (after a bounded wait for its creator, which
\* may give up: no later step depends on it).
GiveBack(l) ==
  /\ Goto(l, "giveback", "use")
  /\ entry_key' = [entry_key EXCEPT ![own[l]] = None]
  /\ initializing' = initializing \ {own[l]}
  /\ free_ring' = free_ring \cup {own[l]}
  /\ own' = [own EXCEPT ![l] = None]
  /\ UNCHANGED <<flow_hash, flow_used, free_cache, limbo, readerVars, key, ref,
                 retried, passVars>>

\* The new flow becomes usable: FLOW_STATE_NEW, stored outside the lock.
Publish(l) ==
  /\ Goto(l, "publish", "use")
  /\ initializing' = initializing \ {ref[l]}
  /\ UNCHANGED <<flow_hash, flow_used, entry_key, freeVars, readerVars,
                 packetVars, passVars>>

-----------------------------------------------------------------------------
(* Deleting flows.  Every delete pass collects candidates without the lock,  *)
(* deletes each of them under the writer lock after a recheck, and hands     *)
(* what it deleted to the limbo at its end.                                  *)

BitKept(i) == flow_used
BitCleared(i) == flow_used \ {i}

\* Remove the mapping of k to i, with its bit in the bitmap.
DeleteMapping(l, k, i) ==
  /\ flow_hash' = [flow_hash EXCEPT ![k] = None]
  /\ flow_used' = BitCleared(i)
  /\ del' = [del EXCEPT ![l] = @ \cup {i}]

\* The recheck of a candidate under the writer lock.
KeyStillMapped(c) == c[1] # None /\ flow_hash[c[1]] # None
StillMapped(c) == c[1] # None /\ flow_hash[c[1]] = c[2]

KeepMapping == UNCHANGED <<flow_hash, flow_used, del, initializing>>

\* One position of the hash.  The key is copied from its key slot after the
\* iterator returned, and may by then be another flow's.
EvictScan(l, k, kread) ==
  /\ pc[l] = "ev_scan"
  /\ flow_hash[k] # None /\ flow_hash[k] \notin initializing
  /\ cand' = [cand EXCEPT ![l] = @ \cup {<<kread, flow_hash[k]>>}]
  /\ UNCHANGED <<tableVars, freeVars, readerVars, packetVars, bits, del, got, pc>>

\* The batch with the lowest priorities (any choice of that many).
EvictSelect(l) ==
  /\ Goto(l, "ev_scan", "ev_del")
  /\ \E batch \in SUBSET cand[l] :
       /\ Cardinality(batch) <= FLOW_EVICT_BATCH
       /\ Cardinality(batch) = FLOW_EVICT_BATCH \/ batch = cand[l]
       /\ cand' = [cand EXCEPT ![l] = batch]
  /\ UNCHANGED <<tableVars, freeVars, readerVars, packetVars, bits, del, got>>

\* Under the writer lock: the key still maps to the entry scanned, and its
\* state, neither INITIALIZING nor protected, is claimed by compare-and-swap.
\* A protected flow, or one whose state moved, is kept.
EvictDelete(l) ==
  /\ pc[l] = "ev_del"
  /\ \E c \in cand[l] :
       /\ cand' = [cand EXCEPT ![l] = @ \ {c}]
       /\ \/ /\ StillMapped(c)
             /\ c[2] \notin initializing
             /\ initializing' = initializing \cup {c[2]}
             /\ DeleteMapping(l, c[1], c[2])
          \/ KeepMapping
  /\ UNCHANGED <<entry_key, freeVars, readerVars, packetVars, bits, got, pc>>

\* An aging pass starts by taking back what has passed its grace period.
AgeStart(l) ==
  /\ l = Maint
  /\ Goto(l, "idle", "age_reclaim")
  /\ UNCHANGED <<tableVars, freeVars, readerVars, packetVars, passVars>>

WatchKeepsMarks(l, old) ==
  /\ marked' = marked \cup (IF old THEN probe \ {l} ELSE {})
  /\ owing' = owing \cup (marked' \ marked)
  /\ probe' = IF old \/ probe = {} THEN readers ELSE probe

\* flow_readers_watch: a mark ends once its reader has reported past the probe
\* it missed; readers that have not reported since an old probe are marked
\* (never the calling lcore); a probe that is old, or that all have passed, is
\* replaced.
Watch(l, old) ==
  /\ marked' = (marked \cap owing) \cup (IF old THEN probe \ (marked \cup {l}) ELSE {})
  /\ owing' = marked'
  /\ probe' = IF old \/ probe = {} THEN readers ELSE probe

\* While a reader is stalled the pass deletes nothing.  Otherwise it reads the
\* occupancy bitmap, without the lock.
AgeWatch(l) ==
  /\ pc[l] = "age_watch"
  /\ \E old \in BOOLEAN : Watch(l, old)
  /\ IF marked' # {}
     THEN pc' = [pc EXCEPT ![l] = "idle"] /\ bits' = bits
     ELSE pc' = [pc EXCEPT ![l] = "age_scan"] /\ bits' = flow_used
  /\ UNCHANGED <<tableVars, freeVars, readers, packetVars, cand, del, got>>

\* One entry of the bitmap word: its key is copied if it is expired.
AgeScan(l, i) ==
  /\ pc[l] = "age_scan"
  /\ i \in bits
  /\ bits' = bits \ {i}
  /\ cand' \in {cand, [cand EXCEPT ![l] = @ \cup {<<entry_key[i], i>>}]}
  /\ UNCHANGED <<tableVars, freeVars, readerVars, packetVars, del, got, pc>>

\* The scan limit, a full batch or the end of the bitmap.
AgeScanEnd(l) ==
  /\ Goto(l, "age_scan", "age_del")
  /\ bits' = {}
  /\ UNCHANGED <<tableVars, freeVars, readerVars, packetVars, cand, del, got>>

\* Under the writer lock: delete the flow if its key still maps to the entry
\* scanned and the flow is still expired.
AgeDelete(l) ==
  /\ pc[l] = "age_del"
  /\ \E c \in cand[l] :
       /\ cand' = [cand EXCEPT ![l] = @ \ {c}]
       /\ \/ /\ StillMapped(c)
             /\ DeleteMapping(l, c[1], c[2])
             /\ UNCHANGED initializing
          \/ KeepMapping
  /\ UNCHANGED <<entry_key, freeVars, readerVars, packetVars, bits, got, pc>>

ClearStart(l) ==
  /\ l = Maint
  /\ Goto(l, "idle", "clear_scan")
  /\ UNCHANGED <<tableVars, freeVars, readerVars, packetVars, passVars>>

\* The keys in the hash now; an empty hash ends the deletes.
ClearScan(l) ==
  /\ pc[l] = "clear_scan"
  /\ cand' = [cand EXCEPT ![l] = {<<k, flow_hash[k]>> : k \in Mapped}]
  /\ pc' = [pc EXCEPT ![l] = IF Mapped = {} THEN "clear_reclaim" ELSE "clear_del"]
  /\ UNCHANGED <<tableVars, freeVars, readerVars, packetVars, bits, del, got>>

\* Under the writer lock: delete the key, and retire the entry it maps to at
\* its delete (the scanned one plays no part).
ClearDelete(l) ==
  /\ pc[l] = "clear_del"
  /\ \E c \in cand[l] :
       /\ cand' = [cand EXCEPT ![l] = @ \ {c}]
       /\ IF flow_hash[c[1]] # None
          THEN DeleteMapping(l, c[1], flow_hash[c[1]]) /\ UNCHANGED initializing
          ELSE KeepMapping
  /\ UNCHANGED <<entry_key, freeVars, readerVars, packetVars, bits, got, pc>>

\* The newest batch with deletes that join it: it waits for the token of the
\* newest of them.
JoinedKeepsToken(b, idx) == [idx |-> b.idx \cup idx, wait |-> b.wait]
Joined(b, idx) == [idx |-> b.idx \cup idx, wait |-> readers]

BatchLeftOffByOne == Len(limbo) <= FLOW_LIMBO_BATCHES
BatchLeft == Len(limbo) < FLOW_LIMBO_BATCHES

\* flow_limbo_push: a batch that waits for every online reader, or, when every
\* batch is in use, the newest one, which then waits for them again.
PushLimbo(idx) ==
  limbo' = IF idx = {} THEN limbo
           ELSE IF BatchLeft
           THEN Append(limbo, [idx |-> idx, wait |-> readers])
           ELSE [limbo EXCEPT ![Len(limbo)] = Joined(@, idx)]

RoomKeepsOneSlot == Cardinality(Indices) - LimboCount - 1
Room == Cardinality(Indices) - LimboCount

\* The end of a delete pass: flow_retire.  What the limbo has no room for goes
\* to the free ring at once.
Retire(l) ==
  /\ \/ Goto(l, "ev_del", IF del[l] = {} THEN "full" ELSE "alloc")
     \/ Goto(l, "age_del", "idle")
     \/ Goto(l, "clear_del", "clear_scan")
  /\ cand[l] = {}
  /\ \E taken \in SUBSET del[l] :
       /\ taken = del[l] \/ Cardinality(taken) = Room
       /\ Cardinality(taken) <= Room
       /\ PushLimbo(taken)
       /\ free_ring' = free_ring \cup (del[l] \ taken)
  /\ del' = [del EXCEPT ![l] = {}]
  /\ retried' = [retried EXCEPT ![l] = pc[l] = "ev_del"]
  /\ UNCHANGED <<tableVars, free_cache, readerVars, key, own, ref, cand, bits, got>>

-----------------------------------------------------------------------------
Step(l) ==   \* an operation in progress goes on
  \/ Done(l) \/ AllocCached(l) \/ AllocRing(l) \/ AllocEmpty(l)
  \/ ReclaimTake(l) \/ ReclaimEnd(l) \/ EvictStart(l) \/ CreateFails(l)
  \/ Fill(l) \/ Add(l) \/ GiveBack(l) \/ Publish(l)
  \/ EvictSelect(l) \/ EvictDelete(l)
  \/ AgeWatch(l) \/ AgeScanEnd(l) \/ AgeDelete(l)
  \/ ClearScan(l) \/ ClearDelete(l) \/ Retire(l)

Next == \E l \in Lcores :
  \/ Register(l) \/ Quiescent(l) \/ Unregister(l)
  \/ \E k \in Keys : Lookup(l, k)
  \/ \E k, kread \in Keys : EvictScan(l, k, kread)
  \/ \E i \in Indices : AgeScan(l, i)
  \/ AgeStart(l) \/ ClearStart(l)
  \/ Step(l)

Spec == Init /\ [][Next]_vars
-----------------------------------------------------------------------------
(* Properties                                                                *)

\* Types of the state; a reader in an operation is registered, and only the
\* maintenance lcore runs aging and clear.
TypeOK ==
  /\ flow_hash \in [Keys -> Indices \cup {None}]
  /\ flow_used \subseteq Indices
  /\ entry_key \in [Indices -> Keys \cup {None}]
  /\ initializing \subseteq Indices
  /\ free_ring \subseteq Indices
  /\ free_cache \in [Lcores -> SUBSET Indices]
  /\ limbo \in Seq(Batch) /\ Len(limbo) <= FLOW_LIMBO_BATCHES
  /\ readers \subseteq Lcores /\ probe \subseteq Lcores
  /\ marked \subseteq Lcores /\ owing \subseteq marked
  /\ pc \in [Lcores -> PCs]
  /\ key \in [Lcores -> Keys \cup {None}]
  /\ own \in [Lcores -> Indices \cup {None}]
  /\ ref \in [Lcores -> Indices \cup {None}]
  /\ retried \in [Lcores -> BOOLEAN]
  /\ cand \in [Lcores -> SUBSET ((Keys \cup {None}) \X Indices)]
  /\ bits \subseteq Indices
  /\ del \in [Lcores -> SUBSET Indices]
  /\ got \in [Lcores -> SUBSET Indices]

\* The places an index can be in.
Places(i) ==
  {p \in {<<"ring">>} : i \in free_ring}
  \cup {<<"cache", l>> : l \in {m \in Lcores : i \in free_cache[m]}}
  \cup {<<"create", l>> : l \in {m \in Lcores : own[m] = i}}
  \cup {<<"hash", k>>  : k \in {j \in Keys : flow_hash[j] = i}}
  \cup {<<"deleted", l>> : l \in {m \in Lcores : i \in del[m]}}
  \cup {<<"limbo", b>> : b \in {c \in 1..Len(limbo) : i \in limbo[c].idx}}
  \cup {<<"taken", l>> : l \in {m \in Lcores : i \in got[m]}}

\* "An index is in one place at a time" (flow_table.h, Deferred Reclamation):
\* no index is lost, and none is handed out or retired twice, whatever
\* creates, evictions and aging passes race.
OnePlace == \A i \in Indices : Cardinality(Places(i)) = 1

Reusable == free_ring \cup (UNION {free_cache[l] : l \in Lcores})
            \cup (UNION {got[l] : l \in Lcores}) \cup {own[l] : l \in Lcores}

\* A late write lands on the dead entry, never on the next flow that takes it:
\* while an lcore holds a pointer it looked up (or aging reads an entry it saw
\* in the bitmap), the entry cannot be handed to a create, and still carries
\* the key of the packet.
HeldNotReused ==
  \A l \in Lcores :
    /\ ref[l] # None => ref[l] \notin Reusable /\ entry_key[ref[l]] = key[l]
    /\ l = Maint => bits \cap Reusable = {}

\* No create orphans a flow another lcore works on: a held flow is the one its
\* key maps to, until a delete pass has removed it.
NoOrphan ==
  \A l \in Lcores : ref[l] # None =>
    \/ flow_hash[key[l]] = ref[l]
    \/ ref[l] \in LimboIdx \cup UNION {del[m] : m \in Lcores}

\* What the lock-free readers of the index see: each key maps to an entry that
\* holds this key, and the bitmap aging walks has exactly the mapped entries.
IndexConsistent ==
  /\ \A k \in Mapped : entry_key[flow_hash[k]] = k
  /\ flow_used = InHash

\* A limbo never refuses a delete (its room always covers what a pass retires).
LimboNeverRefuses ==
  \A l \in Lcores : Cardinality(del[l]) <= Room

\* A mapped key never moves to another entry without a delete in between.
MappingNotReplaced ==
  [][\A k \in Keys : flow_hash[k] # None =>
       flow_hash'[k] \in {flow_hash[k], None}]_vars
Held(l) == ({ref[l]} \ {None}) \cup (IF l = Maint THEN bits ELSE {})

Phase(i) ==
  IF i \in InHash THEN "live"
  ELSE IF i \in LimboIdx \cup UNION {del[l] : l \in Lcores} THEN "dead" ELSE "free"

Store == INSTANCE FlowStore WITH
  phase <- [i \in Indices |-> Phase(i)],
  flow  <- [i \in Indices |-> IF Phase(i) = "free" THEN None ELSE entry_key[i]],
  held  <- [l \in Lcores |-> Held(l)]

\* The table implements the store of flows its users rely on: inserts, finds,
\* deletes and reuse of entries as FlowStore allows them, and nothing else.
ImplementsStore == Store!SSpec

-----------------------------------------------------------------------------
(* Progress.  An lcore inside an operation goes on (no step waits for        *)
(* another lcore); a packet loop that runs reports a quiescent state on      *)
(* every poll, and the maintenance lcore starts an aging pass every second,  *)
(* whatever else they do between two packets.                                *)

Fairness ==
  /\ \A l \in Lcores : WF_vars(Step(l)) /\ SF_vars(Quiescent(l))
  /\ SF_vars(AgeStart(Maint))

FairSpec == Spec /\ Fairness

MaintRuns == pc[Maint] # "off"

\* Deleted entries come back: one that waits for its grace period leaves the
\* limbo while maintenance runs; only deletes that join its batch again and
\* again, each of which renews the wait, can keep it there (flow_limbo_push).
JoinsBatch ==
  limbo # <<>> /\ Len(limbo') = Len(limbo) /\ limbo[Len(limbo)].idx # limbo'[Len(limbo)].idx
  /\ limbo[Len(limbo)].idx \subseteq limbo'[Len(limbo)].idx
LimboDrains ==
  \/ []<><<JoinsBatch>>_vars
  \/ \A i \in Indices : (i \in LimboIdx) ~> (i \notin LimboIdx \/ ~MaintRuns)

\* A stall ends: a reader marked stalled that reports again (or leaves) is
\* unmarked by a later pass, and aging and eviction resume.
StallEnds == \A l \in Lcores : (l \in marked) ~> (l \notin marked \/ ~MaintRuns)
=============================================================================
