# AntiDDoS-Shield: formal models

TLA+ modules of the C engine in `project/`, TLC configurations that check them
on small instances, and theorems about them that TLAPS checks for every value
of the constants. Paths below are relative to `project/`.

Contents: 1 the system · 2 plan · 3 modules · 4 runs · 5 proofs ·
6 fairness and progress · 7 bounds · 8 what is not modelled · 9 running it

## 1. The system

Packets enter through DPDK receive queues. Every packet lcore runs each packet
through the Layer 1 pipeline (`layer1/layer1.c`). Layer 2 (`layer2/`) is one
thread that once a second reads what Layer 1 exports through shared memory,
detects anomalies and writes anomaly levels back, which Layer 1 reads on every
packet. The web backend and the dashboard talk to the engine over local
sockets.

### 1.1 Components that hold the core logic

| component | state it keeps | operations | who runs them | what is hard |
|---|---|---|---|---|
| flow table (`layer1/tables/flow_table.c`) | hash key -> index, array of entries, ring and per-lcore caches of free indices, limbo of deleted indices, occupancy bitmap, reader registry | lookup or create, update, age, emergency evict, clear, register / report / unregister reader | every packet lcore; aging on the main lcore once a second; clear by a factory reset | an index deleted by one lcore while others hold the pointer; deletes by stale candidates; full table, full limbo, stalled readers |
| entry of a flow (same file) | TCP state, flags, counters, windows of one flow | `flow_table_update`, `flow_table_mark_handshake_verified`, eviction claim | every packet lcore | two directions of a flow on two lcores, plain stores to the state |
| SYN proxy (`layer1/tables/syn_proxy.c`) | hash key -> slot, one 32-bit control word per slot (state, flags, generation), connection fields, entry reservation, half-open counts per source | process a packet, cleanup, admission of spoofable segments | every packet lcore; cleanup on the main lcore | lock-free claims and retires, ABA on slots, a close agreed by two sides on two lcores, a SYN-ACK that re-records the sequence number |
| pipeline (`layer1/layer1.c`) | none of its own beyond counters and the emergency flag | `layer1_process_packet`, `layer1_maintenance` | packet lcores, main lcore | what one stage read is stale in the next one |
| legitimate sources and lists (`layer1/tables/ip_lists.c`) | sets of 64-bit words (address, tick); DIR-24 list rules under a writer lock | mark, check, cleanup | packet lcores, main lcore, control thread | compare-and-swap with two tries, 32-bit ticks that wrap |
| limits (`layer1/tables/connection_limits.c`, `tcp_flag_rate_limit.c`) | trackers per source with windows | count a connection, cleanup, reconfigure | packet lcores, main lcore | window reset races, deferred release of entries |
| shared memory (`layer1/interlayer/shared_memory.c`, `packet_ring.c`, `policy_interface.c`, `reputation_interface.c`) | sequence-locked features, per-address anomaly slots, sample ring, policies | export, read, expire | stats thread, Layer 2, packet lcores | torn reads, lapped readers, entries shifted under readers |
| anomaly state (`layer2/detection.c`, `layer2.c`) | anomaly level, persistence counts, cool-down, baselines' frozen flags, for the network and per protected address | one detection cycle a second; clear, force, freeze, unfreeze, reset | the detector thread, the control thread | long sequences of cycles: escalation, de-escalation, cool-down, freeze and unfreeze; commands between the detector's steps |
| baselines and detectors (`layer2/baselines.c`, `innovation_gate.c`, `adaptive_threshold.c`, `routed_fdr.c`, ...) | statistics of traffic per address | update, freeze, threshold, combine | the detector thread | floating-point estimators; latches and counters around them |

The other components (telemetry, parsers, filters, configuration, sockets,
tenants, high availability, backend, dashboard, evaluation harness) are listed
with their reason in `PROJECT.json`.

### 1.2 How they interact

- Packet loops (`core/dpdk_core.c`): a loop registers with the flow table as a
  reader when it starts, reports a quiescent state on every poll, and
  unregisters before it ends. The main lcore also calls `layer1_maintenance`
  once a second: flow aging, SYN-proxy cleanup, cleanup of lists.
- `layer1_process_packet` is a chain of calls: lists, signatures, geo and
  protocol filters; Stage 8b (admission of TCP segments whose source may be
  spoofed, which asks the SYN proxy and the legitimate-source table); Stage 9
  (SYN proxy); Stage 10 (connection limits); Stage 11 (flow table); Stage 12
  (rate limits and policies). A flow pointer obtained in Stage 11 is used until
  the packet is done.
- A connection the SYN proxy has verified is tracked in the flow table as
  verified (`track_proxy_flow`); a bypassed connection whose handshake is
  acknowledged makes its flow protected from eviction.
- Layer 1 exports features through shared memory; Layer 2 reads them, and its
  anomaly levels switch Layer 1 into stricter modes (emergency drop, proxying).
- Configuration and factory reset come from the control socket thread.

### 1.3 What makes each component correct

- Flow table: an index is in one place at a time; an entry some lcore holds is
  not reused under it; a key keeps its entry until it is deleted; the bitmap
  aging walks agrees with the hash; the limbo always takes what a pass deletes;
  deleted entries come back, and a stall ends.
- Entry of a flow: the states follow the TCP life cycle, a finished flow stays
  finished, a verified flow is not evicted.
- SYN proxy: a published slot is the one its key maps to; slots, reservations
  and half-open counts balance; a connection is closed once, when both sides
  are done; a segment is admitted only on the sequence number of its own
  connection.
- Connection limits: an lcore counts on the tracker of its own source; a window
  admits a bounded number of connections beyond the limit; windows only move
  forward.
- Feature slots: a packet is counted for its own address and exported in one
  window; unregistered slots come back.
- Layer 2: an attack ends, after its cool-down, through every level; a baseline
  learns nothing while frozen and is unfrozen when nothing keeps it frozen.

## 2. Plan

Most important behaviour first. "Done" means modelled, checked and, where it
says so, proved.

| # | module | models | abstract specification | theorems | state |
|---|---|---|---|---|---|
| 1 | `FlowTable` | life cycle of flow entries | `FlowStore` | types, one place, held entries, bitmap, refinement | done, proved |
| 2 | `SynProxy` | connection slots, control words, handshake, close, bypass, cleanup | one connection's life cycle per 4-tuple (`SynConnections`) | types, slot ownership, accounting, own ISN, refinement | done, proved |
| 3 | `AnomalyState` | anomaly state over detection cycles, frozen baselines, publication | the phases of an attack (`AttackPhases`) | types, coherence, gradual descent, refinement, poisoned baselines, publication | done, proved; the cycle per address to be modelled |
| 4 | `FlowEntry` | one flow under two lcores, aging and eviction: TCP state, handshake, vouching, timeouts, claim | - | types, what verifies, what vouches | done, proved; runs over closing segments to come |
| 5 | `ConnLimits` | trackers of sources, windows, deferred release | - | types, own tracker, what a window admits, windows | done, proved |
| 6 | `PerIpFeatures` | protected addresses and subnets, their feature slots, windows | - | types, own slot, every packet in one window | done, proved |
| 7 | `LegitTable` | legitimate-source words and wrapping ticks (`ip_lists.c:1570-1808`): one handshake buys at most one lifetime, the cleanup removes no fresh mark | set of sources with deadlines | - | planned; no decision of the pipeline reads the table today |
| 8 | `ReaderWatch` | the reader registry with its counters and tokens, register / watch / unregister step by step | the sets of `FlowTable` | refinement | planned |
| 9 | `PolicyTable`, `PacketRing`, `FeatureExport` | policies searched without a lock, the sample ring, the sequence-locked copy of the features | atomic register | no torn read | planned |
| 10 | IPv6 twins | `flow_table_v6.c`, `syn_proxy_v6.c` where they differ from the IPv4 tables | as there | - | planned |
| 11 | `Pipeline` | Stages 9 and 12, the emergency drop over `SynProxy` and `FlowEntry` | - | - | planned |
| 12 | Layer 2 rules (`innovation_gate.c`, `routed_fdr.c`, `adaptive_threshold.c`) | pure algorithms against reference definitions | - | lemmas | planned |
| 13 | High availability, control socket sessions, tenant registry | state machines | - | - | if time allows |

Conventions: parameters are CONSTANTS with one named ASSUME, one action per
region executed under a lock or per access to shared state outside the locks,
invariants as conjunctions of named parts, no RECURSIVE operators in modules
that are proved about. Theorems live in modules of their own.

## 3. Modules

### 3.1 `FlowTable`, `FlowStore`

`FlowTable` models `flow_table_lookup_or_create_internal`, `flow_entry_alloc`,
`flow_reclaim`, `flow_limbo_push` / `_take`, `flow_retire`,
`flow_table_age_flows`, `flow_table_emergency_evict`, `flow_table_clear`, the
reader functions and `flow_readers_watch`.

| variable | in the code |
|---|---|
| `flow_hash` | `rte_hash` of the table, key -> index |
| `flow_used` | the occupancy bitmap |
| `entry_key`, `initializing` | field `key` of an entry; entries whose `state` is `FLOW_STATE_INITIALIZING` |
| `free_ring`, `free_cache` | `free_index_ring`, `lcore_free_caches` |
| `limbo` | the batches of deleted indices, each with the set of readers that still owe it a report (the token) |
| `readers`, `probe`, `marked`, `owing` | QSBR variable; the stall check's probe token, `miss_token` marks, and which marked readers have not passed it |
| `pc`, `key`, `own`, `ref`, `retried` | position and locals of an lcore in a create |
| `cand`, `bits`, `del`, `got` | locals of a delete pass and of a reclaim |

Every action names its function in `PROJECT.json` ("map"). The steps are cut
where the code takes or drops a lock or touches shared data without one, so the
second lookup under the writer lock, the recheck of a delete candidate, the
store that publishes a new entry after the lock is dropped, and the hand-over
from a delete to the limbo are separate steps that interleave. Abstracted: the
contents of a flow beyond its key, eviction priorities (any batch may be
chosen), time (a flow may be expired or not, an attempt due or not), the order
of indices inside the ring and caches, the wait loop of a losing creator (it is
bounded and its result is not used), and the token arithmetic of QSBR, which is
a set of readers. `flow_table_clear` runs on the maintenance lcore here; in the
engine it is reached by a factory reset, which the main build never calls.

`FlowStore` is what the table promises its users: an entry is free, live or
dead; an insert takes a free entry for a key that has none; a find or visit
adds the entry to what an lcore holds; a delete makes it dead; an entry is
recycled only when nobody holds it.

Properties. `OnePlace`, `HeldNotReused`, `NoOrphan`, `IndexConsistent`,
`LimboNeverRefuses`, `ImplementsStore`, `LimboDrains`, `StallEnds`; each is
stated with its reason above its definition. `MappingNotReplaced` is proved and
not in a run: `ImplementsStore` says it of the same steps.

### 3.2 `SynProxy`, `SynConnections`

`SynProxy` models the connection table of `syn_proxy.c` and everything that
changes it: `find_connection_with_hash`, `alloc_connection_with_hash`,
`conn_publish`, `retire_entry`, `free_connection`, `proxied_close_segment`,
`bypass_segment`, the half-open counts, the decisions of
`syn_proxy_process_packet`, `syn_proxy_admits_segment` and
`syn_proxy_cleanup_connections`.

| variable | in the code |
|---|---|
| `conn_hash`, `slot_key`, `free_slots` | `g_conn_hash` (created with NO_FREE_ON_DEL): key -> position, the key stored at a position, positions not handed out |
| `ctl` | `conn->ctl` of each pool entry: state, generation, BUSY, two FIN bits, ISN_SEEN, HS_ACKED |
| `conn_key`, `server_isn`, `client_fin_end`, `server_fin_end`, `seq_delta` | fields of an entry; numbers carry the generation that stored them |
| `entries_used`, `connections_active`, `endings` | `g_entries_used`, the statistic, how often the present entry was counted as ended |
| `half_open` | one word of `g_half_open_table` |
| `pc`, `key`, `seg`, `num`, `slot`, `word`, `seen`, `tries` | position and locals of an lcore |
| `cand` | the cleanup's batch |

A step is one access to shared state. Three things are one step although the
code takes several: a swap that is repeated until it succeeds and decides only
from the word it swaps (reservations, half-open counts, clearing BUSY, retiring
in `free_connection`); the four fields of a 4-tuple; and the fields written
while an entry is INIT. Memory is sequentially consistent; the release and
acquire orderings the comments argue about are not modelled. `of` in a control
word is not in the code: it names the connection a generation stands for and no
action reads it, only properties do.

Abstracted: sequence numbers to what they are compared for, and those of
successive connections on a slot differ where FINs are concerned (the code
documents that a late FIN end of a former connection may overwrite the new
one's); whether an RST is exact, a cookie valid, a SYN challenged (free
choices; a challenge keeps no state in either mode); timeouts (an entry may be
due whenever it is looked at); the key positions of the hash, which are more
than `max_connections`; generations, which in the code have 23 bits and wrap.
An ACK a client sends for an earlier ISN of the same bypassed connection is
accepted by model and code alike. Not modelled: `syn_proxy_clear_all` (not safe
beside packet lcores by its own comment), threads without an lcore id, and
pure SYNs from the server side.

`SynConnections` is what the rest of the pipeline sees: for each 4-tuple one
connection that moves none -> connecting -> established -> client_fin /
server_fin -> closing -> closed, or none -> bypassed -> verified, and may end
at any time.

Properties. `OneOwner` (an INIT, DEAD or BUSY entry has exactly one lcore
working on it), `FoundByKey` (what is claimed or published is what the hash
maps), `CountsBalanced` (entries and half-open counts equal what they count, on
every path; with colliding sources the half-open count may be lower, never
higher), `CountedOnce`, `OwnIsn` (an admission, and a handshake found
acknowledged, rest on the ISN of the segment's own connection), `FactsKept` (no lcore undoes a FIN, acknowledgement or handshake another
recorded), `ImplementsConnections`, `HalfOpenEnds`. The comment of
`find_connection_with_hash` says that the 4-tuple, read after the word, tells
which connection the word is of. In this model the slot may change hands
between the two reads, and twice; what keeps the properties is the generation
in the word, which every swap compares.

Nothing of the kind is claimed of translation. A packet is translated with deltas
that are read after the lookup and without another look at the word, so one
packet may be translated with the next occupant's deltas, as `syn_proxy.c:938-941`
says; packets and headers are outside the model. The other thing said there, a
FIN end of the next occupant that is overwritten (942-945), is in the model
(`StoreFinEnd`): such a connection ends by timeout.

### 3.3 `AnomalyState`, `AttackPhases`, `AnomalyHistory`

`AnomalyState` models the network-wide half of Layer 2: `detection_cycle`
(`layer2/layer2.c`), `l2_update_anomaly_state` and `l2_force_anomaly`
(`layer2/detection.c`), the frozen flag and poison tracker of
`layer2/baselines.c`, and `anomaly_set_level` (`layer1/interlayer/shared_memory.c`).

| variable | in the code |
|---|---|
| `active` ... `recent_attack_count` | the fields of `struct l2_anomaly_state` of the same name (`level` is `current_level`) |
| `frozen`, `poison_detected`, `large_change_count` | fields of the baseline and of its poison tracker |
| `poison_window_open`, `poison_age` | whether the tracker's window has begun; seconds since poisoning was detected |
| `learned` | whether the last cycle updated the baselines |
| `pc`, `publishing`, `sample` | where the detector and the control thread are, the level each publishes, what the cycle read and detected |
| `shared_level`, `shared_active`, `shared_pct` | the three fields of the global anomaly the data plane reads |

A detection cycle is `Sample` (no lock), `Update` (everything under the mutex:
one transition of the anomaly state, then freeze, recovery, update and poison
check of the baselines) and, when the level changed, `ReadLevel` and three
stores. A command of the operator is one critical section followed by the same
three stores, on the control thread. Each disjunct of `UpdateAnomalyState` is a
branch of the function.

Abstracted. A cycle is one second. What the detectors decide is an input (a
level or none), and so is whether a 300 s window has expired in this cycle
(`expired`) and whether a baseline's mean moved too far (`jumped`); both are
free, so every combination of theirs with the rest is checked. Rates are
numbers; the ratios 30 % and 50 % are the code's. Counters stop at the largest
value a comparison of the code tells apart. Cool-downs with a fraction of a
second are not modelled. `layer2_force_anomaly` and `layer2_freeze_baselines` /
`_unfreeze_baselines` are public functions that the engine does not call; they
are in `ControlOps` where a run uses them. Not modelled: the cycle per protected
address (`layer2_per_ip_detection_cycle`), reputation updates, saving
baselines, `layer2_set_config` while the thread runs, statistics and logs.

`AttackPhases` is what the comment above `l2_update_anomaly_state` in
`detection.h` promises: normal -> attack -> cool-down -> normal, severity rising
at once and falling level by level, ended from the lowest level only, overruled
by an operator. `AnomalyHistory` adds two variables that count consecutive
detections and consecutive low cycles the way the comments describe them, over
all cycles, so that what the code's counters lead to can be compared with them.

Properties. `PhasesSpec`, `PoisonedStaysFrozen`, `CoolDownReachesLow` (a cool-down
has the seconds its level needs, although it may be extended, restarted and
overruled), `GradualDescent`, `AttackEnds`, `LearningResumes`,
`ClearReachesShared`, `DropIsNoticed`. Proved and not in a run:
`StateIsCoherent` and `SharedMatches` (no transition stays unpublished).
`AttackEnds`, `CoolDownReachesLow` and `PhasesSpec` are about cool-downs of seven
seconds or more; the configuration may set 0 to 300 (`layer2_config.c:607`).

An attack whose traffic stays at half of its peak or more stays active at LOW
without an end; that is the code's intention (traffic still high) and
`AttackEnds` says nothing of it.

Two promises that do not hold are findings in `PROJECT.json`. The run
`anomaly_clear` shows that a clear command may be undone for the data plane. The
run `anomaly_bursts` shows that detections need not be consecutive to raise the
alarm (`AlarmNeedsRun`): below `min_pps`, with no attack on, a cycle leaves the
persistence count as it is (`layer2.c:745`), so two detections with quiet cycles
between them count as two in a row. Four smaller differences between comments and code follow from the model's definitions and
have no run of their own:

- with a cool-down of 0 seconds an attack never ends: the branch that ends it
  is never taken (the runs take it positive);
- cycles between 30 % and 50 % of the peak count towards the three cycles of a
  drop (`LowCycles`);
- a cool-down that a drop starts is not extended after frequent attacks
  (`CoolDownLeft`);
- a cool-down of less than seven seconds can be over before the level has
  fallen to LOW (`DescentIsGradual` needs seven).

### 3.4 `FlowEntry`

One flow of `flow_table.c` in full, where `FlowTable` leaves the contents out:
`flow_table_update_internal` with the TCP states,
`flow_table_mark_handshake_verified`, `flow_table_vouches_for`,
`flow_table_validate_rst_fin_flow`, `flow_table_count_packet`, the aging pass
and the claim of the emergency eviction, together with the calls `layer1.c`
makes of them (`layer1_spoofed_tcp_admit`, Stage 11, `track_proxy_flow`).

| variable | in the code |
|---|---|
| `flow` | the entry: `state`, initiator, the verified flag (`acked`), whether sequence numbers are tracked, who vouched, per direction counters (`seen`, `ack_seen`) and numbers |
| `pc`, `seg`, `way`, `current_state` | where an lcore is with which segment, how the segment reached the table, the state it loaded |
| `evict` | what an eviction has checked, under the writer lock, before its claim |
| `age`, `age_idle` | the aging pass: unlocked scan, recheck under the lock, delete |
| `idle` | time since `last_seen_tsc` |
| `said`, `inside_spoke` | history: the numbers the responder has sent, whether the protected host has sent anything of its own |

A segment reaches the entry on one of four ways: through the pipeline, by the
SYN proxy's word (`proof`), as an update of a bypassed connection, or as a packet
that is only counted. A step is one access to shared state: loading the state,
storing numbers, setting the flag and storing the new state are separate, so
two directions on two lcores overwrite one another's states here as in the code.

Abstracted. Time is relative (`idle`), and no tick falls into an aging pass;
the timeouts are the idle one and the half-open one, without the scaling by
occupancy; SYN protection is on. The other filters of the pipeline are a choice
to drop the packet. A flow that is deleted releases its holders: what a holder
of a dead entry may do is `HeldNotReused` of `FlowTable`. Sequence numbers are
modulo 16 with a window of 1. The closing states are in `NextState`, but the
run's segments do not get there.

Properties. `VerifiedWasAnswered` (a handshake is verified by the SYN proxy's
word or by an acknowledgement of a number the server has sent, however the
updates of both directions interleave), `OutsideVouchesNothing` (packets from
outside alone never make a flow vouch for its spoofable peer), `HalfOpenEnds`
(the SYN-ACKs a server retransmits to a spoofed source do not keep the flow). The run `flow_claim` shows what the comment above the
claim promises and the code does not do, `ClaimSeesVerification`: a
verification that sets the flag without a change of state, between check and
claim, is not noticed, and the flow is deleted.

### 3.5 `ConnLimits`, `ConnLimitsHistory`

All of `connection_limits.c`: `connection_limits_check`, `connlim_add`,
`connlim_retire`, `connlim_reclaim_locked`, `connection_limits_update`,
`connection_limits_cleanup_expired`.

| variable | in the code |
|---|---|
| `conn_hash`, `free_slots` | `rte_hash`: source -> position; positions it may hand out |
| `tracker` | the tracker at a position: `active_connections`, `connections_last_window`, `last_update`, `window_start` |
| `limbo`, `waits` | deleted positions and the lcores each still waits for (the token) |
| `conn_wlock` | who holds the writer's lock |
| `pc`, `ip`, `pos`, `clock`, `seen_start` | a check: its source, its position, its clock, the window start it saw |
| `cleanup`, `cleanup_clock`, `to_delete`, `checked`, `retired` | the cleanup's phase and batch |

Clocks are ticks that all lcores read, each when its check begins; the two adds
of `Count` are one step; a scan of the cleanup is one step, since every key it
collects is checked again. The counters wrap at `CountMod`. `Max` is positive
because `layer1_config.c:814` refuses 0. `connection_limits_update` has no
caller in the engine; the run includes it.

Properties. `OwnTracker` (an lcore counts on the tracker of its own source, or
on one nobody can have got since), `WindowForward` (only a later window follows
one, whatever the difference of two lcores' clocks), `WindowBounded` (how many
connections a window admits).

The tracker's count does not tell how many connections its window has admitted.
A window begins with the swap of its start, and a store after it clears the
count (`connection_limits.c:320-323`). What other lcores count in between is
erased, and they may go on to count up to the limit once more. The first
connection of an lcore that adds the source may be erased too, when another
lcore starts the window on the clear tracker, although the comment there says
"neither loses the other's" (`connection_limits.c:248-251`).
`ConnLimitsHistory` therefore counts what a window admits in a variable of its
own, and `WindowBounded` says how much that can be: `Max` + (`Max` + 1) + ... +
(`Max` + n - 1) for n lcores, which the run reaches; one lcore alone admits
`Max`.

### 3.6 `PerIpFeatures`

Protected addresses and their feature slots: the commands of `ip_lists.c`
(protect and unprotect a host or subnet, clear the hosts), registration and
release in `telemetry/per_ip_features.c`, Stage 3c of `layer1.c`, and the walk of
the windows by `l2_per_ip_features_export_update` in `shared_memory.c`.

| variable | in the code |
|---|---|
| `protected`, `subnets` | the two lists |
| `request` | a registration that waits for a slot, outside the lock |
| `perip_hash`, `free_slots`, `limbo`, `waits` | as in `ConnLimits` |
| `counters` | slots whose count-min counters are allocated |
| `rx`, `aggregated`, `previous` | `rx_packets` (for every counter of Stage 3c); its values at the last walk and at the last reset |
| `exported`, `left_out` | history: packets exported for the present registration; slots a window of which was not exported |
| `stats` | the statistics thread: snapshot, export, reset |
| `pc`, `dst`, `pif` | a packet: its destination and the slot it counts on |

A section under the control lock is one step, commands are serial (they hold
the lists' writer lock), and a factory reset or clearing all subnets is what it
does to the slots. Of the sketches only the memory of the count-min counters
is kept. Slots that are not among the `ExportMax` busiest, or that a factory
reset cuts, are `left_out`. Clearing the list of hosts leaves their slots
registered, in the code and in `ClearHosts`.

Properties. `OwnSlot` (a packet is counted on its address's slot, its counters
allocated, or on one nobody has got since), `EveryPacketOnce` (Layer 2 gets each
packet in exactly one window although packets arrive between export and reset),
`SlotsReturn`. The run `per_ip_subnets` shows that `TrackedWhileProtected`, which
`ip_lists.h` promises, fails: two subnets of one network address share a slot
and removing one unregisters it.

## 4. Runs

| run | configuration | what it shows |
|---|---|---|
| `flow_table` | `MCFlowTable.cfg`: 1 key, 2 entries, 2 lcores, a limbo of one batch | creates, lookups, aging, eviction and clear interleave; entries in caches, in the limbo or held leave a create without one; every later delete joins the only batch: the safety invariants, the refinement of `FlowStore`, and that deleted entries come back and stalls end |
| `syn_table` | `MCSynScenarios.cfg`: 5 keys of 2 colliding sources, 2 slots, 2 lcores, cleanup with a batch of 2; what arrives is limited to four scenarios, in `MCSynScenarios` | ownership, mapping, counts, own ISN, facts kept, refinement of `SynConnections`, in every scenario |
| `syn_close` | `MCSynProxyClose.cfg`: 1 key, 1 slot | FINs and last ACKs of both sides on two lcores, and the cleanup: a connection is counted as ended once, no lcore undoes what the other recorded of it, and half-open ones end |
| `anomaly_cycle` | `MCAnomalyCycle.cfg`: two rates, CRITICAL, cool-down of 7 s, all commands | an operator may clear, force, freeze, unfreeze and reset between any two steps: a cool-down keeps the seconds its level needs, and only a command lets the level fall by more than one |
| `anomaly_live` | `MCAnomalyLive.cfg`: four rates, LOW and CRITICAL, persistence 2, poisoning after two jumps and recovery after 2 s; freeze and reset | refinement of `AttackPhases`, drops are noticed, attacks end, learning resumes, the data plane hears of it |
| `conn_limits` | `MCConnLimits.cfg`: 2 sources, 1 position, 3 lcores, a limit of 1, two times | checks, adds, windows, reports, the cleanup and reclamations interleave; the position changes hands while an lcore still uses it; two late clears erase what a window has counted |
| `flow_entry` | `MCFlowEntry.cfg`: the segments of a handshake, of a blind sender and of a server's retransmissions, spread over 2 lcores; aging, eviction | what verifies and what vouches, that half-open flows end |
| `per_ip` | `MCPerIpFeatures.cfg`: a host and a subnet around it, 2 slots, 2 lcores, one slot exported per window | registrations that wait, packets in flight across an unregistration, windows that leave a slot out |
| `anomaly_clear`, `anomaly_bursts`, `flow_claim`, `per_ip_subnets` | one `.cfg` each | expected violations, see 3.3, 3.4 and 3.6 |

`syn_table` runs `Spec` under two action constraints. `Within` limits what may
arrive to scenarios, each on keys of its own: two half-open connections of two
sources compete for both slots (`Pool`), are timed out by the cleanup, and one of
them may be answered or reset; a slot passes from a bypassed connection (`reused`)
to its own next one or to `k2`'s, while Stage 8b admits a segment (`Reuse`, on one
slot); and one connection is bypassed while FINs of both sides come (`bypassing`)
or until its last ACK (`ending`). `Changes` leaves out segments that pass by while
an lcore is at work: they change nothing. A proxied connection that closes is
`syn_close`'s. All segments together on the same keys are too many states; the
theorems are about `Spec` without the constraints.

Every run checks for deadlock. Every property of a passing run has a
mutant in `PROJECT.json`, a plausible bug in one definition under which TLC
finds that property violated.

## 5. Proofs

`FlowTableProofs` proves, for every number of keys, entries and lcores, from `ConstantsAssumption` (finitely
many entries, positive limits, `Maint` an lcore) only:

| theorem | property |
|---|---|
| `TypeCorrect` | `TypeOK` |
| `OnePlaceCorrect` | `OnePlace` |
| `LimboNeverRefusesCorrect` | `LimboNeverRefuses` |
| `HeldNotReusedCorrect` | `HeldNotReused` |
| `NoOrphanCorrect` | `NoOrphan` |
| `IndexConsistentCorrect` | `IndexConsistent` |
| `MappingNotReplacedCorrect` | `MappingNotReplaced` |
| `StoreImplemented` | `ImplementsStore` |

The argument has three layers, each an inductive invariant.

1. `TypeInv` = `TypeOK` and `ControlOK`: which local variables are set at which
   `pc`. `TypeOK` alone is not inductive: `Fill` writes `entry_key[own[l]]`, which is only typed
   because `own[l]` is an index at that `pc`.
2. `PlaceInv` adds `BatchesApart` (limbo batches are disjoint), `Exclusive`
   (what an lcore owns privately, the ring, the limbo and the hash are pairwise
   disjoint) and `Covered` (nothing is lost). `OnePlace` counts places; these
   three say the same set by set, which is what a step can be checked against.
   `LimboNeverRefuses` follows by counting: what a pass deleted and what the
   limbo holds are disjoint subsets of the indices.
3. `HeldAll` adds `EntriesInv` (mapped entries carry their key, the bitmap is
   the mapped entries, a filled entry has its creator's key), `RefsSafe` and
   `BitsSafe`: a held entry is mapped, or deleted by a pass that has not retired
   it yet, or in a limbo batch that still waits for the holder. The last case is
   the grace period, and why a batch that later deletes join must wait for the
   newer token.

`StoreImplemented` maps every action to a step of `FlowStore` or a stutter,
using `HeldAll`.

`SynProxyProofs`, `SynProxyCountsProofs` and `SynProxyPhasesProofs` prove, for any
4-tuples, sources, slots, lcores and limits, from `SynProxyAssumption` (finitely many
slots and lcores, natural limits with at least one half-open place, a `None` that is
no key, slot or number, a source for every 4-tuple):

| theorem | property |
|---|---|
| `Invariant` | the inductive invariant `IInv` |
| `OwnersAreOne` | `OneOwner` |
| `EntriesAreFound` | `FoundByKey` |
| `EndsCountOnce` | `CountedOnce` |
| `IsnIsOwn` | `OwnIsn` |
| `FactsStay` | `FactsKept` |
| `CountsAreBalanced` | `CountsBalanced` |
| `TypesAreKept` | `TypeOK` |
| `TableImplementsConnections` | `ImplementsConnections` |

None of the properties is inductive: what a step may do depends on what the lcore
has read before, and that may be out of date. `IInv` therefore has three parts.

1. What an lcore holds. `Registers` types its registers at each `pc`. `Held` says
   what a word read earlier still means (`ReadBefore`): its generation is not newer
   than the entry's, and while the generation is the same, the entry is the same
   connection, with the same 4-tuple. That is what makes a compare-and-swap on the
   control word safe, and what the generation is for. `Seen` says the same of the
   numbers read after a word, and `Candidates` of what the cleanup has collected.
2. What an owner knows (`Owns`). From the claim to the publication, while the busy
   bit is set, and from the retirement until the position is given back, one lcore
   works on the entry alone (`Exclusive`); no owned entry is without its lcore
   (`HasOwner`), so none is left behind by an early return.
3. What the table holds (`Table`, `Entry`): an entry that is claimed or live is
   mapped under its 4-tuple, at a position the hash may not hand out; the numbers
   its flags announce were stored by its own generation; a closed entry was counted
   as ended once.

The steps of an lcore that owns nothing change an entry only by a swap from a word
it has read (`Evolves`), so that what the other lcores hold needs one argument for
all steps (the frame lemmas on `Same`, `Untouched`, `Evolves`), and each action one
for its own lcore.

`CountsAreBalanced` is relative to `IInv`. A count is a sum of cardinalities over
the entries and the lcores; since a step changes one entry and one lcore, the sum
changes by what the two contribute (`Used`, `Active`, `Charge`), and the lemmas
compare that with what the step adds to the counter. `HalfOpenWord` is needed
besides: an empty word names no source, so that a source never gives back another
one's place. `TypesAreKept` needs all of this, because the counters are in `Nat`
only when no path subtracts twice: `connections_active` is never below zero since
the lcores about to subtract have a retired entry each.

`TableImplementsConnections` maps each step to one of `SynConnections` or to a
stutter. By `IInv` at most one live entry stands for a 4-tuple, so the phase of the
4-tuple is that of this entry (`PhasesKnown`). No phase is skipped although one
segment may be closing for both sides, because an ACK closes only what a FIN of the
other side has announced, and a FIN carries one side's flag.

`AnomalyProofs` proves, from `AnomalyAssumption` (any rates and limits):

| theorem | property |
|---|---|
| `TypeCorrect` | `TypeOK` |
| `AlwaysCoherent` | `StateIsCoherent` |
| `DescentHasTime` (`CoolDown >= 7`) | `CoolDownReachesLow` |
| `DescentIsGradual` (`CoolDown >= 7`) | `GradualDescent` |
| `PhasesImplemented` (`CoolDown >= 7`) | `PhasesSpec` |
| `PoisonedStaysFrozenCorrect` | `PoisonedStaysFrozen` |
| `SharedMatchesCorrect` | `SharedMatches` |
| `DropIsNoticedCorrect` (`CoolDown > 0`) | `DropIsNoticed` |

`TypeOK` is not inductive: the poison count stays within its threshold only
because reaching it detects poisoning, which stops the count; `TypeInv` adds
that (`CountBelowThreshold`). `AlwaysCoherent` adds `StateIsCoherent` to it.
The descent needs `CoolDownReachesLow` as well: a level above LOW takes
`LevelDuration` seconds per level, and the invariant says the cool-down has
them. It holds when a cool-down starts because three levels take at most three
quarters of it, or six seconds when the quarter is raised to two; hence the
hypothesis of seven seconds. The configurations in the repository use 30 seconds.
`PhasesImplemented` uses the same invariant: it is what makes a cool-down end
at LOW, the one step `AttackPhases` lets it end from. `GuardInv` adds that
nothing is found poisoned while the protection is off, since only the check of
the protection keeps such baselines frozen. `PublishInv` says what has been
stored so far at each `pc` of the detector, and `StateIsCoherent` relates the
published flag to the level it is computed from. `HistoryInv` ties the history
variable to the code's counter: `low_traffic_cycles` is at least the run of cycles below 30 % of the peak, because
such a cycle is compared with the peak, sets no new one and is not still high, so
it always counts (`BelowDropCounts`). Without a cool-down there is none to start,
hence the hypothesis of `DropIsNoticedCorrect`.

`ConnLimitsProofs`, for any sources, positions, lcores, limit and clock bound,
from `ConnLimitsAssumption`:

| theorem | property |
|---|---|
| `TypeCorrect` | `TypeOK` |
| `OwnTrackerCorrect` | `OwnTracker` |
| `WindowBoundedCorrect` | `WindowBounded` |
| `WindowForwardCorrect` | `WindowForward` |

`Bounded` keeps the counters from wrapping: a counter plus the lcores that have
passed the test and not counted yet stay below `Max` + lcores. An lcore joins them
only after it has read a counter below `Max`, or as the one that added the source
and holds the lock, when the counter was just cleared. `WindowBounded` is not
inductive: it says nothing of how much more a window may admit. `WInv` bounds
that by the lcores that hold back no clear of the window (`Others`). With o of
them, the window has admitted at most what the counter shows and what o - 1 of
them may have had erased, `Max` + ... + (`Max` + o - 2); and with those that have
passed the test at most `Max` + ... + (`Max` + o - 1). A late clear sets the
counter to zero and makes its lcore one of the others, so that the second bound
becomes the first for one lcore more; an lcore that passes the test saw less than
`Max`, which turns the first into the second. `UsersSafe` is the grace
period: the position an lcore uses is its source's, or with the cleanup, or in
the limbo and waiting for it; `Places` says that these are disjoint and that a
free tracker is clear. `Registers` has what `WindowForward` needs: an lcore
that swaps the start has a clock later than the start it saw. `CountMod` must exceed
`Max` + lcores + 1, which is what keeps a counter from wrapping past its limit.

`PerIpProofs`, for any keys, subnets, slots, lcores and bounds, from
`PerIpAssumption`:

| theorem | property |
|---|---|
| `TypeCorrect` | `TypeOK` |
| `OwnSlotCorrect` | `OwnSlot` |
| `EveryPacketOnceCorrect` | `EveryPacketOnce` |

`Places` and `UsedSafe` are as above. `EveryPacketOnce` says nothing of a slot
once it was left out; its counters may still not be fewer than what was exported,
which the type of `exported` needs: `ExportBounded`.

`FlowEntryProofs`, for any segments, routes, number of lcores, sequence numbers
and timeouts, from `FlowEntryAssumption` and `NoneAssumption`:

| theorem | property |
|---|---|
| `TypeCorrect` | `TypeOK` |
| `VerifiedWasAnsweredCorrect` | `VerifiedWasAnswered` |
| `OutsideVouchesNothingCorrect` | `OutsideVouchesNothing` |

`Registers` says what an lcore holds at each `pc`. `Answers` is the heart: while
the flow is in `SYN_ACK_RECEIVED`, the responder's next number, as the entry has
it, is one it has sent; and since states are stored long after they were
loaded, every lcore that loaded that state, or is about to store it or to set
the flag, knows the same. `Spoke` says that a flow vouched for by the inside host
was spoken for by it. `AgeLooks` relates what the aging pass holds to the entry.

## 6. Fairness and progress

`FairSpec` of `FlowTable` assumes: an lcore inside an operation goes on (no
step waits for another lcore: locks are held for bounded regions, which are
single steps here); a packet loop reports a quiescent state again and again
(every poll does, `dpdk_core.c`), which is strong fairness because the loop may
be inside a packet whenever TLC looks; the maintenance lcore starts an aging
pass again and again (once a second). Unregistering and arrival of packets are
not fair. `LimboDrains` and `StallEnds` are checked under it by TLC and are not
proved (liveness is out of the prover's reach).

With one limbo batch, deletes that keep joining it renew its token for ever, so
`LimboDrains` says: a deleted entry comes back, or deletes keep joining the batch
it is in. The code has many batches (`FLOW_LIMBO_BATCHES`), and joins one only
when all are in use.

`FairSpec` of `SynProxy` assumes that an lcore inside an operation goes on
(nothing in this code waits: a failed swap means another lcore made progress),
that the maintenance lcore starts a cleanup again and again
(`layer1_maintenance`), that its scan comes to every key in the table (the
iterator resumes where it stopped), and that an entry it keeps meeting is found
due in the end. The last holds for CONNECTING, the only state `HalfOpenEnds`
speaks of: its timeout counts from `state_change_tsc`, which no packet renews.

`FairSpec` of `AnomalyState` assumes that the detector's thread goes on (it
loops until shutdown and the mutex is held for bounded regions, which are
single steps) and that a command which changed the state goes on to publish
it. No operator has to give a command, and no traffic has to come or to stop:
`AttackEnds` and `LearningResumes` are about traffic that stays quiet.

`FairSpec` of `FlowEntry` assumes that the aging pass is run and finished, that
an eviction which has checked its flow leaves the lock, and that time passes.
Nothing is assumed of packets: none need arrive, and none need be finished, so
`HalfOpenEnds` is about flows that no packet but SYN-ACKs touches from some
time on.

`FairSpec` of `PerIpFeatures` assumes that the statistics thread runs every
second, that a packet is finished, and, as a strong fairness for the reason
above, that a packet loop reports a quiescent state again and again.

`ConnLimits` is checked without fairness: its properties are safety properties.

## 7. Bounds

| bound | where | why it is enough |
|---|---|---|
| 1 key, 2 entries | `MCFlowTable.cfg` | two lcores race for one key with different entries, and a create finds no entry while they are cached, held or in the limbo; the theorems cover every number |
| 2 lcores | same | races in this code are between two writers, or a writer and the holder of a pointer; more lcores are covered by the theorems |
| one limbo batch, passes of 2 | same | every delete that finds the batch in use joins it, the hard case; the theorems cover every number |
| at most 2 keys at a time, 1-2 slots, 2 lcores, by scenario | `MCSynScenarios.cfg`, `MCSynProxyClose.cfg` | the races are between two lcores on one entry, or between the holder of an old word and the slot's next connection |
| `MaxGen` 2, of which `Reuse` alone takes the second | `MCSynScenarios.cfg` | with 1 a slot is used again by the lcore that was already creating when it was freed, so old words and candidates meet a new connection; with 2 it passes on, the old connection ended and the new one in place, while another lcore admits a segment; more reuse repeats that |
| `MaxHalfOpen` 1, `MaxConnections` = slots | same | the limits are reached |
| rates 0, 1, 4, 10 with a tracked peak above 3 | `MCAnomaly*.cfg` | against a peak of 10 the three bands of the code: still high, between the ratios, below 30 %; 1 is a peak too small to track; `anomaly_cycle` and `anomaly_clear` use two rates |
| cool-down of 7 s, 2 s in `anomaly_clear` | same | the smallest for which the descent holds; the theorems cover every larger one |
| persistence 1-2, de-escalation after 2 cycles, detections LOW and CRITICAL | same | every branch, and descents through four levels |
| 2 sources, 1 position, 3 lcores, limit 1, window and expiry 0, times 1 and 2 | `MCConnLimits.cfg` | three lcores: two pass the test together while a third ends the window; two times: a check may be older than the window it meets, and every window can run out; one position: each add takes it from the other source |
| 2 lcores with fixed routes, 16 sequence numbers, idle 0-2, timeouts 0 and 1 | `MCFlowEntry*.cfg` | each direction of a handshake, a guess from outside and the server's retransmissions meet on different lcores; numbers wrap; both timeouts are passed |
| 2 slots, 2 keys, `ExportMax` 1, `MaxPackets` 1 | `MCPerIpFeatures.cfg` | a registration waits while both slots are used or in the limbo; of two slots one is left out; one packet before and one window after tells whether it is lost or doubled |

The flow table's model has no counter that grows, so nothing else is cut off. In
`ConnLimits` the clock stops at `MaxTime`; in `PerIpFeatures` packets beyond
`MaxPackets` on a slot are not counted; in `FlowEntry` the idle time stops at `Cap`,
beyond both timeouts.
In `SynProxy`, `MaxGen` bounds the generations: no segment that may create an
entry arrives once a slot has been used that often.
`AnomalyState` needs no bound of its own: its counters stop at the largest
value a test of the code tells apart.

## 8. What is not modelled

`PROJECT.json` lists every component with its status and reason. In short: the
parts of the plan that are not done; pure parsing, formatting and export;
floating-point estimators; code that is not in the engine's build (high
availability, tenants, hardening); the web backend and dashboard. Of the flow
table: rate limits, memory-pressure thresholds, timeouts scaled by occupancy and
statistics. `packet_ring_write` has no caller in the engine, `flow_table_clear`
is only reached through `layer1_factory_reset`, which nothing calls.

Only model-checked, not proved: liveness under fairness, which is out of the
prover's reach, namely `LimboDrains`, `StallEnds`, `HalfOpenEnds`, `SlotsReturn`,
`AttackEnds`, `LearningResumes` and `ClearReachesShared`. Every safety invariant
and action property of a passing run is proved. Hazards that no property covers yet are
listed in `PROJECT.json` with their reason: the interleaving of the stall check
with an unregistration, states of a closing flow that an older one overwrites, the
window checks of RST and FIN, the legitimate-source table, two of the shared memory
(policies, the feature copy), limbo batches that deletes keep joining, and
cool-downs of fewer than seven seconds.

## 9. Running it

    tlc -workers 2 -config MCFlowTable.cfg MCFlowTable
    tlapm FlowTableProofs.tla

The first takes a few minutes. `SynProxyProofs` is the longest proof, about five
minutes; the two modules on top of it take one or two more each.
