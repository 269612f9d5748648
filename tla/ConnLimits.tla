------------------------------ MODULE ConnLimits ------------------------------
(***************************************************************************)
(* Connection limits per source (layer1/tables/connection_limits.c): the   *)
(* packet lcores look a source up without a lock, add it under the         *)
(* writer's lock and count on its tracker with atomics; the maintenance    *)
(* deletes expired sources, and a deleted source's position waits in the   *)
(* limbo until every packet lcore has reported a quiescent state.          *)
(*                                                                         *)
(* One step is one access of a tracker, or one section under the lock.     *)
(* The limbo is FlowTable's: here a position waits for a set of lcores.    *)
(* All lcores read one clock, each when its check begins.                  *)
(***************************************************************************)
EXTENDS Integers, FiniteSets

CONSTANTS
    IPs,                \* sources
    Positions,          \* positions of the hash, one tracker each
    Lcores,             \* packet lcores: the registered readers
    Maint,              \* the thread of the cleanup
    Max,                \* config.max_connections_per_ip
    Window,             \* config.time_window_sec, in ticks
    Expire,             \* config.cleanup_interval_sec, in ticks
    CleanupBatch,       \* deletions of one cleanup pass (256)
    ReclaimAddMax,      \* CONNLIM_RECLAIM_ADD_MAX
    CountMod,           \* 2^32, the width of a tracker's counters
    ClockMod,           \* 2^64, the width of a clock difference
    Closes,             \* whether connection_limits_update is called
    Start, MaxTime,     \* the bounds of the clock
    None

ASSUME ConnLimitsAssumption ==
    /\ IsFiniteSet(Lcores) /\ Maint \notin Lcores /\ None \notin Lcores \cup {Maint} \cup Positions
    /\ IsFiniteSet(Positions) /\ None \notin IPs \X Positions
    /\ Max \in Nat \ {0}             \* layer1_config_validate refuses 0
    /\ Window \in Nat /\ Expire \in Nat /\ CleanupBatch \in Nat
    /\ ReclaimAddMax \in Nat /\ Closes \in BOOLEAN
    /\ CountMod \in Nat /\ CountMod > Max + Cardinality(Lcores) + 1
    /\ Start \in Nat /\ MaxTime \in Nat /\ ClockMod \in Nat
    /\ Window < Start /\ Start <= MaxTime /\ MaxTime < ClockMod

VARIABLES
    conn_hash,          \* the source's position, None if not tracked
    free_slots,         \* positions the hash may hand out
    limbo, waits,       \* positions waiting, and the lcores each waits for
    tracker,            \* active, connections_last_window, last_update, window_start
    conn_wlock,         \* who holds the writer's lock
    pc, ip, pos, clock, seen_start,             \* a check on each lcore
    cleanup, cleanup_clock, to_delete, checked, retired,   \* the cleanup
    now

tableVars == <<conn_hash, free_slots, limbo, waits>>
checkVars == <<pc, ip, pos, clock, seen_start>>
cleanupVars == <<cleanup, cleanup_clock, to_delete, checked, retired>>
vars == <<tableVars, tracker, conn_wlock, checkVars, cleanupVars, now>>

Clear == [active |-> 0, conns |-> 0, update |-> 0, start |-> 0]

Init ==
    /\ conn_hash = [i \in IPs |-> None] /\ free_slots = Positions
    /\ limbo = {} /\ waits = [p \in Positions |-> {}]
    /\ tracker = [p \in Positions |-> Clear]
    /\ conn_wlock = None
    /\ pc = [l \in Lcores |-> "idle"] /\ ip = [l \in Lcores |-> None]
    /\ pos = [l \in Lcores |-> None]
    /\ clock = [l \in Lcores |-> 0] /\ seen_start = [l \in Lcores |-> 0]
    /\ cleanup = "idle" /\ cleanup_clock = 0 /\ to_delete = {}
    /\ checked = None /\ retired = {}
    /\ now = Start

Goto(l, label) == pc' = [pc EXCEPT ![l] = label]

\* The check (or update) ends; its lcore's registers are no longer used.
Return(l) ==
    /\ Goto(l, "idle") /\ pos' = [pos EXCEPT ![l] = None]
    /\ ip' = [ip EXCEPT ![l] = None]
    /\ clock' = [clock EXCEPT ![l] = 0] /\ seen_start' = [seen_start EXCEPT ![l] = 0]

Tick == now < MaxTime /\ now' = now + 1
        /\ UNCHANGED <<tableVars, tracker, conn_wlock, checkVars, cleanupVars>>

\* A packet lcore reports a quiescent state between two bursts.
Quiesce(l) ==
    /\ pc[l] = "idle" /\ \E p \in limbo : l \in waits[p]
    /\ waits' = [p \in Positions |-> waits[p] \ {l}]
    /\ UNCHANGED <<conn_hash, free_slots, limbo, tracker, conn_wlock, checkVars, cleanupVars, now>>

-----------------------------------------------------------------------------
(* Reclamation.                                                            *)

ReadyAtOnce == limbo
Ready == {p \in limbo : waits[p] = {}}

\* connlim_reclaim_locked of the positions P: their trackers are cleared and
\* the hash may hand them out.
Reclaimed(P, f, m, t) ==
    /\ f = free_slots \cup P /\ m = limbo \ P
    /\ t = [p \in Positions |-> IF p \in P THEN Clear ELSE tracker[p]]

\* What the next reclamation of at most n positions takes.
Batches(n) ==
    {P \in SUBSET Ready : Cardinality(P) = IF Cardinality(Ready) < n
                                           THEN Cardinality(Ready) ELSE n}
-----------------------------------------------------------------------------
(* connection_limits_check.                                                *)

\* The clock is read and the source is looked up.
Check(l, i) ==
    /\ pc[l] = "idle"
    /\ ip' = [ip EXCEPT ![l] = i] /\ clock' = [clock EXCEPT ![l] = now]
    /\ pos' = [pos EXCEPT ![l] = conn_hash[i]]
    /\ Goto(l, IF conn_hash[i] = None THEN "missed" ELSE "hit")
    /\ UNCHANGED <<tableVars, tracker, conn_wlock, seen_start, cleanupVars, now>>

\* connlim_add: another lcore may have added the source since the lookup.
AddedByAnother(l) ==
    /\ pc[l] = "missed" /\ conn_wlock = None /\ conn_hash[ip[l]] # None
    /\ pos' = [pos EXCEPT ![l] = conn_hash[ip[l]]] /\ Goto(l, "hit")
    /\ UNCHANGED <<tableVars, tracker, conn_wlock, ip, clock, seen_start, cleanupVars, now>>

\* connlim_add: the key is added at a free position; when that fails (no free
\* position, or no room in its buckets) positions whose grace period is over
\* are taken back and the add is tried again; then it fails open.
AddAt(l, free) ==
    \E p \in free :
       /\ conn_hash' = [conn_hash EXCEPT ![ip[l]] = p] /\ free_slots' = free \ {p}
       /\ pos' = [pos EXCEPT ![l] = p] /\ conn_wlock' = l /\ Goto(l, "open")
       /\ UNCHANGED <<waits, ip, clock, seen_start, cleanupVars, now>>

AddKey(l) ==
    /\ pc[l] = "missed" /\ conn_wlock = None /\ conn_hash[ip[l]] = None
    /\ \/ AddAt(l, free_slots) /\ UNCHANGED <<limbo, tracker>>
       \/ \E P \in Batches(ReclaimAddMax) \ {{}} :
             \E f \in {free_slots \cup P} :
                /\ Reclaimed(P, f, limbo', tracker')
                /\ \/ AddAt(l, f)
                   \/ /\ Return(l) /\ free_slots' = f
                      /\ UNCHANGED <<conn_hash, waits, conn_wlock, cleanupVars, now>>
       \/ /\ Ready = {} /\ Return(l)
          /\ UNCHANGED <<tableVars, tracker, conn_wlock, cleanupVars, now>>

\* connlim_add: the first window starts, unless another lcore, which finds the
\* source from the add on, has started it.
OpenWindow(l) ==
    /\ pc[l] = "open"
    /\ tracker' = [tracker EXCEPT ![pos[l]].start = IF @ = 0 THEN clock[l] ELSE @]
    /\ Goto(l, "count")
    /\ UNCHANGED <<tableVars, conn_wlock, ip, pos, clock, seen_start, cleanupVars, now>>

\* A window that has run out as of this check's clock; one that another lcore
\* started after that clock is current.
WindowOverWrapped(t, ws) == (t - ws) % ClockMod > Window
WindowOver(t, ws) == t > ws /\ (t - ws) % ClockMod > Window

LoadStart(l) ==
    /\ pc[l] = "hit"
    /\ IF WindowOver(clock[l], tracker[pos[l]].start)
       THEN seen_start' = [seen_start EXCEPT ![l] = tracker[pos[l]].start] /\ Goto(l, "swap")
       ELSE Goto(l, "limit") /\ UNCHANGED seen_start
    /\ UNCHANGED <<tableVars, tracker, conn_wlock, ip, pos, clock, cleanupVars, now>>

\* One of the lcores that saw the window run out starts the next one, and then
\* clears its count.
SwapStart(l) ==
    /\ pc[l] = "swap"
    /\ IF tracker[pos[l]].start = seen_start[l]
       THEN tracker' = [tracker EXCEPT ![pos[l]].start = clock[l]] /\ Goto(l, "zero")
       ELSE Goto(l, "limit") /\ UNCHANGED tracker
    /\ seen_start' = [seen_start EXCEPT ![l] = 0]
    /\ UNCHANGED <<tableVars, conn_wlock, ip, pos, clock, cleanupVars, now>>

ZeroWindow(l) ==
    /\ pc[l] = "zero"
    /\ tracker' = [tracker EXCEPT ![pos[l]].conns = 0] /\ Goto(l, "limit")
    /\ UNCHANGED <<tableVars, conn_wlock, ip, pos, clock, seen_start, cleanupVars, now>>

AtLimitLate(n) == n > Max
AtLimit(n) == n >= Max

TestLimit(l) ==
    /\ pc[l] = "limit"
    /\ IF AtLimit(tracker[pos[l]].conns) THEN Return(l)
       ELSE Goto(l, "count") /\ UNCHANGED <<ip, pos, clock, seen_start>>
    /\ UNCHANGED <<tableVars, tracker, conn_wlock, cleanupVars, now>>

\* The adds of active_connections and connections_last_window.
Counted(t) == [active |-> (t.active + 1) % CountMod, conns |-> (t.conns + 1) % CountMod,
               update |-> t.update, start |-> t.start]

Count(l) ==
    /\ pc[l] = "count"
    /\ tracker' = [tracker EXCEPT ![pos[l]] = Counted(tracker[pos[l]])]
    /\ Goto(l, "stamp")
    /\ UNCHANGED <<tableVars, conn_wlock, ip, pos, clock, seen_start, cleanupVars, now>>

\* The connection is allowed; an lcore that added the source unlocks.
StampLocked(l) ==
    /\ pc[l] = "stamp"
    /\ tracker' = [tracker EXCEPT ![pos[l]].update = clock[l]]
    /\ Return(l)
    /\ UNCHANGED <<tableVars, conn_wlock, cleanupVars, now>>

Stamp(l) ==
    /\ pc[l] = "stamp"
    /\ tracker' = [tracker EXCEPT ![pos[l]].update = clock[l]]
    /\ conn_wlock' = IF conn_wlock = l THEN None ELSE conn_wlock
    /\ Return(l)
    /\ UNCHANGED <<tableVars, cleanupVars, now>>

-----------------------------------------------------------------------------
(* connection_limits_update, which nothing in the engine calls: when the   *)
(* connection closed, its count is loaded and then decremented.            *)

Report(l, i) ==
    /\ Closes /\ pc[l] = "idle" /\ conn_hash[i] # None
    /\ ip' = [ip EXCEPT ![l] = i] /\ pos' = [pos EXCEPT ![l] = conn_hash[i]]
    /\ \/ tracker[conn_hash[i]].active > 0 /\ Goto(l, "close")
       \/ Goto(l, "touch")
    /\ UNCHANGED <<tableVars, tracker, conn_wlock, clock, seen_start, cleanupVars, now>>

CloseActive(l) ==
    /\ pc[l] = "close"
    /\ tracker' = [tracker EXCEPT ![pos[l]].active = (@ - 1) % CountMod] /\ Goto(l, "touch")
    /\ UNCHANGED <<tableVars, conn_wlock, ip, pos, clock, seen_start, cleanupVars, now>>

Touch(l) ==
    /\ pc[l] = "touch"
    /\ tracker' = [tracker EXCEPT ![pos[l]].update = now] /\ Return(l)
    /\ UNCHANGED <<tableVars, conn_wlock, cleanupVars, now>>
-----------------------------------------------------------------------------
(* connection_limits_cleanup_expired.                                      *)

\* No active connection, and idle for longer than Expire as of the cleanup's
\* clock; a tracker stamped after that clock is not idle.
Expired(t, as_of) ==
    /\ tracker[t].active = 0
    /\ tracker[t].update <= as_of /\ as_of - tracker[t].update > Expire

\* Positions deleted earlier are taken back, the clock is read, and the scan
\* collects expired keys with the positions it saw them at (one step: each is
\* checked again).
CleanupScan ==
    /\ cleanup = "idle" /\ conn_wlock = None
    /\ Reclaimed(Ready, free_slots', limbo', tracker')
    /\ cleanup_clock' = now
    /\ LET found == {i \in IPs : conn_hash[i] # None /\ Expired(conn_hash[i], now)}
       IN  \E F \in SUBSET found :
              /\ Cardinality(F) = IF Cardinality(found) < CleanupBatch
                                  THEN Cardinality(found) ELSE CleanupBatch
              /\ to_delete' = {<<i, conn_hash[i]>> : i \in F}
    /\ cleanup' = "deletes"
    /\ UNCHANGED <<conn_hash, waits, conn_wlock, checkVars, checked, retired, now>>

\* Each collected key is checked again under the writer's lock ...
StillThere(k) == conn_hash[k[1]] = k[2] /\ Expired(k[2], cleanup_clock)

Recheck(k) ==
    /\ cleanup = "deletes" /\ checked = None /\ k \in to_delete /\ conn_wlock = None
    /\ to_delete' = to_delete \ {k}
    /\ IF StillThere(k) THEN conn_wlock' = Maint /\ checked' = k
       ELSE UNCHANGED <<conn_wlock, checked>>
    /\ UNCHANGED <<tableVars, tracker, checkVars, cleanup, cleanup_clock, retired, now>>

\* ... and deleted; its position stays with the cleanup.
Delete ==
    /\ checked # None
    /\ conn_hash' = [conn_hash EXCEPT ![checked[1]] = None]
    /\ retired' = retired \cup {checked[2]}
    /\ conn_wlock' = None /\ checked' = None
    /\ UNCHANGED <<free_slots, limbo, waits, tracker, checkVars, cleanup, cleanup_clock,
                   to_delete, now>>

\* connlim_retire: the grace period of the deleted positions starts.
WaitsFor == Lcores
Retire ==
    /\ cleanup = "deletes" /\ checked = None /\ to_delete = {}
    /\ limbo' = limbo \cup retired
    /\ waits' = [p \in Positions |-> IF p \in retired THEN WaitsFor ELSE waits[p]]
    /\ retired' = {} /\ cleanup' = "reclaim"
    /\ UNCHANGED <<conn_hash, free_slots, tracker, conn_wlock, checkVars, cleanup_clock,
                   to_delete, checked, now>>

\* connlim_reclaim_all, once more.
ReclaimAll ==
    /\ cleanup = "reclaim" /\ conn_wlock = None
    /\ Reclaimed(Ready, free_slots', limbo', tracker')
    /\ cleanup' = "idle" /\ cleanup_clock' = 0
    /\ UNCHANGED <<conn_hash, waits, conn_wlock, checkVars, to_delete, checked, retired, now>>

-----------------------------------------------------------------------------
Keys == IPs \X Positions

CheckStep(l) ==
    \/ \E i \in IPs : Check(l, i)
    \/ AddedByAnother(l) \/ AddKey(l) \/ OpenWindow(l)
    \/ LoadStart(l) \/ SwapStart(l) \/ ZeroWindow(l) \/ TestLimit(l)
    \/ Count(l) \/ Stamp(l)

ReportStep(l) == (\E i \in IPs : Report(l, i)) \/ CloseActive(l) \/ Touch(l)

CleanupStep == CleanupScan \/ (\E k \in Keys : Recheck(k)) \/ Delete \/ Retire \/ ReclaimAll

Next == \/ \E l \in Lcores : CheckStep(l) \/ ReportStep(l) \/ Quiesce(l)
        \/ CleanupStep \/ Tick

Spec == Init /\ [][Next]_vars

-----------------------------------------------------------------------------
(* Properties.                                                             *)

Labels == {"idle", "missed", "open", "hit", "swap", "zero", "limit", "count",
           "stamp", "close", "touch"}
Times == 0 .. MaxTime
Trackers == [active : 0 .. CountMod - 1, conns : 0 .. CountMod - 1, update : Times, start : Times]

Uses(l) == pc[l] \notin {"idle", "missed"}

\* Every variable has its type, and the writer's lock is held by an lcore that
\* sets up a source it added, or by the cleanup between a check and a delete.
TypeOK ==
    /\ conn_hash \in [IPs -> Positions \cup {None}] /\ free_slots \subseteq Positions
    /\ limbo \subseteq Positions /\ waits \in [Positions -> SUBSET Lcores]
    /\ tracker \in [Positions -> Trackers]
    /\ conn_wlock \in Lcores \cup {Maint, None}
    /\ pc \in [Lcores -> Labels] /\ ip \in [Lcores -> IPs \cup {None}]
    /\ pos \in [Lcores -> Positions \cup {None}]
    /\ clock \in [Lcores -> Times] /\ seen_start \in [Lcores -> Times]
    /\ cleanup \in {"idle", "deletes", "reclaim"} /\ cleanup_clock \in Times
    /\ to_delete \subseteq Keys /\ checked \in Keys \cup {None} /\ retired \subseteq Positions
    /\ now \in Start .. MaxTime
    /\ conn_wlock \in Lcores => pc[conn_wlock] \in {"open", "count", "stamp"}
    /\ conn_wlock = Maint <=> checked # None
    /\ \A l \in Lcores : pos[l] # None <=> Uses(l)

Mapped(p) == \E i \in IPs : conn_hash[i] = p

\* "Reused only after every registered flow table reader has reported a
\* quiescent state since the delete" (connection_limits.h): the tracker an
\* lcore counts on is its own source's, or a deleted one nobody has got yet;
\* and "its tracker is clear" (connlim_add): a position the hash may hand out
\* carries nothing over from the source that had it.
OwnTracker ==
    /\ \A l \in Lcores : Uses(l) =>
          \/ conn_hash[ip[l]] = pos[l]
          \/ pos[l] \in retired
          \/ pos[l] \in limbo /\ l \in waits[pos[l]]
    /\ \A i, j \in IPs : conn_hash[i] = conn_hash[j] /\ conn_hash[i] # None => i = j
    /\ \A p \in free_slots : ~Mapped(p) /\ p \notin limbo \cup retired /\ tracker[p] = Clear

\* "That window is current (now_tsc - window_start would wrap and reset it
\* again, losing its connections)" (connection_limits_check): a window is only
\* ever followed by a later one, until its position is taken back.
WindowForward ==
    [][\A p \in Positions : tracker'[p].start # tracker[p].start =>
          \/ tracker'[p].start > tracker[p].start
          \/ p \in limbo /\ p \notin limbo']_vars
=============================================================================
