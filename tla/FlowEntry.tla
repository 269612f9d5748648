------------------------------- MODULE FlowEntry -------------------------------
(***************************************************************************)
(* One entry of the IPv4 flow table and the packets that change it: the     *)
(* TCP state machine and the counters of flow_table_update, the handshake   *)
(* the SYN proxy verified, the RST/FIN window, Stage 8b's admission in      *)
(* spoofed mode (layer1.c), aging and the claim of the emergency eviction.  *)
(*                                                                          *)
(* A step of a packet lcore is one access (or a run of accesses no other    *)
(* actor tells apart) to the entry; the two deletes hold the writer lock.   *)
(* Where entries come from and when they are reused is FlowTable's: here an *)
(* lcore that holds the entry of a deleted flow is done with it, because    *)
(* what it still writes there is read by nobody (HeldNotReused).            *)
(*                                                                          *)
(* Time is relative: idle counts the ticks since last_seen_tsc, up to Cap,  *)
(* and no tick passes during a pass of the aging.  What the other filters   *)
(* and a destination's modes decide is a choice of the step that asks.      *)
(***************************************************************************)
EXTENDS Integers, FiniteSets

CONSTANTS
  Lcores,               \* packet lcores
  Outside, Inside,      \* the unprotected and the protected host of the flow
  Segments,             \* TCP segments: [from, flags, seq, len, ack]
  Route,                \* what each lcore receives: pairs of a segment and a way
  Ways,                 \* how packets reach the entry: see Arrive
  SeqMod,               \* 2^32, the width of a sequence number
  RST_FIN_SEQ_WINDOW,
  idle_timeout, syn_timeout,  \* in ticks
  Cap,                  \* bound: where the idle time stops being told apart
  Evicts,               \* whether the emergency eviction runs
  None

Sides == {Outside, Inside}
Numbers == 0..(SeqMod - 1)
Flags == {"SYN", "ACK", "RST", "FIN"}
Segment == [from : Sides, flags : SUBSET Flags, seq : Numbers, len : Nat, ack : Numbers]

ASSUME FlowEntryAssumption ==
  /\ Outside # Inside
  /\ Segments \subseteq Segment /\ Route \in [Lcores -> SUBSET (Segments \X Ways)]
  /\ Ways \subseteq {"pipeline", "proof", "update", "count"}
  /\ SeqMod \in Nat \ {0} /\ RST_FIN_SEQ_WINDOW \in Nat
  /\ idle_timeout \in Nat /\ syn_timeout \in Nat /\ Cap \in Nat
  /\ Cap > idle_timeout /\ Cap > 6 * syn_timeout
  /\ Evicts \in BOOLEAN

VARIABLES
  flow,                 \* the entry: a FlowRecord, or None
  pc, seg, way,         \* what each lcore does with which segment
  current_state,        \* the state it loaded
  evict,                \* what the eviction has checked of the flow, or None
  age,                  \* the aging pass
  age_idle,             \* the idle time it computed under the lock
  idle,                 \* ticks since last_seen_tsc
  said, inside_spoke    \* history: the numbers the responder has sent; whether the
                        \* host inside has sent a segment of its own

packetVars == <<pc, seg, way, current_state>>
ageVars == <<age, age_idle>>
historyVars == <<said, inside_spoke>>
vars == <<flow, packetVars, evict, ageVars, idle, historyVars>>

HalfOpen == {"SYN_RECEIVED", "SYN_ACK_RECEIVED"}
InProgress == {"NEW"} \cup HalfOpen
Closing == {"FIN_WAIT_1", "FIN_WAIT_2", "CLOSE_WAIT", "CLOSING", "LAST_ACK"}
Ended == {"CLOSED", "RST"}
States == InProgress \cup {"ESTABLISHED", "TIME_WAIT"} \cup Closing \cup Ended

FlowRecord ==
  [state : States, initiator : Sides, acked : BOOLEAN, tracked : BOOLEAN,
   vouched : SUBSET Sides, seen : SUBSET Sides, ack_seen : SUBSET Sides,
   seq : [Sides -> Numbers], ack : [Sides -> Numbers]]

ASSUME NoneAssumption == None \notin Segment \cup FlowRecord

Other(side) == IF side = Outside THEN Inside ELSE Outside
Has(s, f) == f \in s.flags
SynAck(s) == {"SYN", "ACK"} \subseteq s.flags
PureSyn(s) == Has(s, "SYN") /\ ~Has(s, "ACK")
PureAck(s) == Has(s, "ACK") /\ ~Has(s, "SYN") /\ ~Has(s, "RST")

\* The number after the segment: a SYN and a FIN take one.
NextNumber(s) == (s.seq + s.len + (IF s.flags \cap {"SYN", "FIN"} # {} THEN 1 ELSE 0)) % SeqMod

\* A segment that opens or holds a connection of its sender.
OpensOrHolds(s) == PureAck(s) \/ (PureSyn(s) /\ ~Has(s, "RST"))

\* A create clears the entry, the sender of its packet becomes the initiator.
NewFlow(side) ==
  [state |-> "NEW", initiator |-> side, acked |-> FALSE, tracked |-> FALSE,
   vouched |-> {}, seen |-> {}, ack_seen |-> {},
   seq |-> [x \in Sides |-> 0], ack |-> [x \in Sides |-> 0]]

Init ==
  /\ flow = None
  /\ pc = [l \in Lcores |-> "idle"] /\ seg = [l \in Lcores |-> None]
  /\ way = [l \in Lcores |-> None] /\ current_state = [l \in Lcores |-> None]
  /\ evict = None
  /\ age = "idle" /\ age_idle = 0
  /\ idle = 0
  /\ said = {} /\ inside_spoke = FALSE

Goto(l, label) == pc' = [pc EXCEPT ![l] = label]

\* The packet is done with.
Finished(l) ==
  /\ Goto(l, "idle")
  /\ seg' = [seg EXCEPT ![l] = None] /\ way' = [way EXCEPT ![l] = None]
  /\ current_state' = [current_state EXCEPT ![l] = None]

Elsewhere == UNCHANGED <<evict, ageVars>>
NoEviction == evict = None
LockFree == evict = None /\ age # "state"

-----------------------------------------------------------------------------
(* Packets.                                                                  *)

\* A segment reaches the flow table on one of four ways:
\*   pipeline  Stage 11, or the outbound path: lookup or create, then update;
\*   proof     a connection the SYN proxy has verified (track_proxy_flow);
\*   update    a bypassed connection, on a flow that exists;
\*   count     an RST the proxy forwarded without ending its entry.
Receive(l, s, w, next) ==
  /\ pc[l] = "idle"
  /\ seg' = [seg EXCEPT ![l] = s] /\ way' = [way EXCEPT ![l] = w]
  /\ Goto(l, next)
  /\ UNCHANGED <<flow, current_state, idle, historyVars>> /\ Elsewhere

Arrive(l, s, w) ==
  /\ (w = "proof") => s.from = Outside
  /\ (w = "update") => (s.from = Outside \/ SynAck(s))
  /\ (w = "count") => Has(s, "RST")
  /\ Receive(l, s, w, "track")

VouchedBySender(s) == s.from
VouchedBy(s) == Other(s.from)

\* In spoofed mode Stage 8b asks the flow first, but for a SYN
\* (flow_table_vouches_for): a verified handshake, or a segment of its own
\* from the destination.
Vouch(l, s) ==
  /\ s.from = Outside /\ ~PureSyn(s) /\ flow # None
  /\ Receive(l, s, "pipeline", IF flow.acked \/ VouchedBy(s) \in flow.vouched
                                THEN "vouched" ELSE "vouch_state")

\* Or the segment completes the handshake: the state is loaded ...
AnyState(state) == TRUE
AfterSynAck(state) == state = "SYN_ACK_RECEIVED"

VouchState(l) ==
  /\ pc[l] = "vouch_state"
  /\ IF PureAck(seg[l]) /\ seg[l].from = flow.initiator /\ AfterSynAck(flow.state)
     THEN Goto(l, "vouch_ack") /\ UNCHANGED <<seg, way, current_state>>
     ELSE Finished(l)
  /\ UNCHANGED <<flow, idle, historyVars>> /\ Elsewhere

\* ... and then the responder's next sequence number.
VouchAck(l) ==
  /\ pc[l] = "vouch_ack"
  /\ IF seg[l].ack = flow.seq[Other(seg[l].from)]
     THEN Goto(l, "vouched") /\ UNCHANGED <<seg, way, current_state>>
     ELSE Finished(l)
  /\ UNCHANGED <<flow, idle, historyVars>> /\ Elsewhere

LooksUp(l) == pc[l] \in {"track", "vouched"}

\* A bypassed segment from outside is dropped here on a flow that is not verified.
Unverified(l) ==
  /\ LooksUp(l) /\ flow # None
  /\ way[l] = "update" /\ seg[l].from = Outside /\ ~flow.acked
  /\ Finished(l)
  /\ UNCHANGED <<flow, idle, historyVars>> /\ Elsewhere

\* No flow: it is created (under the writer lock), and stamped.
Create(l) ==
  /\ LooksUp(l) /\ flow = None
  /\ way[l] \in {"pipeline", "proof"} /\ LockFree
  /\ flow' = NewFlow(seg[l].from)
  /\ idle' = 0
  /\ said' = {} /\ inside_spoke' = FALSE
  /\ Goto(l, "count")
  /\ UNCHANGED <<seg, way, current_state>> /\ Elsewhere

\* No flow and none made: the table is full, or the way does not create one.
NotTracked(l) ==
  /\ LooksUp(l) /\ flow = None
  /\ Finished(l)
  /\ UNCHANGED <<flow, idle, historyVars>> /\ Elsewhere

\* The signed difference of two sequence numbers.
SignedDiff(n, m) ==
  LET d == (n - m) % SeqMod IN IF 2 * d >= SeqMod THEN d - SeqMod ELSE d
SeqInWindow(n, expected) ==
  /\ SignedDiff(n, expected) >= -RST_FIN_SEQ_WINDOW
  /\ SignedDiff(n, expected) <= RST_FIN_SEQ_WINDOW

\* flow_table_validate_rst_fin_flow: near the sender's next number, an RST
\* also near the peer's last ACK, once the peer has sent one.
PeerAcked(s) == Other(s.from) \in flow.ack_seen
OutOfWindow(s) ==
  LET near == SeqInWindow(s.seq, flow.seq[s.from])
      acked == PeerAcked(s) /\ SeqInWindow(s.seq, flow.ack[Other(s.from)])
  IN  flow.tracked /\ (\/ Has(s, "RST") /\ ~near /\ ~acked
                       \/ Has(s, "FIN") /\ ~near)

NeedsValidation(l) ==
  way[l] = "pipeline" /\ seg[l].from = Outside /\ seg[l].flags \cap {"RST", "FIN"} # {}

Validate(l) ==
  /\ LooksUp(l) /\ flow # None /\ NeedsValidation(l)
  /\ way' = [way EXCEPT ![l] = IF OutOfWindow(seg[l]) THEN "out" ELSE @]
  /\ Goto(l, "count")
  /\ UNCHANGED <<flow, seg, current_state, idle, historyVars>> /\ Elsewhere

\* The flow is found (created, or validated against) and the update begins.
Begins(l) ==
  \/ pc[l] = "count"
  \/ /\ LooksUp(l) /\ flow # None /\ ~NeedsValidation(l)
     /\ ~(way[l] = "update" /\ seg[l].from = Outside /\ ~flow.acked)

\* The rate limit, which comes before the update, drops the packet.
RateLimited(l) ==
  /\ Begins(l) /\ way[l] \in {"pipeline", "out"} /\ seg[l].from = Outside
  /\ Finished(l)
  /\ UNCHANGED <<flow, idle, historyVars>> /\ Elsewhere

\* flow_tcp_segment_vouches: the sender opens a connection, or holds one.
Vouches(s) == ~Has(s, "RST") /\ (PureSyn(s) \/ PureAck(s))

\* A SYN-ACK does not extend the life of a flow that is not verified.
AlwaysRefreshes(s) == TRUE
Refreshes(s) == ~(SynAck(s) /\ ~flow.acked)

\* flow_table_count_packet, in place of an update: last_seen_tsc and the
\* direction's counters.
CountPacket(l) ==
  /\ Begins(l) /\ way[l] \in {"count", "out"}
  /\ idle' = 0
  /\ flow' = [flow EXCEPT !.seen = @ \cup {seg[l].from}]
  /\ Finished(l)
  /\ UNCHANGED historyVars /\ Elsewhere

\* The update counts the packet with its TCP flags, loads the state, and notes
\* that the sender vouches.  (No other step of the model comes between the
\* stores of the counters and the load of the state and tells them apart.)
Load(l) ==
  LET s == seg[l] IN
  /\ Begins(l) /\ way[l] \in {"pipeline", "proof", "update"}
  /\ idle' = IF Refreshes(s) THEN 0 ELSE idle
  /\ current_state' = [current_state EXCEPT ![l] = flow.state]
  /\ flow' = [flow EXCEPT !.seen = @ \cup {s.from},
                !.ack_seen = IF Has(s, "ACK") THEN @ \cup {s.from} ELSE @,
                !.vouched = IF Vouches(s) THEN @ \cup {s.from} ELSE @]
  /\ said' = IF s.from = flow.initiator THEN said ELSE said \cup {NextNumber(s)}
  /\ inside_spoke' = (inside_spoke \/ (s.from = Inside /\ OpensOrHolds(s)))
  /\ Goto(l, "seq") /\ UNCHANGED <<seg, way>> /\ Elsewhere

\* The transition of the state machine.
NextState(st, s, by_initiator) ==
  LET fin == Has(s, "FIN")
      ack == Has(s, "ACK")
  IN CASE st = "NEW" /\ PureSyn(s) /\ by_initiator -> "SYN_RECEIVED"
       [] st = "SYN_RECEIVED" /\ SynAck(s) /\ ~by_initiator -> "SYN_ACK_RECEIVED"
       [] st \in HalfOpen /\ ack /\ ~Has(s, "SYN") /\ by_initiator -> "ESTABLISHED"
       [] st = "ESTABLISHED" /\ fin /\ by_initiator -> "FIN_WAIT_1"
       [] st = "ESTABLISHED" /\ fin /\ ~by_initiator -> "CLOSE_WAIT"
       [] st = "FIN_WAIT_1" /\ fin /\ ~by_initiator -> "CLOSING"
       [] st = "FIN_WAIT_1" /\ ~fin /\ ack /\ ~by_initiator -> "FIN_WAIT_2"
       [] st = "FIN_WAIT_2" /\ fin /\ ~by_initiator -> "TIME_WAIT"
       [] st = "CLOSE_WAIT" /\ fin /\ by_initiator -> "LAST_ACK"
       [] st = "CLOSING" /\ ack -> "TIME_WAIT"
       [] st = "LAST_ACK" /\ ack -> "CLOSED"
       [] OTHER -> st

ByInitiator(l) == seg[l].from = flow.initiator
Target(l) == IF Has(seg[l], "RST") THEN "RST"
             ELSE NextState(current_state[l], seg[l], ByInitiator(l))

\* What follows the update: the handshake is marked verified, or nothing.
Updated(l) ==
  IF way[l] = "proof"
  THEN Goto(l, "mark") /\ UNCHANGED <<seg, way, current_state>>
  ELSE Finished(l)

\* The numbers of the segment are stored; a segment that moves no state ends here.
StoreSeq(l) ==
  LET s == seg[l] IN
  /\ pc[l] = "seq"
  /\ flow' = [flow EXCEPT !.seq[s.from] = NextNumber(s), !.ack[s.from] = s.ack,
                !.tracked = @ \/ s.len > 0 \/ s.flags \cap {"SYN", "ACK", "FIN"} # {}]
  /\ CASE /\ current_state[l] = "SYN_ACK_RECEIVED" /\ PureAck(s) /\ ByInitiator(l)
            -> Goto(l, "flag") /\ UNCHANGED <<seg, way, current_state>>
       [] Target(l) = current_state[l] /\ ~Has(s, "RST") -> Updated(l)
       [] OTHER -> Goto(l, "store") /\ UNCHANGED <<seg, way, current_state>>
  /\ UNCHANGED <<idle, historyVars>> /\ Elsewhere

\* The initiator acknowledges the responder's next number: verified, before
\* the state shows it.
AcksAnything(s) == TRUE
AcksResponder(s) == s.ack = flow.seq[Other(s.from)]

SetVerified(l) ==
  /\ pc[l] = "flag"
  /\ flow' = [flow EXCEPT !.acked = @ \/ AcksResponder(seg[l])]
  /\ Goto(l, "store")
  /\ UNCHANGED <<seg, way, current_state, idle, historyVars>> /\ Elsewhere

\* The new state, from the one loaded before, is stored whatever it is by now.
StoreState(l) ==
  /\ pc[l] = "store"
  /\ flow' = [flow EXCEPT !.state = Target(l)]
  /\ Updated(l)
  /\ UNCHANGED <<idle, historyVars>> /\ Elsewhere

\* flow_table_mark_handshake_verified, unless it is: the flag first ...
MarkVerified(l) ==
  /\ pc[l] = "mark"
  /\ flow' = [flow EXCEPT !.acked = TRUE]
  /\ IF flow.acked THEN Finished(l) ELSE Goto(l, "cas") /\ UNCHANGED <<seg, way, current_state>>
  /\ UNCHANGED <<idle, historyVars>> /\ Elsewhere

\* ... then the state, by compare-and-swap from a handshake in progress.
MarkEstablished(l) ==
  /\ pc[l] = "cas"
  /\ flow' = [flow EXCEPT !.state = IF @ \in InProgress THEN "ESTABLISHED" ELSE @]
  /\ Finished(l)
  /\ UNCHANGED <<idle, historyVars>> /\ Elsewhere

-----------------------------------------------------------------------------
(* Deletes.                                                                  *)

Holding == {"vouch_state", "vouch_ack", "count", "seq", "flag", "store", "mark", "cas"}

\* The flow leaves the hash; what its holders still do concerns nobody.
Deleted ==
  LET kept(l) == pc[l] \notin Holding IN
  /\ flow' = None
  /\ pc' = [l \in Lcores |-> IF kept(l) THEN pc[l] ELSE "idle"]
  /\ seg' = [l \in Lcores |-> IF kept(l) THEN seg[l] ELSE None]
  /\ way' = [l \in Lcores |-> IF kept(l) THEN way[l] ELSE None]
  /\ current_state' = [l \in Lcores |-> IF kept(l) THEN current_state[l] ELSE None]
  /\ idle' = 0
  /\ said' = {} /\ inside_spoke' = FALSE

Bidirectional == flow.seen = Sides

\* flow_evict_protected.
Protected == flow.state = "ESTABLISHED" /\ flow.acked /\ Bidirectional

\* Under the writer lock a candidate is checked ...
EvictCheck ==
  /\ Evicts /\ LockFree /\ flow # None /\ ~Protected
  /\ evict' = [state |-> flow.state, acked |-> flow.acked]
  /\ UNCHANGED <<flow, packetVars, ageVars, idle, historyVars>>

\* ... and claimed: a compare-and-swap of the state it was checked in.
StateUnmoved == flow.state = evict.state

EvictClaim ==
  /\ evict # None
  /\ evict' = None
  /\ IF StateUnmoved
     THEN Deleted /\ age' = "idle" /\ age_idle' = 0
     ELSE UNCHANGED <<flow, packetVars, ageVars, idle, historyVars>>

\* The timeout of flow_age_expired.
Timeout ==
  CASE flow.state \in Ended -> 0
    [] flow.state = "TIME_WAIT" -> 6 * syn_timeout
    [] flow.state \in Closing -> 4 * syn_timeout
    [] flow.state \in HalfOpen \/ (flow.state = "NEW" /\ ~Bidirectional) -> syn_timeout
    [] OTHER -> idle_timeout

AgeKeeps == age' = "idle" /\ age_idle' = 0

\* A pass reads its clock and finds the flow expired, without the lock.
AgeScan ==
  /\ age = "idle" /\ flow # None
  /\ idle > Timeout
  /\ age' = "lock"
  /\ UNCHANGED <<flow, packetVars, evict, age_idle, idle, historyVars>>

\* Under the lock it must still be expired: last_seen_tsc is loaded ...
AgeRecheck ==
  /\ age = "lock" /\ evict = None
  /\ age' = "state" /\ age_idle' = idle
  /\ UNCHANGED <<flow, packetVars, evict, idle, historyVars>>

\* ... then the state.
AgeDelete ==
  /\ age = "state"
  /\ IF age_idle > Timeout
     THEN Deleted
     ELSE UNCHANGED <<flow, packetVars, idle, historyVars>>
  /\ AgeKeeps /\ UNCHANGED evict

Tick ==
  /\ flow # None /\ idle < Cap /\ age = "idle"
  /\ idle' = idle + 1
  /\ UNCHANGED <<flow, packetVars, evict, age, age_idle, historyVars>>

-----------------------------------------------------------------------------
Step(l) ==
  \/ \E p \in Route[l] : Arrive(l, p[1], p[2]) \/ (p[2] = "pipeline" /\ Vouch(l, p[1]))
  \/ VouchState(l) \/ VouchAck(l)
  \/ Unverified(l) \/ Create(l) \/ NotTracked(l) \/ Validate(l) \/ RateLimited(l)
  \/ CountPacket(l) \/ Load(l) \/ StoreSeq(l) \/ SetVerified(l) \/ StoreState(l)
  \/ MarkVerified(l) \/ MarkEstablished(l)

Age == AgeScan \/ AgeRecheck \/ AgeDelete

Next ==
  \/ \E l \in Lcores : Step(l)
  \/ EvictCheck \/ EvictClaim \/ Age \/ Tick

Spec == Init /\ [][Next]_vars

\* The maintenance runs its passes, the eviction leaves its lock, time passes.
\* Nothing is assumed of packets: none need arrive, and none need be finished.
FairSpec == Spec /\ WF_vars(Age) /\ WF_vars(EvictClaim) /\ WF_vars(Tick)

-----------------------------------------------------------------------------
PCs == Holding \cup {"idle", "track", "vouched"}

\* The type invariant; a holder has a flow to work on, and a delete that holds
\* the lock too.
TypeOK ==
  /\ flow \in FlowRecord \cup {None}
  /\ pc \in [Lcores -> PCs]
  /\ seg \in [Lcores -> Segments \cup {None}]
  /\ way \in [Lcores -> Ways \cup {"out", None}]
  /\ current_state \in [Lcores -> States \cup {None}]
  /\ evict \in [state : States, acked : BOOLEAN] \cup {None}
  /\ age \in {"idle", "lock", "state"} /\ age_idle \in 0..Cap
  /\ idle \in 0..Cap
  /\ said \subseteq Numbers /\ inside_spoke \in BOOLEAN
  /\ \A l \in Lcores : pc[l] \in Holding => flow # None
  /\ evict # None \/ age = "state" => flow # None

Verified == flow # None /\ flow.acked

\* A flow's handshake becomes verified (flow_table_update_internal,
\* flow_table_mark_handshake_verified) only by the SYN proxy's word, or by an
\* acknowledgement of a number the responder has really sent in this flow,
\* however the updates of both directions interleave.
VerifiedWasAnswered ==
  [][~Verified /\ Verified' =>
       \E l \in Lcores : \/ pc[l] = "mark" /\ way[l] = "proof"
                         \/ /\ pc[l] = "flag" /\ seg[l].from = flow.initiator
                            /\ seg[l].ack \in said]_vars

\* Stage 8b (layer1_spoofed_tcp_admit) lets a segment pass on the word of the
\* flow only if the flow is verified, or the host inside has itself sent a
\* segment that opens or holds a connection, or a number that the segment
\* acknowledges: what comes from outside alone never makes a flow vouch.
OutsideVouchesNothing ==
  [][\A l \in Lcores :
       pc[l] # "vouched" /\ pc'[l] = "vouched" =>
         flow.acked \/ inside_spoke \/ seg'[l].ack \in said]_vars

\* A half-open flow that is not verified and gets no packet any more but
\* SYN-ACKs goes, or moves on: the SYN-ACKs that a server retransmits to the
\* source of a spoofed SYN do not keep its flow (flow_table_update_internal,
\* flow_age_expired).
HalfOpenFlow == flow # None /\ flow.state \in HalfOpen /\ ~flow.acked
OtherPacket == \E l \in Lcores : (CountPacket(l) \/ Load(l)) /\ ~SynAck(seg[l])
HalfOpenEnds == []<><<OtherPacket>>_vars \/ []<>~HalfOpenFlow

Claims == evict # None /\ flow # None /\ flow' = None /\ evict' = None

\* "a handshake that completes in between changes the state, the claim fails
\* and the flow is kept" (flow_table.c:2400-2401).
ClaimSeesVerification == [][Claims /\ Protected => evict.acked]_vars
=============================================================================
