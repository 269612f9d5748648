--------------------------- MODULE FlowEntryProofs ---------------------------
(***************************************************************************)
(* Proofs about FlowEntry, for any segments, routes, lcores and timeouts.  *)
(*                                                                         *)
(* The inductive invariant says what the registers of an lcore hold at     *)
(* each pc (Registers), that a flow past a SYN-ACK knows a number the      *)
(* responder has really sent, as does every lcore that works with what it  *)
(* loaded before (Answers), and what the host inside vouches for (Spoke).  *)
(***************************************************************************)
EXTENDS FlowEntry, TLAPS

Updating == {"seq", "flag", "store"}

Registers ==
  \A l \in Lcores :
    /\ pc[l] # "idle" => seg[l] \in Segments /\ way[l] \in Ways \cup {"out"}
    /\ pc[l] \in {"vouch_state", "vouch_ack", "vouched"} => way[l] = "pipeline"
    /\ pc[l] \in Updating =>
         current_state[l] \in States /\ way[l] \in {"pipeline", "proof", "update"}
    /\ pc[l] \in {"mark", "cas"} => way[l] = "proof"

\* The responder's next number, as the flow has it, is one it has sent.
Responder == Other(flow.initiator)
Answered == flow.seq[Responder] \in said

AnswersOf(l) ==
  /\ pc[l] \in Updating /\ current_state[l] = "SYN_ACK_RECEIVED" => Answered
  /\ pc[l] \in Updating /\ seg[l].from # flow.initiator => NextNumber(seg[l]) \in said
  /\ pc[l] = "store" /\ seg[l].from # flow.initiator => Answered
  /\ pc[l] = "flag" => seg[l].from = flow.initiator /\ Answered
  /\ pc[l] = "vouch_ack" => seg[l].from = flow.initiator /\ Answered

Answers ==
  flow # None => /\ flow.state = "SYN_ACK_RECEIVED" => Answered
                 /\ \A l \in Lcores : AnswersOf(l)

Spoke == flow # None /\ Inside \in flow.vouched => inside_spoke

IInv == TypeOK /\ Registers /\ Answers /\ Spoke

-----------------------------------------------------------------------------
LEMMA SegmentType ==
  ASSUME NEW s \in Segments
  PROVE  /\ s \in Segment /\ s.from \in Sides /\ s.ack \in Numbers
         /\ NextNumber(s) \in Numbers
<1>1. s \in Segment
  BY FlowEntryAssumption
<1>2. /\ s.from \in Sides /\ s.ack \in Numbers /\ s.seq \in Int /\ s.len \in Int
  BY <1>1, FlowEntryAssumption DEF Segment, Numbers
<1>3. NextNumber(s) \in Numbers
  <2> DEFINE n == s.seq + s.len + (IF s.flags \cap {"SYN", "FIN"} # {} THEN 1 ELSE 0)
  <2>1. n \in Int
    BY <1>2
  <2>2. n % SeqMod \in 0 .. SeqMod - 1
    BY <2>1, FlowEntryAssumption
  <2>3. QED BY <2>2 DEF NextNumber, Numbers
<1>4. QED BY <1>1, <1>2, <1>3

LEMMA OtherType == \A x \in Sides : Other(x) \in Sides /\ Other(x) # x /\ Other(Other(x)) = x
BY FlowEntryAssumption DEF Sides, Other

LEMMA NewFlowType == ASSUME NEW x \in Sides PROVE NewFlow(x) \in FlowRecord
BY FlowEntryAssumption DEF NewFlow, FlowRecord, States, InProgress, HalfOpen, Numbers, Sides

\* The state machine stays within the states, and reaches SYN_ACK_RECEIVED
\* only by a segment of the responder.
LEMMA NextStateType ==
  ASSUME NEW st \in States, NEW s, NEW b \in BOOLEAN
  PROVE  /\ NextState(st, s, b) \in States
         /\ NextState(st, s, b) = "SYN_ACK_RECEIVED" /\ st # "SYN_ACK_RECEIVED" => ~b
BY DEF NextState, States, InProgress, HalfOpen, Closing, Ended

\* A step that touches neither the flow nor what is said of it.
LEMMA FlowKept ==
  ASSUME IInv, UNCHANGED <<flow, historyVars>>,
         \A l \in Lcores : AnswersOf(l)' \/ flow = None
  PROVE  Answers' /\ Spoke'
BY DEF IInv, Answers, Spoke, historyVars, Answered, Responder
\* What an lcore knows stays true while the responder's number stays one it
\* has sent, the initiator stays who it is and nothing said is forgotten.
LEMMA KnownStays ==
  ASSUME IInv, flow # None, NEW l \in Lcores,
         pc'[l] = pc[l], seg'[l] = seg[l], current_state'[l] = current_state[l],
         flow'.initiator = flow.initiator, said \subseteq said',
         Answered => Answered'
  PROVE  AnswersOf(l)'
BY DEF IInv, Answers, AnswersOf, Answered, Responder

\* An lcore that is not at work on the flow knows nothing yet.
LEMMA KnowsNothing ==
  ASSUME NEW l \in Lcores, pc'[l] \notin Updating \cup {"vouch_ack"}
  PROVE  AnswersOf(l)'
BY DEF AnswersOf, Updating

\* A flow that is gone leaves nothing to know.
LEMMA NoFlow == ASSUME flow' = None PROVE Answers' /\ Spoke'
BY DEF Answers, Spoke

-----------------------------------------------------------------------------
(* Packets.                                                                *)

LEMMA ReceiveKeeps ==
  ASSUME IInv, NEW l \in Lcores, NEW s \in Segments, NEW w \in Ways,
         NEW next \in {"track", "vouched", "vouch_state"}, Receive(l, s, w, next),
         next = "track" \/ (w = "pipeline" /\ flow # None)
  PROVE  IInv'
<1> USE DEF Receive, Goto
<1>1. TypeOK'
  BY DEF IInv, TypeOK, PCs, Holding, Elsewhere, ageVars, historyVars
<1>2. Registers'
  BY DEF IInv, TypeOK, Registers, Updating
<1>3. Answers' /\ Spoke'
  <2>1. CASE flow = None
    BY <2>1, NoFlow
  <2>2. CASE flow # None
    <3>1. ASSUME NEW m \in Lcores PROVE AnswersOf(m)'
      <4>1. CASE m = l
        BY <4>1, KnowsNothing DEF IInv, TypeOK, Updating
      <4>2. CASE m # l
        BY <2>2, <4>2, KnownStays DEF IInv, TypeOK, Answered, Responder, historyVars
      <4>3. QED BY <4>1, <4>2
    <3>2. QED BY <2>2, <3>1, FlowKept
  <2>3. QED BY <2>1, <2>2
<1>4. QED BY <1>1, <1>2, <1>3 DEF IInv

\* A packet that is dropped or done with, and leaves the flow as it was.
LEMMA DropKeeps ==
  ASSUME IInv, NEW l \in Lcores, Finished(l), UNCHANGED <<flow, idle, historyVars>>, Elsewhere
  PROVE  IInv'
<1> USE DEF Finished, Goto
<1>1. TypeOK'
  BY DEF IInv, TypeOK, PCs, Holding, Elsewhere, ageVars, historyVars
<1>2. Registers'
  BY DEF IInv, TypeOK, Registers, Updating
<1>3. Answers' /\ Spoke'
  <2>1. CASE flow = None
    BY <2>1, NoFlow
  <2>2. CASE flow # None
    <3>1. ASSUME NEW m \in Lcores PROVE AnswersOf(m)'
      <4>1. CASE m = l
        BY <4>1, KnowsNothing DEF IInv, TypeOK, Updating
      <4>2. CASE m # l
        BY <2>2, <4>2, KnownStays DEF IInv, TypeOK, Answered, Responder, historyVars
      <4>3. QED BY <4>1, <4>2
    <3>2. QED BY <2>2, <3>1, FlowKept
  <2>3. QED BY <2>1, <2>2
<1>4. QED BY <1>1, <1>2, <1>3 DEF IInv

\* An lcore that goes on to another label of its work on the same flow, and
\* knows there what it has to.
LEMMA MoveKeeps ==
  ASSUME IInv, NEW l \in Lcores, pc[l] # "idle", flow # None,
         NEW next \in {"vouch_ack", "vouched", "count"}, Goto(l, next),
         way' \in [Lcores -> Ways \cup {"out", None}], way'[l] \in Ways \cup {"out"},
         next # "count" => way'[l] = "pipeline",
         \A m \in Lcores : m # l => way'[m] = way[m],
         UNCHANGED <<flow, seg, current_state, idle, historyVars>>, Elsewhere,
         next = "vouch_ack" => seg[l].from = flow.initiator /\ Answered
  PROVE  IInv'
<1> USE DEF Goto
<1>1. TypeOK'
  BY DEF IInv, TypeOK, PCs, Holding, Elsewhere, ageVars, historyVars
<1>2. Registers'
  BY DEF IInv, TypeOK, Registers, Updating
<1>3. Answers' /\ Spoke'
  <2>1. ASSUME NEW m \in Lcores PROVE AnswersOf(m)'
    <3>1. CASE m = l /\ next = "vouch_ack"
      BY <3>1 DEF IInv, TypeOK, AnswersOf, Answered, Responder, Updating, historyVars
    <3>2. CASE m = l /\ next # "vouch_ack"
      BY <3>2, KnowsNothing DEF IInv, TypeOK, Updating
    <3>3. CASE m # l
      BY <3>3, KnownStays DEF IInv, TypeOK, Answered, Responder, historyVars
    <3>4. QED BY <3>1, <3>2, <3>3
  <2>2. QED BY <2>1, FlowKept
<1>4. QED BY <1>1, <1>2, <1>3 DEF IInv

LEMMA VouchStateKeeps ==
  ASSUME IInv, NEW l \in Lcores, VouchState(l)
  PROVE  IInv'
<1>1. CASE Finished(l)
  BY <1>1, DropKeeps DEF VouchState
<1>2. CASE ~Finished(l)
  <2>1. /\ PureAck(seg[l]) /\ seg[l].from = flow.initiator /\ flow.state = "SYN_ACK_RECEIVED"
        /\ Goto(l, "vouch_ack")
        /\ UNCHANGED <<flow, seg, way, current_state, idle, historyVars>> /\ Elsewhere
    BY <1>2 DEF VouchState, AfterSynAck
  <2>2. pc[l] = "vouch_state" /\ flow # None /\ Answered
    BY <2>1 DEF VouchState, IInv, TypeOK, Holding, Answers
  <2>3. way' \in [Lcores -> Ways \cup {"out", None}] /\ way'[l] \in Ways \cup {"out"}
        /\ way'[l] = "pipeline"
    BY <2>1, <2>2 DEF IInv, TypeOK, Registers
  <2>4. QED BY <2>1, <2>2, <2>3, MoveKeeps
<1>3. QED BY <1>1, <1>2

LEMMA VouchAckKeeps ==
  ASSUME IInv, NEW l \in Lcores, VouchAck(l)
  PROVE  IInv'
<1>1. CASE Finished(l)
  BY <1>1, DropKeeps DEF VouchAck
<1>2. CASE ~Finished(l)
  <2>1. /\ Goto(l, "vouched")
        /\ UNCHANGED <<flow, seg, way, current_state, idle, historyVars>> /\ Elsewhere
    BY <1>2 DEF VouchAck
  <2>2. pc[l] = "vouch_ack" /\ flow # None
    BY <2>1 DEF VouchAck, IInv, TypeOK, Holding
  <2>3. way' \in [Lcores -> Ways \cup {"out", None}] /\ way'[l] \in Ways \cup {"out"}
        /\ way'[l] = "pipeline"
    BY <2>1, <2>2 DEF IInv, TypeOK, Registers
  <2>4. QED BY <2>1, <2>2, <2>3, MoveKeeps
<1>3. QED BY <1>1, <1>2

LEMMA ValidateKeeps ==
  ASSUME IInv, NEW l \in Lcores, Validate(l)
  PROVE  IInv'
<1>1. pc[l] # "idle" /\ flow # None
  BY DEF Validate, LooksUp
<1>2. /\ way' \in [Lcores -> Ways \cup {"out", None}] /\ way'[l] \in Ways \cup {"out"}
      /\ \A m \in Lcores : m # l => way'[m] = way[m]
  BY <1>1 DEF Validate, IInv, TypeOK, Registers
<1>3. QED BY <1>1, <1>2, MoveKeeps DEF Validate

LEMMA CreateKeeps ==
  ASSUME IInv, NEW l \in Lcores, Create(l)
  PROVE  IInv' /\ flow' # None
<1> USE DEF Create, Goto
<1>1. /\ pc[l] # "idle" /\ seg[l] \in Segments /\ flow = None
      /\ \A m \in Lcores : pc[m] \notin Holding
  BY DEF LooksUp, IInv, TypeOK, Registers
<1>2. flow' \in FlowRecord /\ flow' # None /\ flow'.state = "NEW" /\ flow'.vouched = {}
  BY <1>1, SegmentType, NewFlowType, NoneAssumption DEF NewFlow
<1>3. TypeOK'
  <2>1. idle' \in 0 .. Cap
    BY FlowEntryAssumption
  <2>2. pc' \in [Lcores -> PCs]
    BY DEF IInv, TypeOK, PCs, Holding
  <2>3. UNCHANGED <<seg, way, current_state, evict, age, age_idle>>
    BY DEF Elsewhere, ageVars
  <2>4. said' \subseteq Numbers /\ inside_spoke' \in BOOLEAN
    BY Zenon
  <2> HIDE DEF Create
  <2>5. QED BY <1>2, <2>1, <2>2, <2>3, <2>4 DEF IInv, TypeOK
<1>4. Registers'
  BY <1>1 DEF IInv, TypeOK, Registers, Updating
<1>5. \A m \in Lcores : pc'[m] \notin Updating \cup {"vouch_ack"}
  BY <1>1 DEF IInv, TypeOK, Updating, Holding
<1>6. Answers'
  <2>1. \A m \in Lcores : AnswersOf(m)'
    BY <1>5, KnowsNothing
  <2>2. QED BY <1>2, <2>1 DEF Answers
<1>7. Spoke'
  BY <1>2 DEF Spoke
<1>8. QED BY <1>2, <1>3, <1>4, <1>6, <1>7, NoneAssumption DEF IInv

-----------------------------------------------------------------------------
(* The update.                                                             *)

\* A step of one lcore on a flow that stays.
LEMMA FlowChanges ==
  ASSUME IInv, NEW l \in Lcores, flow # None,
         flow'.initiator = flow.initiator, said \subseteq said', Answered => Answered',
         \A m \in Lcores : m # l =>
            pc'[m] = pc[m] /\ seg'[m] = seg[m] /\ current_state'[m] = current_state[m],
         AnswersOf(l)', flow'.state = "SYN_ACK_RECEIVED" => Answered',
         Inside \in flow'.vouched => inside_spoke'
  PROVE  Answers' /\ Spoke'
<1>1. \A m \in Lcores : m # l => AnswersOf(m)'
  BY KnownStays
<1>2. QED BY <1>1 DEF Answers, Spoke

\* Who begins or goes on with an update has a segment, and the flow.
LEMMA AtWork ==
  ASSUME IInv, NEW l \in Lcores, Begins(l) \/ pc[l] \in Holding
  PROVE  /\ pc[l] # "idle" /\ flow \in FlowRecord /\ flow # None
         /\ seg[l] \in Segments /\ seg[l].from \in Sides
         /\ flow.initiator \in Sides /\ flow.state \in States
BY SegmentType DEF Begins, LooksUp, Holding, IInv, TypeOK, Registers, FlowRecord

LEMMA FinishedTypes ==
  ASSUME IInv, NEW l \in Lcores, Finished(l)
  PROVE  /\ pc' \in [Lcores -> PCs] /\ seg' \in [Lcores -> Segments \cup {None}]
         /\ way' \in [Lcores -> Ways \cup {"out", None}]
         /\ current_state' \in [Lcores -> States \cup {None}]
         /\ pc'[l] = "idle" /\ AnswersOf(l)' /\ Registers'
         /\ \A m \in Lcores : m # l => pc'[m] = pc[m] /\ seg'[m] = seg[m]
                                         /\ current_state'[m] = current_state[m]
<1> USE DEF Finished, Goto
<1>1. pc'[l] = "idle"
  BY DEF IInv, TypeOK
<1>2. AnswersOf(l)'
  BY <1>1, KnowsNothing DEF Updating
<1>3. Registers'
  BY DEF IInv, TypeOK, Registers, Updating
<1>4. QED BY <1>1, <1>2, <1>3 DEF IInv, TypeOK, PCs

LEMMA GotoTypes ==
  ASSUME IInv, NEW l \in Lcores, Goto(l, "mark"), way[l] = "proof", pc[l] # "idle",
         UNCHANGED <<seg, way, current_state>>
  PROVE  /\ pc' \in [Lcores -> PCs]
         /\ pc'[l] = "mark" /\ AnswersOf(l)' /\ Registers'
         /\ \A m \in Lcores : m # l => pc'[m] = pc[m] /\ seg'[m] = seg[m]
                                         /\ current_state'[m] = current_state[m]
<1> USE DEF Goto
<1>1. pc'[l] = "mark"
  BY DEF IInv, TypeOK
<1>2. AnswersOf(l)'
  BY <1>1, KnowsNothing DEF Updating
<1>3. Registers'
  BY DEF IInv, TypeOK, Registers, Updating
<1>4. QED BY <1>1, <1>2, <1>3 DEF IInv, TypeOK, PCs, Holding

\* The end of an update, whichever it is.
LEMMA UpdatedTypes ==
  ASSUME IInv, NEW l \in Lcores, Updated(l), pc[l] # "idle"
  PROVE  /\ pc' \in [Lcores -> PCs] /\ seg' \in [Lcores -> Segments \cup {None}]
         /\ way' \in [Lcores -> Ways \cup {"out", None}]
         /\ current_state' \in [Lcores -> States \cup {None}]
         /\ AnswersOf(l)' /\ Registers'
         /\ \A m \in Lcores : m # l => pc'[m] = pc[m] /\ seg'[m] = seg[m]
                                         /\ current_state'[m] = current_state[m]
<1>1. CASE way[l] = "proof"
  BY <1>1, GotoTypes DEF Updated, IInv, TypeOK
<1>2. CASE way[l] # "proof"
  BY <1>2, FinishedTypes DEF Updated
<1>3. QED BY <1>1, <1>2

LEMMA CountPacketKeeps ==
  ASSUME IInv, NEW l \in Lcores, CountPacket(l)
  PROVE  IInv' /\ flow' # None
<1>1. /\ flow \in FlowRecord /\ flow # None /\ seg[l].from \in Sides
  BY AtWork DEF CountPacket
<1>2. /\ flow' \in FlowRecord /\ flow'.initiator = flow.initiator
      /\ flow'.state = flow.state /\ flow'.vouched = flow.vouched /\ flow'.seq = flow.seq
  BY <1>1 DEF CountPacket, FlowRecord
<1>3. TypeOK'
  <2>1. idle' \in 0 .. Cap /\ UNCHANGED <<said, inside_spoke, evict, age, age_idle>>
    BY FlowEntryAssumption DEF CountPacket, historyVars, Elsewhere, ageVars
  <2>2. /\ pc' \in [Lcores -> PCs] /\ seg' \in [Lcores -> Segments \cup {None}]
        /\ way' \in [Lcores -> Ways \cup {"out", None}]
        /\ current_state' \in [Lcores -> States \cup {None}]
    BY FinishedTypes DEF CountPacket
  <2>3. flow' # None
    BY <1>2, NoneAssumption
  <2>4. QED BY <1>2, <2>1, <2>2, <2>3 DEF IInv, TypeOK
<1>4. Answers' /\ Spoke'
  BY <1>1, <1>2, FinishedTypes, FlowChanges
     DEF CountPacket, Answered, Responder, IInv, Answers, Spoke, historyVars
<1>5. QED BY <1>2, <1>3, <1>4, FinishedTypes, NoneAssumption DEF IInv, CountPacket

LEMMA LoadKeeps ==
  ASSUME IInv, NEW l \in Lcores, Load(l)
  PROVE  IInv' /\ flow' # None
<1>1. /\ flow \in FlowRecord /\ flow # None /\ seg[l] \in Segments /\ seg[l].from \in Sides
      /\ flow.initiator \in Sides /\ flow.state \in States /\ pc[l] # "idle"
  BY AtWork DEF Load
<1>2. NextNumber(seg[l]) \in Numbers
  BY <1>1, SegmentType
<1>3. /\ flow' \in FlowRecord /\ flow'.initiator = flow.initiator
      /\ flow'.state = flow.state /\ flow'.seq = flow.seq
      /\ flow'.vouched = IF Vouches(seg[l]) THEN flow.vouched \cup {seg[l].from}
                         ELSE flow.vouched
  BY <1>1 DEF Load, FlowRecord
<1>4. /\ said' = IF seg[l].from = flow.initiator THEN said
                 ELSE said \cup {NextNumber(seg[l])}
      /\ inside_spoke' = (inside_spoke \/ (seg[l].from = Inside /\ OpensOrHolds(seg[l])))
      /\ Goto(l, "seq") /\ UNCHANGED <<seg, way>> /\ Elsewhere
      /\ current_state' = [current_state EXCEPT ![l] = flow.state]
      /\ idle' = IF Refreshes(seg[l]) THEN 0 ELSE idle
      /\ way[l] \in {"pipeline", "proof", "update"}
  BY DEF Load
<1>5. TypeOK'
  <2>1. idle' \in 0 .. Cap
    BY <1>4, FlowEntryAssumption DEF IInv, TypeOK
  <2>2. pc' \in [Lcores -> PCs] /\ current_state' \in [Lcores -> States \cup {None}]
    BY <1>1, <1>4 DEF Goto, IInv, TypeOK, PCs, Holding
  <2>3. said' \subseteq Numbers /\ inside_spoke' \in BOOLEAN
    BY <1>2, <1>4 DEF IInv, TypeOK
  <2>4. QED BY <1>3, <1>4, <2>1, <2>2, <2>3, NoneAssumption DEF IInv, TypeOK, Elsewhere, ageVars
<1>6. Registers'
  BY <1>1, <1>4 DEF Goto, IInv, TypeOK, Registers, Updating
<1>7. said \subseteq said' /\ (Answered => Answered')
  BY <1>3, <1>4 DEF Answered, Responder
<1>8. AnswersOf(l)'
  <2>1. pc'[l] = "seq" /\ current_state'[l] = flow.state /\ seg'[l] = seg[l]
    BY <1>4 DEF Goto, IInv, TypeOK
  <2>2. current_state'[l] = "SYN_ACK_RECEIVED" => Answered'
    BY <1>1, <1>7, <2>1 DEF IInv, Answers
  <2>3. seg'[l].from # flow'.initiator => NextNumber(seg[l]) \in said'
    BY <1>3, <1>4, <2>1
  <2>4. QED BY <2>1, <2>2, <2>3 DEF AnswersOf, Updating
<1>9. Inside \in flow'.vouched => inside_spoke'
  BY <1>1, <1>3, <1>4 DEF IInv, Spoke, Vouches, OpensOrHolds
<1>10. Answers' /\ Spoke'
  BY <1>1, <1>3, <1>4, <1>7, <1>8, <1>9, FlowChanges DEF Goto, IInv, TypeOK, Answers
<1>11. QED BY <1>3, <1>5, <1>6, <1>10, NoneAssumption DEF IInv

LEMMA StoreSeqKeeps ==
  ASSUME IInv, NEW l \in Lcores, StoreSeq(l)
  PROVE  IInv' /\ flow' # None
<1>1. /\ flow \in FlowRecord /\ flow # None /\ seg[l] \in Segments /\ seg[l].from \in Sides
      /\ flow.initiator \in Sides /\ pc[l] = "seq"
  BY AtWork DEF StoreSeq, Holding
<1>2. /\ NextNumber(seg[l]) \in Numbers /\ seg[l].ack \in Numbers
      /\ flow.seq \in [Sides -> Numbers] /\ flow.ack \in [Sides -> Numbers]
  BY <1>1, SegmentType DEF FlowRecord
<1>3. /\ flow' \in FlowRecord /\ flow'.initiator = flow.initiator
      /\ flow'.state = flow.state /\ flow'.vouched = flow.vouched
      /\ flow'.seq = [flow.seq EXCEPT ![seg[l].from] = NextNumber(seg[l])]
  BY <1>1, <1>2 DEF StoreSeq, FlowRecord
<1>4. UNCHANGED <<idle, said, inside_spoke, evict, age, age_idle>>
  BY DEF StoreSeq, historyVars, Elsewhere, ageVars
<1>5. AnswersOf(l) /\ current_state[l] \in States /\ way[l] \in {"pipeline", "proof", "update"}
  BY <1>1 DEF IInv, Answers, Registers, Updating
<1>6. Responder \in Sides /\ (seg[l].from # flow.initiator => seg[l].from = Responder)
  BY <1>1, OtherType DEF Responder, Sides, Other
<1>7. (Answered => Answered') /\ (seg[l].from # flow.initiator => Answered')
  <2>1. Responder' = Responder /\ said' = said
    BY <1>3, <1>4 DEF Responder
  <2>2. CASE seg[l].from = flow.initiator
    <3>1. flow'.seq[Responder] = flow.seq[Responder]
      BY <1>1, <1>2, <1>3, <2>2, OtherType DEF Responder
    <3>2. QED BY <2>1, <2>2, <3>1 DEF Answered
  <2>3. CASE seg[l].from # flow.initiator
    <3>1. flow'.seq[Responder] = NextNumber(seg[l])
      BY <1>1, <1>2, <1>3, <1>6, <2>3
    <3>2. NextNumber(seg[l]) \in said
      BY <1>1, <1>5, <2>3 DEF AnswersOf, Updating
    <3>3. QED BY <2>1, <3>1, <3>2 DEF Answered
  <2>4. QED BY <2>2, <2>3
<1>8. /\ pc' \in [Lcores -> PCs] /\ seg' \in [Lcores -> Segments \cup {None}]
      /\ way' \in [Lcores -> Ways \cup {"out", None}]
      /\ current_state' \in [Lcores -> States \cup {None}]
      /\ AnswersOf(l)' /\ Registers'
      /\ \A m \in Lcores : m # l => pc'[m] = pc[m] /\ seg'[m] = seg[m]
                                      /\ current_state'[m] = current_state[m]
  <2>1. CASE Updated(l)
    BY <1>1, <2>1, UpdatedTypes
  <2>2. ASSUME NEW next \in {"flag", "store"}, Goto(l, next),
               UNCHANGED <<seg, way, current_state>>,
               next = "flag" => /\ current_state[l] = "SYN_ACK_RECEIVED"
                                /\ seg[l].from = flow.initiator
        PROVE  /\ pc' \in [Lcores -> PCs] /\ AnswersOf(l)' /\ Registers'
               /\ \A m \in Lcores : m # l => pc'[m] = pc[m]
    <3>1. pc' = [pc EXCEPT ![l] = next] /\ pc' \in [Lcores -> PCs] /\ pc'[l] = next
      BY <2>2 DEF Goto, IInv, TypeOK, PCs, Holding
    <3>2. AnswersOf(l)'
      BY <1>1, <1>3, <1>4, <1>5, <1>7, <2>2, <3>1 DEF AnswersOf, Updating
    <3>3. Registers'
      BY <1>1, <1>5, <2>2, <3>1 DEF IInv, TypeOK, Registers, Updating
    <3>4. QED BY <3>1, <3>2, <3>3 DEF IInv, TypeOK
  <2>3. CASE Goto(l, "flag") /\ UNCHANGED <<seg, way, current_state>>
             /\ current_state[l] = "SYN_ACK_RECEIVED" /\ seg[l].from = flow.initiator
    BY <2>2, <2>3 DEF IInv, TypeOK
  <2>4. CASE Goto(l, "store") /\ UNCHANGED <<seg, way, current_state>>
    BY <2>2, <2>4 DEF IInv, TypeOK
  <2>5. \/ Updated(l)
        \/ /\ Goto(l, "flag") /\ UNCHANGED <<seg, way, current_state>>
           /\ current_state[l] = "SYN_ACK_RECEIVED" /\ seg[l].from = flow.initiator
        \/ Goto(l, "store") /\ UNCHANGED <<seg, way, current_state>>
    BY DEF StoreSeq, ByInitiator
  <2>6. QED BY <2>1, <2>3, <2>4, <2>5
<1>9. TypeOK'
  BY <1>3, <1>4, <1>8, NoneAssumption DEF IInv, TypeOK
<1>10. Answers' /\ Spoke'
  BY <1>1, <1>3, <1>4, <1>7, <1>8, FlowChanges DEF IInv, Answers, Spoke
<1>11. QED BY <1>3, <1>8, <1>9, <1>10, NoneAssumption DEF IInv

\* A step that sets one of the flow's marks and leaves the rest of it alone.
LEMMA MarkKeeps ==
  ASSUME IInv, NEW l \in Lcores, pc[l] # "idle", flow # None,
         flow' \in FlowRecord, flow'.initiator = flow.initiator, flow'.seq = flow.seq,
         flow'.vouched = flow.vouched,
         flow'.state = "SYN_ACK_RECEIVED" => Answered,
         UNCHANGED <<idle, historyVars>>, Elsewhere,
         \/ Updated(l)
         \/ /\ UNCHANGED <<seg, way, current_state>>
            /\ \/ pc[l] = "flag" /\ Goto(l, "store")
               \/ pc[l] = "mark" /\ Goto(l, "cas")
  PROVE  IInv'
<1>1. Answered' = Answered /\ UNCHANGED <<idle, said, inside_spoke, evict, age, age_idle>>
  BY DEF Answered, Responder, historyVars, Elsewhere, ageVars
<1>2. /\ pc' \in [Lcores -> PCs] /\ seg' \in [Lcores -> Segments \cup {None}]
      /\ way' \in [Lcores -> Ways \cup {"out", None}]
      /\ current_state' \in [Lcores -> States \cup {None}]
      /\ AnswersOf(l)' /\ Registers'
      /\ \A m \in Lcores : m # l => pc'[m] = pc[m] /\ seg'[m] = seg[m]
                                      /\ current_state'[m] = current_state[m]
  <2>1. CASE Updated(l)
    BY <2>1, UpdatedTypes
  <2>2. ASSUME NEW next \in {"store", "cas"}, Goto(l, next), UNCHANGED <<seg, way, current_state>>,
               \/ pc[l] = "flag" /\ next = "store"
               \/ pc[l] = "mark" /\ next = "cas"
        PROVE  /\ pc' \in [Lcores -> PCs] /\ AnswersOf(l)' /\ Registers'
               /\ \A m \in Lcores : m # l => pc'[m] = pc[m]
    <3>1. pc' = [pc EXCEPT ![l] = next] /\ pc' \in [Lcores -> PCs] /\ pc'[l] = next
      BY <2>2 DEF Goto, IInv, TypeOK, PCs, Holding
    <3>2. AnswersOf(l)
      BY DEF IInv, Answers
    <3>3. AnswersOf(l)'
      BY <1>1, <2>2, <3>1, <3>2 DEF AnswersOf, Updating
    <3>4. Registers'
      BY <2>2, <3>1 DEF IInv, TypeOK, Registers, Updating
    <3>5. QED BY <3>1, <3>3, <3>4 DEF IInv, TypeOK
  <2>3. CASE UNCHANGED <<seg, way, current_state>> /\ pc[l] = "flag" /\ Goto(l, "store")
    BY <2>2, <2>3 DEF IInv, TypeOK
  <2>4. CASE UNCHANGED <<seg, way, current_state>> /\ pc[l] = "mark" /\ Goto(l, "cas")
    BY <2>2, <2>4 DEF IInv, TypeOK
  <2>5. QED BY <2>1, <2>3, <2>4
<1>3. TypeOK'
  BY <1>1, <1>2, NoneAssumption DEF IInv, TypeOK
<1>4. Answers' /\ Spoke'
  BY <1>1, <1>2, FlowChanges DEF IInv, Spoke
<1>5. QED BY <1>2, <1>3, <1>4 DEF IInv

LEMMA SetVerifiedKeeps ==
  ASSUME IInv, NEW l \in Lcores, SetVerified(l)
  PROVE  IInv' /\ flow' # None
<1>1. /\ flow \in FlowRecord /\ flow # None /\ pc[l] = "flag"
  BY AtWork DEF SetVerified, Holding
<1>2. /\ flow' \in FlowRecord /\ flow'.initiator = flow.initiator /\ flow'.seq = flow.seq
      /\ flow'.vouched = flow.vouched /\ flow'.state = flow.state
  BY <1>1 DEF SetVerified, AcksResponder, FlowRecord
<1>3. QED BY <1>1, <1>2, MarkKeeps, NoneAssumption DEF SetVerified, IInv, Answers

LEMMA StoreStateKeeps ==
  ASSUME IInv, NEW l \in Lcores, StoreState(l)
  PROVE  IInv' /\ flow' # None
<1>1. /\ flow \in FlowRecord /\ flow # None /\ pc[l] = "store"
      /\ current_state[l] \in States /\ AnswersOf(l)
  BY AtWork DEF StoreState, Holding, IInv, Registers, Answers, Updating
<1>2. Target(l) \in States /\ (Target(l) = "SYN_ACK_RECEIVED" => Answered)
  <2>1. CASE Has(seg[l], "RST")
    BY <2>1 DEF Target, States, InProgress, HalfOpen, Closing, Ended
  <2>2. CASE ~Has(seg[l], "RST")
    <3>1. Target(l) = NextState(current_state[l], seg[l], ByInitiator(l))
          /\ ByInitiator(l) \in BOOLEAN
      BY <2>2 DEF Target, ByInitiator
    <3>2. /\ Target(l) \in States
          /\ Target(l) = "SYN_ACK_RECEIVED" /\ current_state[l] # "SYN_ACK_RECEIVED" => ~ByInitiator(l)
      BY <1>1, <3>1, NextStateType
    <3>3. QED BY <1>1, <3>2 DEF AnswersOf, ByInitiator, Updating
  <2>3. QED BY <2>1, <2>2
<1>3. /\ flow' \in FlowRecord /\ flow'.initiator = flow.initiator /\ flow'.seq = flow.seq
      /\ flow'.vouched = flow.vouched /\ flow'.state = Target(l)
  BY <1>1, <1>2 DEF StoreState, FlowRecord
<1>4. QED BY <1>1, <1>2, <1>3, MarkKeeps, NoneAssumption DEF StoreState

LEMMA MarkVerifiedKeeps ==
  ASSUME IInv, NEW l \in Lcores, MarkVerified(l)
  PROVE  IInv' /\ flow' # None
<1>1. /\ flow \in FlowRecord /\ flow # None /\ pc[l] = "mark" /\ way[l] = "proof"
  BY AtWork DEF MarkVerified, Holding, IInv, Registers
<1>2. /\ flow' \in FlowRecord /\ flow'.initiator = flow.initiator /\ flow'.seq = flow.seq
      /\ flow'.vouched = flow.vouched /\ flow'.state = flow.state
  BY <1>1 DEF MarkVerified, FlowRecord
<1>3. CASE flow.acked
  <2>1. flow' = flow
    BY <1>1, <1>3 DEF MarkVerified, FlowRecord
  <2>2. QED BY <1>2, <1>3, <2>1, DropKeeps, NoneAssumption DEF MarkVerified
<1>4. CASE ~flow.acked
  BY <1>1, <1>2, <1>4, MarkKeeps, NoneAssumption DEF MarkVerified, IInv, Answers
<1>5. QED BY <1>3, <1>4

\* The swap of the state ends the packet: Updated(l) does not, for a proof.
LEMMA MarkEstablishedKeeps ==
  ASSUME IInv, NEW l \in Lcores, MarkEstablished(l)
  PROVE  IInv' /\ flow' # None
<1>1. /\ flow \in FlowRecord /\ flow # None
  BY AtWork DEF MarkEstablished, Holding
<1>2. /\ flow' \in FlowRecord /\ flow'.initiator = flow.initiator /\ flow'.seq = flow.seq
      /\ flow'.vouched = flow.vouched
      /\ flow'.state = flow.state \/ flow'.state = "ESTABLISHED"
  BY <1>1 DEF MarkEstablished, FlowRecord, States
<1>3. UNCHANGED <<idle, said, inside_spoke, evict, age, age_idle>> /\ Finished(l)
  BY DEF MarkEstablished, historyVars, Elsewhere, ageVars
<1>4. TypeOK'
  BY <1>2, <1>3, FinishedTypes, NoneAssumption DEF IInv, TypeOK
<1>5. Answered' = Answered
  BY <1>2, <1>3 DEF Answered, Responder
<1>6. Answers' /\ Spoke'
  BY <1>1, <1>2, <1>3, <1>5, FinishedTypes, FlowChanges DEF IInv, Answers, Spoke
<1>7. QED BY <1>2, <1>3, <1>4, <1>6, FinishedTypes, NoneAssumption DEF IInv

-----------------------------------------------------------------------------
(* Deletes and time.                                                       *)

LEMMA DeletedKeeps ==
  ASSUME IInv, Deleted, evict' = None, age' = "idle", age_idle' = 0
  PROVE  IInv'
<1> USE DEF Deleted
<1>1. TypeOK'
  <2>1. idle' \in 0 .. Cap /\ age_idle' \in 0 .. Cap
    BY FlowEntryAssumption
  <2>2. pc' \in [Lcores -> PCs] /\ \A l \in Lcores : pc'[l] \notin Holding
    BY DEF IInv, TypeOK, PCs, Holding
  <2>3. /\ seg' \in [Lcores -> Segments \cup {None}]
        /\ way' \in [Lcores -> Ways \cup {"out", None}]
        /\ current_state' \in [Lcores -> States \cup {None}]
    BY DEF IInv, TypeOK
  <2>4. QED BY <2>1, <2>2, <2>3 DEF IInv, TypeOK
<1>2. Registers'
  BY DEF IInv, Registers, Holding, Updating
<1>3. QED BY <1>1, <1>2, NoFlow DEF IInv

\* A step of the aging, the eviction or the clock that leaves the flow.
LEMMA LookKeeps ==
  ASSUME IInv, flow # None, UNCHANGED <<flow, packetVars, historyVars>>,
         evict' \in [state : States, acked : BOOLEAN] \cup {None},
         age' \in {"idle", "lock", "state"}, age_idle' \in 0 .. Cap, idle' \in 0 .. Cap
  PROVE  IInv'
<1>1. TypeOK' /\ Registers'
  BY DEF IInv, TypeOK, Registers, packetVars, historyVars
<1>2. Answers' /\ Spoke'
  BY DEF IInv, Answers, AnswersOf, Answered, Responder, Spoke, packetVars, historyVars
<1>3. QED BY <1>1, <1>2 DEF IInv

LEMMA EvictKeeps == ASSUME IInv, EvictCheck \/ EvictClaim PROVE IInv'
<1>1. CASE EvictCheck
  <2>1. flow \in FlowRecord /\ flow # None
    BY <1>1 DEF EvictCheck, IInv, TypeOK
  <2>2. evict' \in [state : States, acked : BOOLEAN]
    BY <1>1, <2>1 DEF EvictCheck, FlowRecord
  <2>3. QED BY <1>1, <2>1, <2>2, LookKeeps DEF EvictCheck, ageVars, IInv, TypeOK
<1>2. CASE EvictClaim
  <2>1. CASE StateUnmoved
    BY <1>2, <2>1, DeletedKeeps DEF EvictClaim
  <2>2. CASE ~StateUnmoved
    BY <1>2, <2>2, LookKeeps DEF EvictClaim, ageVars, IInv, TypeOK
  <2>3. QED BY <2>1, <2>2
<1>3. QED BY <1>1, <1>2

\* A pass that has found the flow expired is over once the flow is gone, and
\* with the idle time it has read it holds the lock the eviction needs.
AgeLooks == (age # "idle" => flow # None) /\ (age = "state" => evict = None)

LEMMA AgeStepKeeps == ASSUME IInv, AgeLooks, Age PROVE IInv' /\ AgeLooks'
<1>1. CASE AgeScan
  BY <1>1, LookKeeps DEF AgeScan, AgeLooks, IInv, TypeOK
<1>2. CASE AgeRecheck
  BY <1>2, LookKeeps DEF AgeRecheck, AgeLooks, IInv, TypeOK
<1>3. CASE AgeDelete
  <2>1. evict = None /\ evict' = None /\ age' = "idle" /\ age_idle' = 0 /\ flow # None
    BY <1>3 DEF AgeDelete, AgeKeeps, AgeLooks
  <2>2. CASE Deleted
    BY <2>1, <2>2, DeletedKeeps DEF AgeLooks
  <2>3. CASE UNCHANGED <<flow, packetVars, idle, historyVars>>
    <3>1. age_idle' \in 0 .. Cap
      BY <2>1, FlowEntryAssumption
    <3>2. QED BY <2>1, <2>3, <3>1, LookKeeps DEF AgeLooks, IInv, TypeOK
  <2>4. QED BY <1>3, <2>2, <2>3 DEF AgeDelete
<1>4. QED BY <1>1, <1>2, <1>3 DEF Age

\* A packet's step leaves the aging alone; only a create makes the flow.
LEMMA StepLooks == ASSUME IInv, AgeLooks, NEW l \in Lcores, Step(l) PROVE AgeLooks'
<1>1. UNCHANGED <<evict, age, age_idle>>
  BY DEF Step, Arrive, Vouch, Receive, VouchState, VouchAck, Unverified, Create, NotTracked,
         Validate, RateLimited, CountPacket, Load, StoreSeq, SetVerified, StoreState,
         MarkVerified, MarkEstablished, Elsewhere, ageVars
<1>2. flow # None => flow' # None
  <2>1. CASE UNCHANGED flow
    BY <2>1
  <2>2. CASE CountPacket(l) \/ Load(l) \/ StoreSeq(l) \/ SetVerified(l) \/ StoreState(l)
             \/ MarkVerified(l) \/ MarkEstablished(l) \/ Create(l)
    BY <2>2, CountPacketKeeps, LoadKeeps, StoreSeqKeeps, SetVerifiedKeeps, StoreStateKeeps,
       MarkVerifiedKeeps, MarkEstablishedKeeps, CreateKeeps
  <2>3. QED BY <2>1, <2>2
       DEF Step, Arrive, Vouch, Receive, VouchState, VouchAck, Unverified, NotTracked,
           Validate, RateLimited
<1>3. QED BY <1>1, <1>2 DEF AgeLooks

-----------------------------------------------------------------------------
(* The theorems.                                                           *)

FullInv == IInv /\ AgeLooks

LEMMA InitInv == Init => FullInv
<1> SUFFICES ASSUME Init PROVE FullInv
  OBVIOUS
<1>1. 0 \in 0 .. Cap
  BY FlowEntryAssumption
<1>2. TypeOK
  BY <1>1 DEF Init, TypeOK, PCs, Holding
<1>3. Registers /\ AgeLooks
  BY DEF Init, Registers, Updating, AgeLooks
<1>4. Answers /\ Spoke
  BY DEF Init, Answers, Spoke
<1>5. QED BY <1>2, <1>3, <1>4 DEF FullInv, IInv

LEMMA ArriveKeeps ==
  ASSUME IInv, NEW l \in Lcores, NEW p \in Route[l],
         Arrive(l, p[1], p[2]) \/ (p[2] = "pipeline" /\ Vouch(l, p[1]))
  PROVE  IInv'
<1>1. p[1] \in Segments /\ p[2] \in Ways
  BY FlowEntryAssumption
<1>2. CASE Arrive(l, p[1], p[2])
  BY <1>1, <1>2, ReceiveKeeps DEF Arrive
<1>3. CASE p[2] = "pipeline" /\ Vouch(l, p[1])
  BY <1>1, <1>3, ReceiveKeeps DEF Vouch
<1>4. QED BY <1>2, <1>3

LEMMA StepKeeps == ASSUME IInv, NEW l \in Lcores, Step(l) PROVE IInv'
<1>1. CASE \E p \in Route[l] : Arrive(l, p[1], p[2]) \/ (p[2] = "pipeline" /\ Vouch(l, p[1]))
  BY <1>1, ArriveKeeps
<1>2. CASE Unverified(l) \/ NotTracked(l) \/ RateLimited(l)
  BY <1>2, DropKeeps DEF Unverified, NotTracked, RateLimited
<1>3. CASE VouchState(l) \/ VouchAck(l) \/ Create(l) \/ Validate(l)
  BY <1>3, VouchStateKeeps, VouchAckKeeps, CreateKeeps, ValidateKeeps
<1>4. CASE CountPacket(l) \/ Load(l) \/ StoreSeq(l) \/ SetVerified(l)
  BY <1>4, CountPacketKeeps, LoadKeeps, StoreSeqKeeps, SetVerifiedKeeps
<1>5. CASE StoreState(l) \/ MarkVerified(l) \/ MarkEstablished(l)
  BY <1>5, StoreStateKeeps, MarkVerifiedKeeps, MarkEstablishedKeeps
<1>6. QED BY <1>1, <1>2, <1>3, <1>4, <1>5 DEF Step

LEMMA NextInv == FullInv /\ [Next]_vars => FullInv'
<1> SUFFICES ASSUME IInv, AgeLooks, [Next]_vars PROVE IInv' /\ AgeLooks'
  BY DEF FullInv
<1>1. ASSUME NEW l \in Lcores, Step(l) PROVE IInv' /\ AgeLooks'
  BY <1>1, StepKeeps, StepLooks
<1>2. CASE EvictCheck \/ EvictClaim
  <2>1. AgeLooks'
    BY <1>2 DEF EvictCheck, EvictClaim, LockFree, AgeLooks, ageVars
  <2>2. QED BY <1>2, <2>1, EvictKeeps
<1>3. CASE Age
  BY <1>3, AgeStepKeeps
<1>4. CASE Tick
  <2>1. idle' \in 0 .. Cap
    BY <1>4, FlowEntryAssumption DEF Tick, IInv, TypeOK
  <2>2. QED BY <1>4, <2>1, LookKeeps DEF Tick, AgeLooks, IInv, TypeOK
<1>5. CASE UNCHANGED vars
  BY <1>5 DEF vars, packetVars, ageVars, historyVars, IInv, TypeOK, Registers, Answers, AnswersOf,
              Answered, Responder, Spoke, AgeLooks
<1>6. QED BY <1>1, <1>2, <1>3, <1>4, <1>5 DEF Next

LEMMA Inductive == Spec => []FullInv
BY InitInv, NextInv, PTL DEF Spec

\* Every variable keeps its type; whoever works on the flow has one.
THEOREM TypeCorrect == Spec => []TypeOK
<1>1. FullInv => TypeOK
  BY DEF FullInv, IInv
<1>2. QED BY <1>1, Inductive, PTL

\* What each step does to the mark of a verified handshake.
LEMMA VerifiedBy ==
  ASSUME FullInv, [Next]_vars, ~Verified, Verified'
  PROVE  \E l \in Lcores : MarkVerified(l) \/ SetVerified(l)
<1>1. ASSUME NEW l \in Lcores, Step(l) PROVE MarkVerified(l) \/ SetVerified(l)
  <2>1. CASE UNCHANGED flow
    BY <2>1 DEF Verified
  <2>2. CASE Create(l)
    BY <2>2 DEF Create, NewFlow, Verified
  <2>3. CASE CountPacket(l) \/ Load(l) \/ StoreSeq(l) \/ StoreState(l) \/ MarkEstablished(l)
    <3>1. flow \in FlowRecord /\ flow # None
      BY <2>3, AtWork DEF CountPacket, Load, StoreSeq, StoreState, MarkEstablished, Holding,
                          FullInv
    <3>2. flow'.acked = flow.acked
      BY <2>3, <3>1 DEF CountPacket, Load, StoreSeq, StoreState, MarkEstablished, FlowRecord
    <3>3. QED BY <3>1, <3>2 DEF Verified
  <2>4. QED BY <1>1, <2>1, <2>2, <2>3
        DEF Step, Arrive, Vouch, Receive, VouchState, VouchAck, Unverified, NotTracked,
            Validate, RateLimited
<1>2. CASE EvictCheck \/ EvictClaim \/ Age \/ Tick \/ UNCHANGED vars
  BY <1>2 DEF EvictCheck, EvictClaim, Age, AgeScan, AgeRecheck, AgeDelete, Tick, Deleted,
              Verified, vars
<1>3. QED BY <1>1, <1>2 DEF Next

\* A handshake becomes verified only by the SYN proxy's word or by an
\* acknowledgement of a number the responder has really sent in this flow.
THEOREM VerifiedWasAnsweredCorrect == Spec => VerifiedWasAnswered
<1> DEFINE Vouched == \E l \in Lcores : \/ pc[l] = "mark" /\ way[l] = "proof"
                                        \/ /\ pc[l] = "flag" /\ seg[l].from = flow.initiator
                                           /\ seg[l].ack \in said
<1>1. ASSUME FullInv, [Next]_vars, ~Verified, Verified' PROVE Vouched
  <2>1. ASSUME NEW l \in Lcores, MarkVerified(l) PROVE Vouched
    BY <1>1, <2>1 DEF MarkVerified, FullInv, IInv, Registers
  <2>2. ASSUME NEW l \in Lcores, SetVerified(l) PROVE Vouched
    <3>1. /\ flow \in FlowRecord /\ flow # None /\ pc[l] = "flag"
          /\ seg[l].from = flow.initiator /\ Answered
      BY <1>1, <2>2, AtWork DEF SetVerified, Holding, FullInv, IInv, Answers, AnswersOf
    <3>2. flow'.acked = (flow.acked \/ AcksResponder(seg[l]))
      BY <2>2, <3>1 DEF SetVerified, FlowRecord
    <3>3. seg[l].ack = flow.seq[Responder]
      BY <1>1, <3>1, <3>2 DEF Verified, AcksResponder, Responder
    <3>4. QED BY <3>1, <3>3 DEF Answered
  <2>3. QED BY <1>1, <2>1, <2>2, VerifiedBy
<1>2. QED BY <1>1, Inductive, PTL DEF Spec, VerifiedWasAnswered

\* Stage 8b admits on the word of the flow only what is verified, or what the
\* host inside has vouched for or sent the acknowledged number of.
THEOREM OutsideVouchesNothingCorrect == Spec => OutsideVouchesNothing
<1> DEFINE Admits(l) == pc[l] # "vouched" /\ pc'[l] = "vouched"
           Founded(l) == flow.acked \/ inside_spoke \/ seg'[l].ack \in said
<1>1. ASSUME FullInv, [Next]_vars, NEW l \in Lcores, Admits(l) PROVE Founded(l)
  <2>1. ASSUME NEW p \in Route[l], p[2] = "pipeline", Vouch(l, p[1]) PROVE Founded(l)
    BY <1>1, <2>1 DEF Vouch, Receive, Goto, VouchedBy, Other, FullInv, IInv, TypeOK, Spoke
  <2>2. ASSUME VouchAck(l) PROVE Founded(l)
    <3>1. AnswersOf(l) /\ flow # None
      BY <2>2, <1>1 DEF VouchAck, FullInv, IInv, TypeOK, Holding, Answers
    <3>2. seg'[l] = seg[l] /\ seg[l].ack = flow.seq[Other(seg[l].from)]
      BY <1>1, <2>2 DEF VouchAck, Finished, Goto, FullInv, IInv, TypeOK
    <3>3. QED BY <2>2, <3>1, <3>2 DEF VouchAck, AnswersOf, Answered, Responder
  <2>3. ASSUME NEW m \in Lcores, Step(m) PROVE Founded(l)
    <3>1. CASE \E p \in Route[m] : p[2] = "pipeline" /\ Vouch(m, p[1])
      <4>1. m = l
        BY <1>1, <3>1 DEF Vouch, Receive, Goto, FullInv, IInv, TypeOK
      <4>2. QED BY <2>1, <3>1, <4>1
    <3>2. CASE VouchAck(m)
      <4>1. m = l
        BY <1>1, <3>2 DEF VouchAck, Finished, Goto, FullInv, IInv, TypeOK
      <4>2. QED BY <2>2, <3>2, <4>1
    <3>3. CASE \E p \in Route[m] : Arrive(m, p[1], p[2])
      BY <1>1, <3>3 DEF Arrive, Receive, Goto, FullInv, IInv, TypeOK
    <3>4. CASE VouchState(m) \/ Unverified(m) \/ Create(m) \/ NotTracked(m)
      BY <1>1, <3>4 DEF VouchState, Unverified, Create, NotTracked, Finished, Goto,
                        FullInv, IInv, TypeOK
    <3>5. CASE Validate(m) \/ RateLimited(m) \/ CountPacket(m) \/ Load(m)
      BY <1>1, <3>5 DEF Validate, RateLimited, CountPacket, Load, Finished, Goto,
                        FullInv, IInv, TypeOK
    <3>6. CASE StoreSeq(m)
      BY <1>1, <3>6 DEF StoreSeq, Updated, Finished, Goto, FullInv, IInv, TypeOK
    <3>7. CASE SetVerified(m) \/ StoreState(m) \/ MarkVerified(m) \/ MarkEstablished(m)
      BY <1>1, <3>7 DEF SetVerified, StoreState, MarkVerified, MarkEstablished, Updated,
                        Finished, Goto, FullInv, IInv, TypeOK
    <3>8. QED BY <2>3, <3>1, <3>2, <3>3, <3>4, <3>5, <3>6, <3>7 DEF Step
  <2>4. CASE EvictCheck \/ EvictClaim \/ Age \/ Tick \/ UNCHANGED vars
    BY <1>1, <2>4 DEF EvictCheck, EvictClaim, Age, AgeScan, AgeRecheck, AgeDelete, Tick, Deleted,
                      packetVars, vars, FullInv, IInv, TypeOK
  <2>5. QED BY <1>1, <2>3, <2>4 DEF Next
<1>2. FullInv /\ [Next]_vars =>
        \A l \in Lcores :
          pc[l] # "vouched" /\ pc'[l] = "vouched" =>
            flow.acked \/ inside_spoke \/ seg'[l].ack \in said
  BY <1>1
<1>3. QED BY <1>2, Inductive, PTL DEF Spec, OutsideVouchesNothing
=============================================================================
