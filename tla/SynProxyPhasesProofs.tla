------------------------ MODULE SynProxyPhasesProofs ------------------------
(***************************************************************************)
(* The connection table implements one connection per 4-tuple, each with   *)
(* the life cycle of SynConnections, whichever lcores work on it.          *)
(***************************************************************************)
EXTENDS SynProxyProofs

-----------------------------------------------------------------------------
(* The phase of a 4-tuple is that of the live entry that stands for it.      *)

PhaseOf(c) ==
  CASE c.st = "BYPASSED"   -> IF c.hs THEN "verified" ELSE "bypassed"
    [] c.st = "CONNECTING" -> "connecting" [] c.st = "ESTABLISHED" -> "established"
    [] c.st = "CLIENT_FIN" -> "client_fin" [] c.st = "SERVER_FIN"  -> "server_fin"
    [] c.st = "CLOSING"    -> "closing"    [] c.st = "CLOSED"      -> "closed"

Stands(s, k) == Live(ctl[s]) /\ ctl[s].of = k

PhasesKnown ==
  \A k \in Keys :
    /\ \A s \in Slots : Stands(s, k) => Phase(k) = PhaseOf(ctl[s]) /\ conn_hash[k] = s
    /\ (\A s \in Slots : ~Stands(s, k)) => Phase(k) = "none"

LEMMA PhasesAreKnown ==
  ASSUME IInv
  PROVE  PhasesKnown
<1>1. SUFFICES ASSUME NEW k \in Keys
               PROVE  /\ \A s \in Slots : Stands(s, k) => Phase(k) = PhaseOf(ctl[s]) /\ conn_hash[k] = s
                      /\ (\A s \in Slots : ~Stands(s, k)) => Phase(k) = "none"
  BY DEF PhasesKnown
<1>2. ASSUME NEW s \in Slots, Stands(s, k)
      PROVE  Phase(k) = PhaseOf(ctl[s]) /\ conn_hash[k] = s
  <2>1. conn_hash[k] = s /\ conn_key[s] = k /\ Live(ctl[s])
    BY <1>2 DEF IInv, Entry, Stands, Begun
  <2>2. s # None
    BY SynProxyAssumption
  <2>3. QED BY <2>1, <2>2 DEF Phase, PhaseOf
<1>3. ASSUME \A s \in Slots : ~Stands(s, k)
      PROVE  Phase(k) = "none"
  <2>1. CASE conn_hash[k] = None
    BY <2>1 DEF Phase
  <2>2. CASE conn_hash[k] # None
    <3>1. PICK s \in Slots : s = conn_hash[k]
      BY <2>2 DEF IInv, Types, SharedTypes
    <3>2. Live(ctl[s]) => conn_key[s] = ctl[s].of
      BY DEF IInv, Entry, Begun
    <3>3. ~Live(ctl[s]) \/ conn_key[s] # k
      BY <1>3, <3>2 DEF Stands
    <3>4. QED BY <3>1, <3>3 DEF Phase
  <2>3. QED BY <2>1, <2>2
<1>4. QED BY <1>2, <1>3

phases == [k \in Keys |-> Phase(k)]

LEMMA PhasesStay ==
  ASSUME PhasesKnown, PhasesKnown', UNCHANGED ctl
  PROVE  UNCHANGED phases
<1>1. ASSUME NEW k \in Keys
      PROVE  Phase(k)' = Phase(k)
  <2>1. CASE \A s \in Slots : ~Stands(s, k)
    <3>1. \A s \in Slots : ~Stands(s, k)'
      BY <2>1 DEF Stands
    <3>2. QED BY <2>1, <3>1 DEF PhasesKnown
  <2>2. CASE ~(\A s \in Slots : ~Stands(s, k))
    <3>1. PICK s \in Slots : Stands(s, k)
      BY <2>2
    <3>2. Stands(s, k)' /\ PhaseOf(ctl[s])' = PhaseOf(ctl[s])
      BY <3>1 DEF Stands, PhaseOf
    <3>3. QED BY <3>1, <3>2 DEF PhasesKnown
  <2>3. QED BY <2>1, <2>2
<1>2. QED BY <1>1 DEF phases

\* A step that sets the word of one entry changes one 4-tuple's phase.
LEMMA PhaseMoves ==
  ASSUME IInv, PhasesKnown, PhasesKnown', NEW at \in Slots, NEW w, ctl' = [ctl EXCEPT ![at] = w],
         NEW k \in Keys, Live(ctl[at]) => ctl[at].of = k, Live(w) => w.of = k,
         ~Live(ctl[at]) /\ Live(w) => conn_hash[k] = at
  PROVE  /\ phases' = [phases EXCEPT ![k] = Phase(k)']
         /\ Live(ctl[at]) => Phase(k) = PhaseOf(ctl[at])
         /\ Live(w) => Phase(k)' = PhaseOf(w)
         /\ Live(ctl[at]) /\ ~Live(w) => Phase(k)' = "none"
         /\ ~Live(ctl[at]) /\ Live(w) => Phase(k) = "none"
         /\ ~Live(ctl[at]) /\ ~Live(w) => Phase(k)' = Phase(k)
<1>1. ctl'[at] = w /\ \A s \in Slots : s # at => ctl'[s] = ctl[s]
  BY DEF IInv, Types, SharedTypes
<1>2. \A s \in Slots, j \in Keys : s # at => (Stands(s, j)' <=> Stands(s, j))
  BY <1>1 DEF Stands
<1>3. \A s \in Slots : s # at => PhaseOf(ctl[s])' = PhaseOf(ctl[s])
  BY <1>1 DEF PhaseOf
<1>4. PhaseOf(ctl[at])' = PhaseOf(w)
  BY <1>1 DEF PhaseOf
<1>5. \A j \in Keys : /\ Stands(at, j) <=> Live(ctl[at]) /\ k = j
                      /\ Stands(at, j)' <=> Live(w) /\ k = j
  BY <1>1 DEF Stands
<1>6. ASSUME NEW j \in Keys, j # k \/ (~Live(ctl[at]) /\ ~Live(w))
      PROVE  Phase(j)' = Phase(j)
  <2>1. CASE \A s \in Slots : ~Stands(s, j)
    <3>1. \A s \in Slots : ~Stands(s, j)'
      BY <1>2, <1>5, <1>6, <2>1
    <3>2. QED BY <2>1, <3>1 DEF PhasesKnown
  <2>2. CASE ~(\A s \in Slots : ~Stands(s, j))
    <3>1. PICK s \in Slots : Stands(s, j)
      BY <2>2
    <3>2. s # at
      BY <1>5, <1>6, <3>1
    <3>3. Stands(s, j)' /\ PhaseOf(ctl[s])' = PhaseOf(ctl[s])
      BY <1>2, <1>3, <3>1, <3>2
    <3>4. QED BY <3>1, <3>3 DEF PhasesKnown
  <2>3. QED BY <2>1, <2>2
<1>7. phases' = [phases EXCEPT ![k] = Phase(k)']
  BY <1>6 DEF phases
<1>8. Live(ctl[at]) => Phase(k) = PhaseOf(ctl[at])
  BY <1>5 DEF PhasesKnown
<1>9. Live(w) => Phase(k)' = PhaseOf(w)
  BY <1>4, <1>5 DEF PhasesKnown
<1>10. ASSUME Live(ctl[at]), ~Live(w)
       PROVE  Phase(k)' = "none"
  <2>1. \A s \in Slots : Stands(s, k) => s = at
    BY <1>5, <1>10 DEF PhasesKnown
  <2>2. \A s \in Slots : ~Stands(s, k)'
    BY <1>2, <1>5, <1>10, <2>1
  <2>3. QED BY <2>2 DEF PhasesKnown
<1>11. ASSUME ~Live(ctl[at]), Live(w)
       PROVE  Phase(k) = "none"
  <2>1. \A s \in Slots : Stands(s, k) => s = at
    BY <1>11 DEF PhasesKnown
  <2>2. \A s \in Slots : ~Stands(s, k)
    BY <1>5, <1>11, <2>1
  <2>3. QED BY <2>2 DEF PhasesKnown
<1>12. QED BY <1>6, <1>7, <1>8, <1>9, <1>10, <1>11

-----------------------------------------------------------------------------
(* Each step maps to one of the connection, or to none.                      *)

CStep == Connections!CNext \/ UNCHANGED phases

LEMMA MoveStep ==
  ASSUME NEW k \in Keys, phases' = [phases EXCEPT ![k] = Phase(k)'],
         <<Phase(k), Phase(k)'>> \in Connections!Moves, Phase(k)' \in Connections!Phases
  PROVE  CStep
<1>1. phases[k] = Phase(k)
  BY DEF phases
<1>2. Connections!Move(k)
  BY <1>1 DEF Connections!Move, Connections!Becomes, phases
<1>3. QED BY <1>2 DEF CStep, Connections!CNext

LEMMA EndStep ==
  ASSUME NEW k \in Keys, phases' = [phases EXCEPT ![k] = Phase(k)'],
         Phase(k) # "none", Phase(k)' = "none"
  PROVE  CStep
<1>1. phases[k] = Phase(k)
  BY DEF phases
<1>2. Connections!End(k)
  BY <1>1 DEF Connections!End, Connections!Becomes, phases
<1>3. QED BY <1>2 DEF CStep, Connections!CNext

LEMMA SameStep ==
  ASSUME NEW k \in Keys, phases' = [phases EXCEPT ![k] = Phase(k)'], Phase(k)' = Phase(k)
  PROVE  CStep
<1>1. [phases EXCEPT ![k] = phases[k]] = phases /\ phases[k] = Phase(k)
  BY DEF phases
<1>2. UNCHANGED phases
  BY <1>1
<1>3. QED BY <1>2 DEF CStep

LEMMA Knows ==
  ASSUME IInv, NEW l \in Lcores
  PROVE  /\ Registers(l) /\ Owns(l) /\ Held(l) /\ WellFormed(word[l])
         /\ pc[l] \notin AtScan \cup {"idle"} => key[l] \in Keys
         /\ pc[l] \notin AtUnset => slot[l] \in Slots
         /\ slot[l] \in Slots => Entry(slot[l]) /\ WellFormed(ctl[slot[l]])
BY DEF IInv, Lcore, Registers, Entry

\* A claim, and freeing a slot that a retired entry leaves.
LEMMA ClaimMaps ==
  ASSUME IInv, PhasesKnown, PhasesKnown', NEW l \in Lcores, Claim(l) \/ DeadNone(l)
  PROVE  CStep
<1>1. pc[l] \in {"claim", "dead_none"}
  BY DEF Claim, DeadNone
<1>2. Held(l) /\ Owns(l) /\ slot[l] \in Slots /\ key[l] \in Keys
  BY <1>1, Knows DEF AtScan, AtUnset
<1>3. CASE UNCHANGED ctl
  BY <1>3, PhasesStay DEF CStep
<1>4. CASE ~UNCHANGED ctl
  <2>1. ~Live(ctl[slot[l]])
    BY <1>2, <1>4 DEF Claim, DeadNone, Held, Owns, Live
  <2>2. PICK w : ctl' = [ctl EXCEPT ![slot[l]] = w] /\ ~Live(w)
    <3>1. /\ ~Live(InitWord(word[l].gen, key[l])) /\ ~Live(FreeWord(NextGen(word[l])))
      BY DEF Live, InitWord, FreeWord, Word
    <3>2. \/ ctl' = [ctl EXCEPT ![slot[l]] = InitWord(word[l].gen, key[l])]
          \/ ctl' = [ctl EXCEPT ![slot[l]] = FreeWord(NextGen(word[l]))]
      BY <1>4 DEF Claim, DeadNone
    <3>3. QED BY <3>1, <3>2
  <2>3. PICK k \in Keys, at \in Slots : k = key[l] /\ at = slot[l]
    BY <1>2
  <2>4. phases' = [phases EXCEPT ![k] = Phase(k)'] /\ Phase(k)' = Phase(k)
    BY <2>1, <2>2, <2>3, PhaseMoves
  <2>5. QED BY <2>4, SameStep
<1>5. QED BY <1>3, <1>4

LEMMA PublishMaps ==
  ASSUME IInv, PhasesKnown, PhasesKnown', NEW l \in Lcores, Publish(l)
  PROVE  CStep
<1>1. pc[l] = "publish"
  BY DEF Publish
<1>2. Owns(l) /\ slot[l] \in Slots /\ key[l] \in Keys /\ Entry(slot[l])
  BY <1>1, Knows DEF AtScan, AtUnset
<1>3. PICK k \in Keys, at \in Slots : k = key[l] /\ at = slot[l]
  BY <1>2
<1>4. PICK w : w = Published(word[l], IF seg[l] = "ack" THEN "CONNECTING" ELSE "BYPASSED")
  OBVIOUS
<1>5. ctl' = [ctl EXCEPT ![at] = w]
  BY <1>3, <1>4 DEF Publish
<1>6. ctl[at] = word[l] /\ ctl[at].st = "INIT" /\ ctl[at].of = k
  BY <1>1, <1>2, <1>3 DEF Owns, InitWord, Word
<1>7. conn_hash[k] = at
  BY <1>2, <1>3, <1>6 DEF Entry
<1>8. w.of = k /\ w.st \in {"CONNECTING", "BYPASSED"} /\ ~w.hs
  BY <1>4, <1>6 DEF Published, Word
<1>9. Live(w) /\ ~Live(ctl[at]) /\ PhaseOf(w) \in {"connecting", "bypassed"}
  BY <1>6, <1>8 DEF Live, PhaseOf
<1>10. phases' = [phases EXCEPT ![k] = Phase(k)'] /\ Phase(k) = "none" /\ Phase(k)' = PhaseOf(w)
  BY <1>5, <1>7, <1>8, <1>9, PhaseMoves
<1>11. QED BY <1>9, <1>10, MoveStep DEF Connections!Moves, Connections!Phases

\* A step that changes a live entry, the same connection before and after it.
LEMMA LiveMaps ==
  ASSUME IInv, PhasesKnown, PhasesKnown', NEW at \in Slots, NEW w, ctl' = [ctl EXCEPT ![at] = w],
         Live(ctl[at]), Live(w), w.of = ctl[at].of,
         \/ PhaseOf(w) = PhaseOf(ctl[at])
         \/ <<PhaseOf(ctl[at]), PhaseOf(w)>> \in Connections!Moves /\ PhaseOf(w) \in Connections!Phases
  PROVE  CStep
<1>1. PICK k \in Keys : k = ctl[at].of
  BY DEF IInv, Entry, WellFormed, Live
<1>2. /\ phases' = [phases EXCEPT ![k] = Phase(k)']
      /\ Phase(k) = PhaseOf(ctl[at]) /\ Phase(k)' = PhaseOf(w)
  <2>1. /\ Live(ctl[at]) => ctl[at].of = k
        /\ Live(w) => w.of = k
        /\ ~Live(ctl[at]) /\ Live(w) => conn_hash[k] = at
    BY <1>1
  <2>2. QED BY <2>1, PhaseMoves
<1>3. CASE PhaseOf(w) = PhaseOf(ctl[at])
  BY <1>2, <1>3, SameStep
<1>4. CASE <<PhaseOf(ctl[at]), PhaseOf(w)>> \in Connections!Moves /\ PhaseOf(w) \in Connections!Phases
  BY <1>2, <1>4, MoveStep
<1>5. QED BY <1>3, <1>4

LEMMA RetireMaps ==
  ASSUME IInv, PhasesKnown, PhasesKnown', NEW at \in Slots, NEW w, ctl' = [ctl EXCEPT ![at] = w],
         Live(ctl[at]), ~Live(w)
  PROVE  CStep
<1>1. PICK k \in Keys : k = ctl[at].of
  BY DEF IInv, Entry, WellFormed, Live
<1>2. /\ phases' = [phases EXCEPT ![k] = Phase(k)']
      /\ Phase(k) = PhaseOf(ctl[at]) /\ Phase(k)' = "none"
  BY <1>1, PhaseMoves
<1>3. PhaseOf(ctl[at]) # "none"
  <2>1. ctl[at].st \in Proxied \cup {"BYPASSED"}
    BY DEF Live, IInv, Entry, WellFormed, Words, States
  <2>2. QED BY <2>1 DEF PhaseOf, Proxied
<1>4. QED BY <1>2, <1>3, EndStep

LEMMA SynAckMaps ==
  ASSUME IInv, PhasesKnown, PhasesKnown', NEW l \in Lcores, SynAck(l) \/ SynAckPublish(l)
  PROVE  CStep
<1>1. pc[l] \in {"synack", "synack_publish"}
  BY DEF SynAck, SynAckPublish
<1>2. Owns(l) /\ Held(l) /\ slot[l] \in Slots
  BY <1>1, Knows DEF AtUnset
<1>3. CASE UNCHANGED ctl
  BY <1>3, PhasesStay DEF CStep
<1>4. CASE ~UNCHANGED ctl
  <2>1. PICK at \in Slots, c \in {word[l]} : at = slot[l] /\ c = word[l]
    BY <1>2
  <2>2. ctl[at] = c /\ c.st \in {"CONNECTING", "ESTABLISHED"}
    BY <1>2, <1>4, <2>1 DEF SynAck, SynAckPublish, Held, Owns
  <2>3. PICK b : ctl' = [ctl EXCEPT ![at] = Word("ESTABLISHED", c.gen, b, c.fc, c.fs, c.isn, c.hs, c.of)]
    BY <1>4, <2>1 DEF SynAck, SynAckPublish
  <2>4. PICK w : w = Word("ESTABLISHED", c.gen, b, c.fc, c.fs, c.isn, c.hs, c.of)
    OBVIOUS
  <2>5. w.st = "ESTABLISHED" /\ w.of = ctl[at].of
    BY <2>2, <2>4 DEF Word
  <2>6. /\ PhaseOf(w) = "established" /\ PhaseOf(ctl[at]) \in {"connecting", "established"}
        /\ Live(w) /\ Live(ctl[at])
    BY <2>2, <2>5 DEF PhaseOf, Live
  <2>7. /\ <<"connecting", "established">> \in Connections!Moves
        /\ "established" \in Connections!Phases
    BY DEF Connections!Moves, Connections!Phases
  <2>8. ctl' = [ctl EXCEPT ![at] = w]
    BY <2>3, <2>4
  <2>9. QED BY <2>5, <2>6, <2>7, <2>8, LiveMaps
<1>5. QED BY <1>3, <1>4

\* A segment carries the FIN of one side, so a close takes no two steps at once.
LEMMA CloseSwapMaps ==
  ASSUME IInv, PhasesKnown, PhasesKnown', NEW l \in Lcores, CloseSwap(l)
  PROVE  CStep
<1>1. pc[l] = "close_swap"
  BY DEF CloseSwap
<1>2. /\ Held(l) /\ slot[l] \in Slots /\ WellFormed(word[l])
      /\ seg[l] \in {"fin", "s_fin", "ack", "s_ack"}
  BY <1>1, Knows DEF AtUnset, Registers
<1>3. CASE UNCHANGED ctl
  BY <1>3, PhasesStay DEF CStep
<1>4. CASE ~UNCHANGED ctl
  <2>1. PICK at \in Slots, c \in {word[l]} : at = slot[l] /\ c = word[l]
    BY <1>2
  <2>2. PICK w : w = WantClose(l)
    OBVIOUS
  <2>3. ctl[at] = c /\ c.st \in Closable /\ ctl' = [ctl EXCEPT ![at] = w]
    BY <1>1, <1>2, <1>4, <2>1, <2>2 DEF CloseSwap, SwapSucceeds, Held
  <2>4. w.of = c.of
    BY <2>1, <2>2 DEF WantClose, Word
  <2>5. /\ c.fc => c.st \in {"CLIENT_FIN", "CLOSING"}
        /\ c.fs => c.st \in {"SERVER_FIN", "CLOSING"}
    BY <1>2, <2>1, <2>3 DEF WellFormed, ClientFin, ServerFin, Closable
  <2>6. PICK ac, as \in BOOLEAN :
          /\ ac = (AcksFin(l) /\ FromServer(l)) /\ as = (AcksFin(l) /\ ~FromServer(l))
    OBVIOUS
  <2>7. /\ seg[l] = "s_fin" => ~as
        /\ seg[l] = "fin" => ~ac
    BY <2>6 DEF FromServer, Outbound
  <2>8. /\ w.st = LET cfin == c.st \in {"CLIENT_FIN", "CLOSING"} \/ seg[l] = "fin"
                      sfin == c.st \in {"SERVER_FIN", "CLOSING"} \/ seg[l] = "s_fin"
                  IN  IF cfin /\ sfin THEN IF (c.fc \/ ac) /\ (c.fs \/ as) THEN "CLOSED" ELSE "CLOSING"
                      ELSE IF cfin THEN "CLIENT_FIN" ELSE IF sfin THEN "SERVER_FIN" ELSE "ESTABLISHED"
    BY <2>1, <2>2, <2>6 DEF WantClose, Word, ClientFin, ServerFin
  <2>9. \/ w.st = c.st
        \/ <<c.st, w.st>> \in {<<"ESTABLISHED", "CLIENT_FIN">>, <<"ESTABLISHED", "SERVER_FIN">>,
                               <<"CLIENT_FIN", "CLOSING">>, <<"SERVER_FIN", "CLOSING">>,
                               <<"CLOSING", "CLOSED">>}
    BY <1>2, <2>3, <2>5, <2>7, <2>8 DEF Closable
  <2>10. w.st \in Closable \cup {"CLOSED"}
    BY <2>3, <2>9 DEF Closable
  <2>11. Live(w) /\ Live(c)
    BY <2>3, <2>10 DEF Live, Closable
  <2>12. \/ PhaseOf(w) = PhaseOf(c)
         \/ <<PhaseOf(c), PhaseOf(w)>> \in Connections!Moves /\ PhaseOf(w) \in Connections!Phases
    BY <2>3, <2>9, <2>10 DEF PhaseOf, Closable, Connections!Moves, Connections!Phases
  <2>13. QED BY <2>3, <2>4, <2>11, <2>12, LiveMaps
<1>5. QED BY <1>3, <1>4

LEMMA BypassMaps ==
  ASSUME IInv, PhasesKnown, PhasesKnown', NEW l \in Lcores, BypassSwap(l) \/ Recorded(l)
  PROVE  CStep
<1>1. pc[l] \in {"bypass_swap", "recorded"}
  BY DEF BypassSwap, Recorded
<1>2. Owns(l) /\ Held(l) /\ slot[l] \in Slots
  BY <1>1, Knows DEF AtUnset
<1>3. CASE UNCHANGED ctl
  BY <1>3, PhasesStay DEF CStep
<1>4. CASE ~UNCHANGED ctl
  <2>1. PICK at \in Slots, c \in {ctl[slot[l]]} : at = slot[l] /\ c = ctl[at]
    BY <1>2
  <2>2. PICK w : w = IF pc[l] = "recorded" THEN Word(c.st, c.gen, FALSE, c.fc, c.fs, TRUE, c.hs, c.of)
                     ELSE WantBypass(l)
    OBVIOUS
  <2>3. ctl' = [ctl EXCEPT ![at] = w] /\ c.st = "BYPASSED" /\ (pc[l] # "recorded" => c = word[l])
    <3>1. CASE Recorded(l)
      BY <1>2, <2>1, <2>2, <3>1 DEF Recorded, Owns
    <3>2. CASE BypassSwap(l)
      BY <1>2, <1>4, <2>1, <2>2, <3>2 DEF BypassSwap, SwapSucceeds, Held
    <3>3. QED BY <3>1, <3>2
  <2>4. w.st = "BYPASSED" /\ w.of = c.of /\ (c.hs => w.hs)
    <3>1. CASE pc[l] = "recorded"
      BY <2>2, <2>3, <3>1 DEF Word
    <3>2. CASE pc[l] # "recorded"
      <4>1. w = WantBypass(l) /\ c = word[l]
        BY <2>2, <2>3, <3>2
      <4>2. w.st = word[l].st /\ w.of = word[l].of /\ w.hs = (word[l].hs \/ AcksIsn(l))
        BY <4>1 DEF WantBypass, Word
      <4>3. QED BY <2>3, <4>1, <4>2
    <3>3. QED BY <3>1, <3>2
  <2>5. Live(w) /\ Live(ctl[at]) /\ w.of = ctl[at].of
    BY <2>1, <2>3, <2>4 DEF Live
  <2>6. \/ PhaseOf(w) = PhaseOf(ctl[at])
        \/ PhaseOf(ctl[at]) = "bypassed" /\ PhaseOf(w) = "verified"
    BY <2>1, <2>3, <2>4 DEF PhaseOf
  <2>7. <<"bypassed", "verified">> \in Connections!Moves /\ "verified" \in Connections!Phases
    BY DEF Connections!Moves, Connections!Phases
  <2>8. QED BY <2>3, <2>5, <2>6, <2>7, LiveMaps
<1>5. QED BY <1>3, <1>4

LEMMA RetiresMap ==
  ASSUME IInv, PhasesKnown, PhasesKnown', NEW l \in Lcores, BypassRetire(l) \/ Free(l) \/ CleanRetire(l)
  PROVE  CStep
<1>1. pc[l] \in {"bypass_retire", "free", "clean_retire"}
  BY DEF BypassRetire, Free, CleanRetire
<1>2. Held(l) /\ slot[l] \in Slots
  BY <1>1, Knows DEF AtUnset
<1>3. CASE UNCHANGED ctl
  BY <1>3, PhasesStay DEF CStep
<1>4. CASE ~UNCHANGED ctl
  <2>1. PICK at \in Slots : at = slot[l]
    BY <1>2
  <2>2. Live(ctl[at]) /\ \E c : ctl' = [ctl EXCEPT ![at] = DeadWord(c)]
    <3>1. CASE Free(l)
      BY <1>4, <2>1, <3>1 DEF Free, Retires
    <3>2. CASE BypassRetire(l) \/ CleanRetire(l)
      BY <1>2, <1>4, <2>1, <3>2 DEF BypassRetire, CleanRetire, SwapSucceeds, Held, Live
    <3>3. QED BY <3>1, <3>2
  <2>3. PICK c : ctl' = [ctl EXCEPT ![at] = DeadWord(c)]
    BY <2>2
  <2>4. PICK w : w = DeadWord(c)
    OBVIOUS
  <2>5. ctl' = [ctl EXCEPT ![at] = w] /\ ~Live(w)
    BY <2>3, <2>4 DEF DeadWord, Word, Live
  <2>6. QED BY <2>2, <2>5, RetireMaps
<1>5. QED BY <1>3, <1>4

LEMMA StepMaps ==
  ASSUME IInv, PhasesKnown, PhasesKnown', [Next]_vars
  PROVE  CStep
<1>1. CASE UNCHANGED vars
  BY <1>1, PhasesStay DEF vars, CStep
<1>2. CASE Next
  <2>1. ASSUME NEW l \in Lcores, QuietSteps(l) PROVE CStep
    BY <2>1, QuietKeeps, PhasesStay DEF CStep
  <2>2. QED
    BY <1>2, <2>1, StepKinds, ClaimMaps, PublishMaps, SynAckMaps, CloseSwapMaps, BypassMaps, RetiresMap
<1>3. QED BY <1>1, <1>2

LEMMA InitMaps == Init => Connections!CInit
BY DEF Init, Phase, Connections!CInit

\* However its lcores interleave, the table behaves like one connection per
\* 4-tuple: no phase is skipped or repeated, nothing but the end of a connection
\* leads back, and no step changes two connections at once.
THEOREM TableImplementsConnections == Spec => ImplementsConnections
<1>1. Init => Connections!CInit
  BY InitMaps
<1>2. IInv => PhasesKnown
  BY PhasesAreKnown
<1>3. IInv /\ PhasesKnown /\ PhasesKnown' /\ [Next]_vars => [Connections!CNext]_phases
  BY StepMaps DEF CStep
<1>4. QED
  BY <1>1, <1>2, <1>3, Invariant, PTL DEF Spec, ImplementsConnections, Connections!CSpec, phases
=============================================================================
