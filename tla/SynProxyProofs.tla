--------------------------- MODULE SynProxyProofs ---------------------------
(***************************************************************************)
(* Proofs about the SYN proxy's connection table, for any 4-tuples, slots  *)
(* and lcores.                                                             *)
(***************************************************************************)
EXTENDS SynProxy, FiniteSetTheorems, TLAPS

-----------------------------------------------------------------------------
(* Words.                                                                    *)

Owned(c) == c.st \in {"INIT", "DEAD"} \/ c.busy
Begun(c) == Live(c) \/ c.st = "DEAD"

\* What a control word may look like.
WellFormed(c) ==
  /\ c \in Words
  /\ c.st = "NONE" => c = FreeWord(c.gen)
  /\ c.st # "NONE" => c.of \in Keys
  /\ c.busy => c.st \in {"ESTABLISHED", "BYPASSED"}
  /\ c.isn \/ c.hs => c.st = "BYPASSED"
  /\ c.fc => ClientFin(c) \/ c.st \in {"CLOSED", "BYPASSED"}
  /\ c.fs => ServerFin(c) \/ c.st \in {"CLOSED", "BYPASSED"}
  /\ c.st = "CLOSING" => ~c.fc \/ ~c.fs

\* A word read before is no newer than the entry's, and as long as the
\* generation is the same, so is the connection.
ReadBefore(s, w) ==
  /\ Begun(w) /\ w.gen <= ctl[s].gen
  /\ SameEntry(ctl[s], w) => /\ Begun(ctl[s]) /\ ctl[s].of = w.of
                             /\ w.isn => server_isn[s].gen = w.gen

-----------------------------------------------------------------------------
(* Registers.                                                                *)

AtCreate == {"challenge", "half_open", "reserve", "add", "load", "mapped", "claim",
             "unreserve", "fill", "publish"}
AtBypass == {"bypass", "bypass_swap", "bypass_retire", "record", "recorded"}
AtSynAck == {"synack", "synack_half", "synack_write", "synack_publish", "synack_reply"}
AtScan == {"scan", "scan_word", "scan_key", "clean"}
AtRetire == {"dead_delete", "dead_count", "dead_none", "dead_free", "dead_unreserve"}
AtUnset == {"idle", "challenge", "half_open", "reserve", "add", "half_back", "unreserve",
            "scan", "clean"}
AtRead == {"decide", "synack", "connecting", "synack_reply", "fin", "close", "close_swap",
           "bypass", "bypass_swap", "bypass_retire", "free", "admit_isn", "admit_again",
           "scan_key", "clean_retire"}

\* What an lcore's registers hold, whatever the others do.
Registers(l) ==
  /\ pc[l] \notin AtScan \cup {"idle"} => key[l] \in Keys
  /\ pc[l] \notin AtUnset => slot[l] \in Slots
  /\ pc[l] \in AtScan \cup {"clean_retire"} => seg[l] = "clean"
  /\ pc[l] \in AtCreate => seg[l] \in {"syn", "ack"}
  /\ pc[l] = "challenge" => seg[l] = "syn"
  /\ pc[l] \in {"half_open", "half_back", "connecting"} => seg[l] = "ack"
  /\ pc[l] \in {"word", "decide"} \cup AtBypass => seg[l] \in Segments
  /\ pc[l] \in AtSynAck \cup {"record", "recorded"} => seg[l] = "s_synack"
  /\ pc[l] = "fin" => seg[l] \in {"fin", "s_fin"}
  /\ pc[l] \in {"close", "close_swap"} => seg[l] \in {"fin", "s_fin", "ack", "s_ack"}
  /\ pc[l] = "free" => seg[l] # "clean"
  /\ tries[l] <= 2
  /\ pc[l] = "add" => tries[l] < 2
  /\ pc[l] \in {"idle", "word", "decide", "challenge", "half_open", "reserve"} => tries[l] = 0
  /\ pc[l] \in {"idle", "word", "decide"} => seen[l] = NoNumber

\* The words an lcore holds, by what it will do with them.
Held(l) ==
  LET c == word[l] IN
  /\ pc[l] \in AtRead => ReadBefore(slot[l], c)
  /\ pc[l] \in AtRead \ {"decide", "scan_key"} =>
       (SameEntry(ctl[slot[l]], c) => key[l] = c.of)
  /\ pc[l] = "synack" => c.st = "CONNECTING"
  /\ pc[l] \in {"bypass", "bypass_swap", "bypass_retire"} => c.st = "BYPASSED"
  /\ pc[l] = "bypass_retire" => ~c.busy
  /\ pc[l] = "clean_retire" => Live(c) /\ ~c.busy
  /\ pc[l] = "close_swap" => c.st \in Closable /\ ~c.busy
  /\ pc[l] = "admit_isn" => c.isn
  /\ pc[l] \in {"mapped", "claim"} => c.st = "NONE" /\ c.gen <= ctl[slot[l]].gen
  /\ pc[l] = "claim" /\ ctl[slot[l]] = c => conn_hash[key[l]] = slot[l]
  /\ pc[l] = "scan_word" => slot_key[slot[l]] \in Keys
  /\ pc[l] = "scan_key" => slot_key[slot[l]] \in Keys

\* The numbers it has read after them.
Seen(l) ==
  /\ pc[l] = "close_swap" /\ AcksFin(l) =>
       IF FromServer(l) THEN ClientFin(word[l]) ELSE ServerFin(word[l])
  /\ pc[l] = "bypass_swap" /\ seg[l] \in {"ack", "fin"} /\ IsnAwaitsAck(word[l]) =>
       (SameEntry(ctl[slot[l]], word[l]) => seen[l].gen = word[l].gen)
  /\ pc[l] = "admit_again" =>
       (SameEntry(ctl[slot[l]], word[l]) => seen[l].gen = word[l].gen)
  /\ pc[l] = "admitted" /\ seen[l].n # None =>
       seen[l].gen = word[l].gen /\ word[l].of = key[l]

\* What the owner of an entry knows of it.
Owns(l) ==
  LET c == ctl[slot[l]]
      unmapped == \A k \in Keys : conn_hash[k] # slot[l] IN
  /\ pc[l] \in {"fill", "publish"} => c = word[l] /\ c = InitWord(c.gen, key[l])
  /\ pc[l] = "publish" => conn_key[slot[l]] = key[l] /\ endings[slot[l]] = 0
  /\ pc[l] \in {"synack_half", "synack_write", "synack_publish"} =>
       c = word[l] /\ c.st = "ESTABLISHED" /\ c.busy /\ c.of = key[l]
  /\ pc[l] = "synack_publish" => seq_delta[slot[l]] = c.gen
  /\ pc[l] \in {"record", "recorded"} => c.st = "BYPASSED" /\ c.busy /\ SameEntry(c, word[l])
  /\ pc[l] = "recorded" => server_isn[slot[l]].gen = c.gen
  /\ pc[l] \in {"dead_delete", "dead_count", "dead_none"} =>
       c.st = "DEAD" /\ c.of = key[l] /\ SameEntry(c, word[l]) /\ Live(word[l])
  /\ pc[l] \in {"dead_delete", "dead_count"} =>
       endings[slot[l]] = IF word[l].st = "CLOSED" THEN 1 ELSE 0
  /\ pc[l] = "dead_delete" => conn_hash[key[l]] = slot[l]
  /\ pc[l] \in {"dead_count", "dead_none", "dead_free"} => unmapped
  /\ pc[l] = "dead_free" => c.st = "NONE" /\ slot[l] \notin free_slots

Candidates ==
  \A x \in cand : /\ ReadBefore(x.slot, x.word)
                  /\ SameEntry(ctl[x.slot], x.word) => x.key = x.word.of

-----------------------------------------------------------------------------
(* The table.                                                                *)

\* The table and its positions agree.
Table ==
  /\ \A k \in Keys : conn_hash[k] # None =>
       conn_hash[k] \notin free_slots /\ slot_key[conn_hash[k]] = k
  /\ \A s \in free_slots : ctl[s].st = "NONE"

\* What the fields of an entry hold.
Entry(s) ==
  LET c == ctl[s] IN
  /\ WellFormed(c)
  /\ c.st # "NONE" => slot_key[s] = c.of
  /\ c.st = "INIT" \/ Live(c) => conn_hash[c.of] = s
  /\ Begun(c) => conn_key[s] = c.of
  /\ c.st \in Proxied \ {"CONNECTING"} /\ ~c.busy => seq_delta[s] = c.gen
  /\ c.isn => server_isn[s].gen = c.gen
  /\ endings[s] <= 1
  /\ Live(c) => endings[s] = IF c.st = "CLOSED" THEN 1 ELSE 0

\* An lcore works on its entry alone, and no owned entry is without one.
AtWork == AtOwner \cup {"dead_free"}
Exclusive == \A l, m \in Lcores : l # m /\ pc[l] \in AtWork /\ pc[m] \in AtWork => slot[l] # slot[m]
HasOwner == \A s \in Slots : Owned(ctl[s]) => \E l \in Lcores : slot[l] = s /\ pc[l] \in AtOwner

Lcore(l) == WellFormed(word[l]) /\ Registers(l) /\ Held(l) /\ Seen(l) /\ Owns(l)

\* TypeOK but for the counts.
SharedTypes ==
  /\ conn_hash \in [Keys -> Slots \cup {None}]
  /\ free_slots \subseteq Slots
  /\ slot_key \in [Slots -> Keys \cup {None}]
  /\ ctl \in [Slots -> Words]
  /\ conn_key \in [Slots -> Keys \cup {None}]
  /\ server_isn \in [Slots -> NumberTags]
  /\ client_fin_end \in [Slots -> NumberTags]
  /\ server_fin_end \in [Slots -> NumberTags]
  /\ seq_delta \in [Slots -> {None} \cup Nat]
  /\ endings \in [Slots -> Nat]

RegisterTypes ==
  /\ pc \in [Lcores -> PCs]
  /\ key \in [Lcores -> Keys \cup {None}]
  /\ seg \in [Lcores -> Segments \cup {None, "clean"}]
  /\ num \in [Lcores -> ISNs \cup {FinEnd, None}]
  /\ slot \in [Lcores -> Slots \cup {None}]
  /\ word \in [Lcores -> Words]
  /\ seen \in [Lcores -> NumberTags]
  /\ tries \in [Lcores -> 0..2]
  /\ cand \subseteq [key : Keys, slot : Slots, word : Words]

Types == SharedTypes /\ RegisterTypes

IInv ==
  /\ Types
  /\ \A l \in Lcores : Lcore(l)
  /\ Candidates
  /\ Table /\ (\A s \in Slots : Entry(s)) /\ Exclusive /\ HasOwner

-----------------------------------------------------------------------------
(* What a step of one lcore leaves to the others.                            *)

\* m keeps its registers.
Same(m) ==
  /\ pc'[m] = pc[m] /\ key'[m] = key[m] /\ seg'[m] = seg[m] /\ num'[m] = num[m]
  /\ slot'[m] = slot[m] /\ word'[m] = word[m] /\ seen'[m] = seen[m] /\ tries'[m] = tries[m]

Untouched(s) ==
  /\ ctl'[s] = ctl[s] /\ conn_key'[s] = conn_key[s] /\ server_isn'[s] = server_isn[s]
  /\ seq_delta'[s] = seq_delta[s] /\ endings'[s] = endings[s] /\ slot_key'[s] = slot_key[s]
  /\ \A k \in Keys : conn_hash[k] = s <=> conn_hash'[k] = s
  /\ s \in free_slots <=> s \in free_slots'

\* How an entry changes under those who have read it.
Evolves(s) ==
  /\ ctl[s].gen <= ctl'[s].gen
  /\ SameEntry(ctl[s], ctl'[s]) =>
       /\ Begun(ctl[s]) => Begun(ctl'[s]) /\ ctl'[s].of = ctl[s].of
       /\ ctl'[s].st = "NONE" => ctl'[s] = ctl[s]
       /\ server_isn[s].gen = ctl[s].gen => server_isn'[s].gen = ctl[s].gen
  /\ \A k \in Keys : ctl'[s] = ctl[s] /\ ctl[s].st = "NONE" /\ conn_hash[k] = s => conn_hash'[k] = s
  /\ slot_key[s] \in Keys => slot_key'[s] \in Keys

LEMMA UntouchedEvolves ==
  ASSUME IInv, NEW s \in Slots, Untouched(s)
  PROVE  Evolves(s)
<1>1. ctl[s].gen \in Nat
  BY DEF IInv, Types, SharedTypes, Words
<1>2. QED BY <1>1 DEF Untouched, Evolves, SameEntry

LEMMA ReadStays ==
  ASSUME IInv, NEW s \in Slots, NEW w \in Words, Evolves(s), ReadBefore(s, w), SharedTypes'
  PROVE  /\ ReadBefore(s, w)'
         /\ SameEntry(ctl'[s], w) => SameEntry(ctl[s], w)
<1>1. ctl[s].gen \in Nat /\ ctl'[s].gen \in Nat /\ w.gen \in Nat
  BY DEF IInv, Types, SharedTypes, Words
<1>2. QED BY <1>1 DEF Evolves, ReadBefore, SameEntry, Begun, Live

LEMMA HeldStays ==
  ASSUME IInv, NEW m \in Lcores, Same(m), \A s \in Slots : Evolves(s), SharedTypes'
  PROVE  Held(m)'
<1>1. Held(m) /\ Registers(m) /\ word[m] \in Words
  BY DEF IInv, Lcore, Types, RegisterTypes
<1>2. CASE pc[m] \in AtUnset
  BY <1>1, <1>2 DEF Same, Held, AtUnset, AtRead, AtScan
<1>3. CASE pc[m] \notin AtUnset
  <2>9. slot[m] \in Slots
    BY <1>1, <1>3 DEF Registers
  <2>a. PICK s \in Slots : s = slot[m]
    BY <2>9
  <2>b. PICK w \in Words : w = word[m]
    BY <1>1
  <2>1. Evolves(s)
    OBVIOUS
  <2>2. ReadBefore(s, w) => ReadBefore(s, w)' /\ (SameEntry(ctl'[s], w) => SameEntry(ctl[s], w))
    BY <2>1, ReadStays
  <2>3. ctl[s].gen \in Nat /\ ctl'[s].gen \in Nat /\ w.gen \in Nat
    BY <1>1, <2>1 DEF IInv, Types, SharedTypes, Words
  <2>4. ctl[s].gen <= ctl'[s].gen
    BY <2>1 DEF Evolves
  <2>5. pc[m] = "claim" /\ ctl'[s] = w => conn_hash'[key[m]] = s
    <3>1. SUFFICES ASSUME pc[m] = "claim", ctl'[s] = w PROVE conn_hash'[key[m]] = s
      OBVIOUS
    <3>2. w.st = "NONE" /\ w.gen <= ctl[s].gen /\ key[m] \in Keys
      BY <1>1, <2>a, <2>b, <3>1 DEF Held, Registers, AtScan
    <3>3. ctl'[s] = ctl[s]
      BY <2>1, <2>3, <2>4, <3>1, <3>2 DEF Evolves, SameEntry
    <3>4. conn_hash[key[m]] = s
      BY <1>1, <2>a, <2>b, <3>1, <3>3 DEF Held
    <3>5. QED BY <2>1, <3>1, <3>2, <3>3, <3>4 DEF Evolves
  <2>6. w.gen <= ctl[s].gen => w.gen <= ctl'[s].gen
    BY <2>3, <2>4
  <2>7. slot_key[s] \in Keys => slot_key'[s] \in Keys
    BY <2>1 DEF Evolves
  <2>8. QED BY <1>1, <2>a, <2>b, <2>2, <2>5, <2>6, <2>7 DEF Held, Same
<1>4. QED BY <1>2, <1>3

LEMMA SeenStays ==
  ASSUME IInv, NEW m \in Lcores, Same(m), \A s \in Slots : Evolves(s), SharedTypes'
  PROVE  Seen(m)'
<1>1. Seen(m) /\ Held(m) /\ Registers(m) /\ word[m] \in Words
  BY DEF IInv, Lcore, Types, RegisterTypes
<1>2. pc[m] \in {"bypass_swap", "admit_again"} /\ SameEntry(ctl'[slot[m]], word[m]) =>
        SameEntry(ctl[slot[m]], word[m])
  BY <1>1, ReadStays DEF Held, Registers, AtRead, AtUnset
<1>3. QED BY <1>1, <1>2 DEF Same, Seen, AcksFin, FromServer, Number

LEMMA CandidatesStay ==
  ASSUME IInv, \A s \in Slots : Evolves(s), SharedTypes', cand' \subseteq cand
  PROVE  Candidates'
<1>1. ASSUME NEW x \in cand PROVE /\ ReadBefore(x.slot, x.word)'
                                  /\ SameEntry(ctl'[x.slot], x.word) => x.key = x.word.of
  <2>1. x.slot \in Slots /\ x.word \in Words
    BY DEF IInv, Types, RegisterTypes
  <2>2. QED BY <1>1, <2>1, ReadStays DEF IInv, Candidates
<1>2. QED BY <1>1 DEF Candidates

LEMMA OwnsStays ==
  ASSUME IInv, NEW m \in Lcores, Same(m), pc[m] \in AtWork => Untouched(slot[m])
  PROVE  Owns(m)'
<1>1. Owns(m) /\ Registers(m)
  BY DEF IInv, Lcore
<1>2. CASE pc[m] \in AtWork
  BY <1>1, <1>2 DEF Same, Owns, Untouched, AtWork, AtOwner, Registers, AtScan
<1>3. CASE pc[m] \notin AtWork
  BY <1>3 DEF Same, Owns, AtWork, AtOwner
<1>4. QED BY <1>2, <1>3

LEMMA EntryStays ==
  ASSUME IInv, NEW s \in Slots, Untouched(s)
  PROVE  Entry(s)'
<1>1. Entry(s)
  BY DEF IInv
<1>2. QED BY <1>1 DEF Entry, Untouched, WellFormed, Live, Begun

Others(l) == \A m \in Lcores : m # l => Same(m)

\* What a step of l at one entry has to show; an lcore that touches no entry
\* takes None for it.
LEMMA Frame ==
  ASSUME IInv, NEW l \in Lcores, Others(l), Types', Lcore(l)', Candidates', Table',
         NEW at,
         \A s \in Slots : s # at => Untouched(s),
         at \in Slots => Evolves(at) /\ Entry(at)',
         pc[l] \in AtWork => slot[l] = at,
         pc'[l] \in AtWork => slot'[l] = at /\ \A m \in Lcores : m # l /\ pc[m] \in AtWork => slot[m] # at,
         \A m \in Lcores : m # l /\ pc[m] \in AtWork /\ slot[m] = at => Owns(m)',
         at \in Slots /\ Owned(ctl'[at]) =>
           \E m \in Lcores : slot'[m] = at /\ pc'[m] \in AtOwner
  PROVE  IInv'
<1>1. ASSUME NEW s \in Slots PROVE Evolves(s)
  BY <1>1, UntouchedEvolves
<1>2. ASSUME NEW m \in Lcores PROVE Lcore(m)'
  <2>1. CASE m = l
    BY <2>1
  <2>2. CASE m # l
    <3>1. Same(m) /\ WellFormed(word[m]) /\ Registers(m)
      BY <2>2 DEF Others, IInv, Lcore
    <3>2. Held(m)' /\ Seen(m)'
      BY <1>1, <3>1, HeldStays, SeenStays DEF Types
    <3>3. Owns(m)'
      <4>1. CASE pc[m] \in AtWork /\ slot[m] = at
        BY <2>2, <4>1
      <4>2. CASE ~(pc[m] \in AtWork /\ slot[m] = at)
        <5>1. pc[m] \in AtWork => slot[m] \in Slots
          BY <3>1 DEF Registers, AtWork, AtOwner, AtUnset
        <5>2. QED BY <3>1, <4>2, <5>1, OwnsStays
      <4>3. QED BY <4>1, <4>2
    <3>4. Registers(m)' /\ WellFormed(word[m])'
      BY <3>1 DEF Same, Registers, WellFormed, ClientFin, ServerFin
    <3>5. QED BY <3>2, <3>3, <3>4 DEF Lcore
  <2>3. QED BY <2>1, <2>2
<1>3. ASSUME NEW s \in Slots PROVE Entry(s)'
  BY <1>3, EntryStays
<1>4. Exclusive'
  BY DEF Exclusive, IInv, Others, Same
<1>5. HasOwner'
  <2>1. SUFFICES ASSUME NEW s \in Slots, Owned(ctl'[s]), s # at
                 PROVE  \E m \in Lcores : slot'[m] = s /\ pc'[m] \in AtOwner
    BY DEF HasOwner
  <2>2. PICK m \in Lcores : slot[m] = s /\ pc[m] \in AtOwner
    BY <2>1 DEF IInv, HasOwner, Untouched
  <2>3. m # l
    BY <2>1, <2>2 DEF AtWork
  <2>4. QED BY <2>2, <2>3 DEF Others, Same
<1>6. QED BY <1>2, <1>3, <1>4, <1>5 DEF IInv

shared == <<tableVars, ctl, conn_key, server_isn, seq_delta, endings>>

\* A step that changes no more than registers, counts and the ends of FINs.
LEMMA LocalStep ==
  ASSUME IInv, NEW l \in Lcores, Others(l), Types', Lcore(l)', Candidates',
         UNCHANGED shared,
         pc[l] \notin AtWork, pc'[l] \notin AtWork
  PROVE  IInv'
<1>1. \A s \in Slots : Untouched(s)
  BY DEF shared, tableVars, Untouched
<1>2. Table'
  BY DEF IInv, Table, shared, tableVars
<1>3. PICK at : at = None
  OBVIOUS
<1>4. at \notin Slots
  BY <1>3, SynProxyAssumption
<1>5. \A m \in Lcores : pc[m] \in AtWork => slot[m] # at
  <2>1. ASSUME NEW m \in Lcores, pc[m] \in AtWork PROVE slot[m] \in Slots
    BY <2>1 DEF IInv, Lcore, Registers, AtWork, AtOwner, AtUnset
  <2>2. QED BY <1>4, <2>1
<1>6. QED BY <1>1, <1>2, <1>4, <1>5, Frame

LEMMA GotoMoves ==
  ASSUME RegisterTypes, NEW l \in Lcores, NEW to \in PCs, Goto(l, to)
  PROVE  /\ pc' \in [Lcores -> PCs] /\ key' \in [Lcores -> Keys \cup {None}]
         /\ seg' \in [Lcores -> Segments \cup {None, "clean"}]
         /\ num' \in [Lcores -> ISNs \cup {FinEnd, None}]
         /\ pc'[l] = to
         /\ to # "idle" => key'[l] = key[l] /\ seg'[l] = seg[l] /\ num'[l] = num[l]
         /\ \A m \in Lcores : m # l =>
              pc'[m] = pc[m] /\ key'[m] = key[m] /\ seg'[m] = seg[m] /\ num'[m] = num[m]
<1>1. /\ pc \in [Lcores -> PCs] /\ key \in [Lcores -> Keys \cup {None}]
      /\ seg \in [Lcores -> Segments \cup {None, "clean"}]
      /\ num \in [Lcores -> ISNs \cup {FinEnd, None}]
  BY DEF RegisterTypes
<1>2. CASE to = "idle"
  BY <1>1, <1>2 DEF Goto
<1>3. CASE to # "idle"
  BY <1>1, <1>3 DEF Goto, packetVars
<1>4. QED BY <1>2, <1>3

LEMMA WordTypes ==
  /\ NoNumber \in NumberTags
  /\ \A g \in Nat : FreeWord(g) \in Words /\ WellFormed(FreeWord(g))
<1>1. NoNumber \in NumberTags
  BY DEF NoNumber, NumberTags
<1>2. ASSUME NEW g \in Nat PROVE FreeWord(g) \in Words
  BY DEF FreeWord, Word, Words, States
<1>3. ASSUME NEW g \in Nat PROVE WellFormed(FreeWord(g))
  BY <1>2 DEF FreeWord, Word, WellFormed, ClientFin, ServerFin
<1>4. QED BY <1>1, <1>2, <1>3

LEMMA DropMoves ==
  ASSUME RegisterTypes, NEW l \in Lcores, Drop(l)
  PROVE  /\ slot' \in [Lcores -> Slots \cup {None}] /\ word' \in [Lcores -> Words]
         /\ seen' \in [Lcores -> NumberTags] /\ tries' \in [Lcores -> 0..2]
         /\ cand' = cand
         /\ slot'[l] = None /\ word'[l] = FreeWord(0) /\ seen'[l] = NoNumber /\ tries'[l] = 0
         /\ \A m \in Lcores : m # l =>
              slot'[m] = slot[m] /\ word'[m] = word[m] /\ seen'[m] = seen[m] /\ tries'[m] = tries[m]
<1>1. /\ slot \in [Lcores -> Slots \cup {None}] /\ word \in [Lcores -> Words]
      /\ seen \in [Lcores -> NumberTags] /\ tries \in [Lcores -> 0..2]
  BY DEF RegisterTypes
<1>2. FreeWord(0) \in Words /\ NoNumber \in NumberTags
  BY WordTypes
<1>3. QED BY <1>1, <1>2 DEF Drop

\* An lcore that drops its entry knows nothing it would have to keep.
LEMMA Leaves ==
  ASSUME RegisterTypes, NEW l \in Lcores,
         NEW to \in {"idle", "challenge", "half_open", "half_back", "clean", "scan"},
         Goto(l, to), Drop(l),
         to \in {"clean", "scan"} => seg[l] = "clean",
         to \in {"challenge", "half_open", "half_back"} => key[l] \in Keys,
         to = "challenge" => seg[l] = "syn",
         to \in {"half_open", "half_back"} => seg[l] = "ack"
  PROVE  RegisterTypes' /\ Others(l) /\ Lcore(l)' /\ pc'[l] = to /\ cand' = cand
<1>1. to \in PCs
  BY DEF PCs
<1>2. RegisterTypes' /\ Others(l) /\ pc'[l] = to /\ cand' = cand
  BY <1>1, GotoMoves, DropMoves DEF RegisterTypes, Others, Same
<1>7. tries'[l] = 0 /\ seen'[l] = NoNumber
  BY DropMoves
<1>8. to # "idle" => key'[l] = key[l] /\ seg'[l] = seg[l]
  BY <1>1, GotoMoves
<1>3. Registers(l)'
  BY <1>2, <1>7, <1>8 DEF Registers, AtScan, AtUnset, AtCreate, AtBypass, AtSynAck
<1>4. Held(l)' /\ Seen(l)' /\ Owns(l)'
  BY <1>2 DEF Held, Seen, Owns, AtRead, AtScan
<1>5. WellFormed(word[l])'
  <2>1. PICK w : w = FreeWord(0)
    OBVIOUS
  <2>2. WellFormed(w)
    BY <2>1, WordTypes
  <2>3. word'[l] = w
    BY <2>1, DropMoves
  <2>4. QED BY <2>2, <2>3 DEF WellFormed, ClientFin, ServerFin
<1>6. QED BY <1>2, <1>3, <1>4, <1>5 DEF Lcore

LEMMA WellFormedThen ==
  ASSUME NEW l \in Lcores, NEW c, WellFormed(c), word'[l] = c
  PROVE  WellFormed(word[l])'
BY DEF WellFormed, ClientFin, ServerFin

LEMMA KeepMoves ==
  ASSUME RegisterTypes, NEW l \in Lcores, NEW to \in PCs, Goto(l, to), Keep(l)
  PROVE  /\ RegisterTypes' /\ Others(l) /\ cand' = cand
         /\ pc'[l] = to /\ slot'[l] = slot[l] /\ word'[l] = word[l] /\ seen'[l] = seen[l]
         /\ tries'[l] = tries[l]
         /\ to # "idle" => key'[l] = key[l] /\ seg'[l] = seg[l] /\ num'[l] = num[l]
<1>1. UNCHANGED <<slot, word, seen, tries, cand>>
  BY DEF Keep
<1>2. RegisterTypes'
  BY <1>1, GotoMoves DEF RegisterTypes
<1>3. Others(l)
  BY <1>1, GotoMoves DEF Others, Same
<1>4. QED BY <1>1, <1>2, <1>3, GotoMoves

\* The shared state but for the counts.
quiet == <<tableVars, ctl, fieldVars, endings>>

LEMMA QuietStep ==
  ASSUME IInv, NEW l \in Lcores, UNCHANGED quiet, RegisterTypes', Others(l),
         (WellFormed(word[l]) /\ Registers(l) /\ Held(l) /\ Seen(l))',
         cand' \subseteq cand \/ Candidates', pc[l] \notin AtWork, pc'[l] \notin AtWork
  PROVE  IInv'
<1>1. UNCHANGED shared /\ SharedTypes'
  BY DEF quiet, shared, tableVars, fieldVars, IInv, Types, SharedTypes
<1>2. ASSUME NEW s \in Slots PROVE Evolves(s)
  BY <1>1, <1>2, UntouchedEvolves DEF Untouched, shared, tableVars
<1>3. Candidates'
  BY <1>1, <1>2, CandidatesStay
<1>4. Owns(l)'
  BY DEF Owns, AtWork, AtOwner
<1>5. QED BY <1>1, <1>3, <1>4, LocalStep DEF Lcore, Types

\* An lcore gives up what it works on, or is done with it.
LEMMA DropStep ==
  ASSUME IInv, NEW l \in Lcores, UNCHANGED quiet,
         NEW to \in {"idle", "challenge", "half_open", "half_back", "clean", "scan"},
         Goto(l, to), Drop(l),
         to \in {"clean", "scan"} => seg[l] = "clean",
         to \in {"challenge", "half_open", "half_back"} => key[l] \in Keys,
         to = "challenge" => seg[l] = "syn",
         to \in {"half_open", "half_back"} => seg[l] = "ack",
         pc[l] \notin AtWork
  PROVE  IInv'
<1>1. RegisterTypes
  BY DEF IInv, Types
<1>2. RegisterTypes' /\ Others(l) /\ Lcore(l)' /\ pc'[l] = to /\ cand' = cand
  BY <1>1, Leaves
<1>3. to \notin AtWork
  BY DEF AtWork, AtOwner
<1>4. QED BY <1>2, <1>3, QuietStep DEF Lcore

LEMMA FinishStep ==
  ASSUME IInv, NEW l \in Lcores, UNCHANGED quiet, Finish(l), pc[l] \notin AtWork
  PROVE  IInv'
BY DropStep DEF Finish

LEMMA AfterwardsStep ==
  ASSUME IInv, NEW l \in Lcores, UNCHANGED quiet, Afterwards(l), pc[l] \notin AtWork,
         key[l] \in Keys
  PROVE  IInv'
BY DropStep DEF Afterwards

\* An lcore goes on with the registers it has.
LEMMA KeepStep ==
  ASSUME IInv, NEW l \in Lcores, UNCHANGED quiet, NEW to \in PCs, Goto(l, to), Keep(l),
         (Registers(l) /\ Held(l) /\ Seen(l))', pc[l] \notin AtWork, to \notin AtWork
  PROVE  IInv'
<1>1. RegisterTypes /\ WellFormed(word[l])
  BY DEF IInv, Types, Lcore
<1>2. RegisterTypes' /\ Others(l) /\ cand' = cand /\ pc'[l] = to /\ word'[l] = word[l]
  BY <1>1, KeepMoves
<1>3. WellFormed(word[l])'
  BY <1>1, <1>2, WellFormedThen
<1>4. QED BY <1>2, <1>3, QuietStep

-----------------------------------------------------------------------------
(* Finding an entry.                                                         *)

LEMMA LookupInv ==
  ASSUME IInv, NEW l \in Lcores, NEW k \in Keys, NEW sg \in Segments, NEW n \in Numbers(sg),
         Lookup(l, k, sg, n)
  PROVE  IInv'
<1>1. PICK to \in PCs :
        /\ IF conn_hash[k] = None THEN Absent(sg, to) ELSE to = "word"
        /\ IF to = "idle" THEN UNCHANGED <<pc, packetVars, slot>>
           ELSE /\ pc' = [pc EXCEPT ![l] = to]
                /\ key' = [key EXCEPT ![l] = k]
                /\ seg' = [seg EXCEPT ![l] = sg]
                /\ num' = [num EXCEPT ![l] = n]
                /\ slot' = [slot EXCEPT ![l] = conn_hash[k]]
  BY DEF Lookup
<1>2. /\ pc[l] = "idle" /\ UNCHANGED quiet /\ UNCHANGED <<word, seen, tries, cand>>
      /\ Types /\ WellFormed(word[l]) /\ Registers(l)
  BY DEF Lookup, quiet, countVars, IInv, Lcore
<1>3. n \in ISNs \cup {FinEnd, None}
  BY DEF Numbers
<1>4. conn_hash[k] \in Slots \cup {None}
  BY <1>2 DEF Types, SharedTypes
<1>5. RegisterTypes' /\ Others(l)
  BY <1>1, <1>2, <1>3, <1>4 DEF Types, RegisterTypes, Others, Same, packetVars
<1>6. pc'[l] \in {"idle", "challenge", "half_open", "word"}
  BY <1>1, <1>2 DEF Absent, packetVars, Types, RegisterTypes
<1>7. Registers(l)'
  <2>1. CASE to = "idle"
    BY <1>1, <1>2, <2>1 DEF Registers, packetVars, AtScan, AtUnset, AtCreate, AtBypass, AtSynAck
  <2>2. CASE to # "idle"
    <3>1. pc'[l] = to /\ key'[l] = k /\ seg'[l] = sg /\ slot'[l] = conn_hash[k]
      BY <1>1, <1>2, <2>2 DEF Types, RegisterTypes
    <3>2. tries'[l] = 0 /\ seen'[l] = NoNumber
      BY <1>2 DEF Registers
    <3>3. \/ to = "word" /\ conn_hash[k] \in Slots
          \/ to = "challenge" /\ sg = "syn"
          \/ to = "half_open" /\ sg = "ack"
      BY <1>1, <1>4, <2>2 DEF Absent
    <3>4. QED BY <3>1, <3>2, <3>3
               DEF Registers, AtScan, AtUnset, AtCreate, AtBypass, AtSynAck
  <2>3. QED BY <2>1, <2>2
<1>8. Held(l)' /\ Seen(l)'
  BY <1>6 DEF Held, Seen, AtRead
<1>9. WellFormed(word[l])'
  BY <1>2, WellFormedThen
<1>10. pc[l] \notin AtWork /\ pc'[l] \notin AtWork
  BY <1>2, <1>6 DEF AtWork, AtOwner
<1>11. cand' \subseteq cand
  BY <1>2
<1>12. QED BY <1>2, <1>5, <1>7, <1>8, <1>9, <1>10, <1>11, QuietStep

\* A live word read from an entry.
LEMMA LiveRead ==
  ASSUME IInv, NEW s \in Slots, Live(ctl[s])
  PROVE  WellFormed(ctl[s]) /\ ReadBefore(s, ctl[s])
<1>1. Entry(s) /\ ctl[s].gen \in Nat
  BY DEF IInv, Types, SharedTypes, Words
<1>2. QED BY <1>1 DEF Entry, ReadBefore, SameEntry, Begun

LEMMA ReadWordInv ==
  ASSUME IInv, NEW l \in Lcores, ReadWord(l)
  PROVE  IInv'
<1>1. /\ pc[l] = "word" /\ UNCHANGED quiet /\ Registers(l) /\ RegisterTypes
      /\ pc[l] \notin AtWork
  BY DEF ReadWord, quiet, countVars, IInv, Lcore, Types, AtWork, AtOwner
<1>2. slot[l] \in Slots /\ key[l] \in Keys /\ seg[l] \in Segments
  BY <1>1 DEF Registers, AtUnset, AtScan
<1>3. CASE ~Live(ctl[slot[l]])
  <2>1. PICK to \in PCs : Absent(seg[l], to) /\ Goto(l, to) /\ Drop(l)
    BY <1>3 DEF ReadWord
  <2>2. QED BY <1>1, <1>2, <2>1, DropStep DEF Absent
<1>4. CASE Live(ctl[slot[l]])
  <2>1. /\ Goto(l, "decide") /\ word' = [word EXCEPT ![l] = ctl[slot[l]]]
        /\ UNCHANGED <<slot, seen, tries, cand>>
    BY <1>4 DEF ReadWord
  <2>2. PICK c : c = ctl[slot[l]]
    OBVIOUS
  <2>3. WellFormed(c) /\ ReadBefore(slot[l], c) /\ c \in Words
    BY <1>2, <1>4, <2>2, LiveRead DEF WellFormed
  <2>4. "decide" \in PCs
    BY DEF PCs
  <2>5. pc'[l] = "decide" /\ key'[l] = key[l] /\ seg'[l] = seg[l]
    BY <1>1, <2>1, <2>4, GotoMoves
  <2>6. word'[l] = c /\ slot'[l] = slot[l] /\ tries'[l] = tries[l] /\ seen'[l] = seen[l]
    BY <1>1, <2>1, <2>2 DEF RegisterTypes
  <2>7. RegisterTypes'
    BY <1>1, <2>1, <2>2, <2>3, <2>4, GotoMoves DEF RegisterTypes
  <2>8. Others(l)
    BY <1>1, <2>1, <2>4, GotoMoves DEF Others, Same, RegisterTypes
  <2>9. Registers(l)'
    BY <1>1, <1>2, <2>5, <2>6 DEF Registers, AtScan, AtUnset, AtCreate, AtBypass, AtSynAck
  <2>10. ReadBefore(slot[l], word[l])'
    BY <1>1, <2>3, <2>6 DEF ReadBefore, quiet, fieldVars, Begun, Live, SameEntry
  <2>11. Held(l)' /\ Seen(l)'
    BY <2>5, <2>10 DEF Held, Seen, AtScan
  <2>12. WellFormed(word[l])' /\ pc'[l] \notin AtWork /\ cand' \subseteq cand
    BY <2>1, <2>3, <2>5, <2>6, WellFormedThen DEF AtWork, AtOwner
  <2>13. QED BY <1>1, <2>7, <2>8, <2>9, <2>11, <2>12, QuietStep
<1>5. QED BY <1>3, <1>4

LEMMA DecideInv ==
  ASSUME IInv, NEW l \in Lcores, Decide(l)
  PROVE  IInv'
<1>1. /\ pc[l] = "decide" /\ UNCHANGED quiet /\ RegisterTypes /\ pc[l] \notin AtWork
      /\ Registers(l) /\ Held(l) /\ WellFormed(word[l])
  BY DEF Decide, quiet, countVars, IInv, Lcore, Types, AtWork, AtOwner
<1>2. slot[l] \in Slots /\ key[l] \in Keys /\ seg[l] \in Segments /\ seen[l] = NoNumber
  BY <1>1 DEF Registers, AtUnset, AtScan
<1>3. PICK to \in PCs :
        /\ IF KeyMatches(l) THEN Route(word[l], seg[l], to) ELSE Absent(seg[l], to)
        /\ Goto(l, to)
        /\ IF KeyMatches(l) /\ to # "idle" THEN Keep(l) ELSE Drop(l)
  BY DEF Decide
<1>4. CASE ~(KeyMatches(l) /\ to # "idle")
  BY <1>1, <1>2, <1>3, <1>4, DropStep DEF Absent
<1>5. CASE KeyMatches(l) /\ to # "idle"
  <2> DEFINE c == word[l]
  <2>1. Route(c, seg[l], to) /\ Keep(l)
    BY <1>3, <1>5
  <2>2. /\ pc'[l] = to /\ slot'[l] = slot[l] /\ word'[l] = c /\ seen'[l] = seen[l]
        /\ tries'[l] = tries[l] /\ key'[l] = key[l] /\ seg'[l] = seg[l]
    BY <1>1, <1>3, <1>5, <2>1, KeepMoves
  <2>3. to \in {"admitted", "admit_isn", "free", "close", "fin", "bypass", "synack"}
    BY <1>5, <2>1 DEF Route, RouteAdmit, RouteProxied
  <2>4. to \notin AtWork
    BY <2>3 DEF AtWork, AtOwner
  <2>5. /\ to = "synack" => seg[l] = "s_synack" /\ c.st = "CONNECTING"
        /\ to = "bypass" => c.st = "BYPASSED"
        /\ to = "admit_isn" => c.isn
        /\ to = "fin" => seg[l] \in {"fin", "s_fin"}
        /\ to = "close" => seg[l] \in {"ack", "s_ack"}
    BY <2>1 DEF Route, RouteAdmit, RouteProxied
  <2>6. seg[l] # "clean"
    BY <1>2 DEF Segments, Inbound, Outbound
  <2>7. Registers(l)'
    <3>1. tries'[l] <= 2
      BY <1>1, <2>2 DEF Registers
    <3>2. QED BY <1>1, <1>2, <2>2, <2>3, <2>5, <2>6, <3>1
               DEF Registers, AtScan, AtUnset, AtCreate, AtBypass, AtSynAck
  <2>8. ReadBefore(slot[l], word[l])'
    BY <1>1, <2>2 DEF Held, AtRead, ReadBefore, quiet, fieldVars, Begun, Live, SameEntry
  <2>9. SameEntry(ctl[slot[l]], c) => key[l] = c.of
    <3>1. Entry(slot[l]) /\ ReadBefore(slot[l], c)
      BY <1>1, <1>2 DEF IInv, Held, AtRead
    <3>2. QED BY <1>5, <3>1 DEF Entry, ReadBefore, KeyMatches
  <2>10. Held(l)'
    BY <1>1, <2>2, <2>3, <2>5, <2>8, <2>9 DEF Held, AtScan, SameEntry, quiet
  <2>11. Seen(l)'
    BY <1>2, <2>2, <2>3 DEF Seen, NoNumber
  <2>12. QED BY <1>1, <1>3, <2>1, <2>4, <2>7, <2>10, <2>11, KeepStep
<1>6. QED BY <1>4, <1>5

-----------------------------------------------------------------------------
(* Creating one.                                                             *)

LEMMA ValidateCookieInv ==
  ASSUME IInv, NEW l \in Lcores, ValidateCookie(l)
  PROVE  IInv'
<1>1. /\ pc[l] = "half_open" /\ UNCHANGED quiet /\ RegisterTypes /\ pc[l] \notin AtWork
      /\ Registers(l)
  BY DEF ValidateCookie, quiet, IInv, Lcore, Types, AtWork, AtOwner
<1>2. CASE Finish(l)
  BY <1>1, <1>2, FinishStep
<1>3. CASE Goto(l, "reserve") /\ Keep(l)
  <2>1. "reserve" \in PCs /\ "reserve" \notin AtWork
    BY DEF PCs, AtWork, AtOwner
  <2>2. /\ pc'[l] = "reserve" /\ key'[l] = key[l] /\ seg'[l] = seg[l]
        /\ tries'[l] = tries[l]
    BY <1>1, <1>3, <2>1, KeepMoves
  <2>3. Registers(l)'
    BY <1>1, <2>2 DEF Registers, AtScan, AtUnset, AtCreate, AtBypass, AtSynAck
  <2>4. Held(l)' /\ Seen(l)'
    BY <2>2 DEF Held, Seen, AtRead, AtScan
  <2>5. QED BY <1>1, <1>3, <2>1, <2>3, <2>4, KeepStep
<1>4. QED BY <1>2, <1>3 DEF ValidateCookie

LEMMA ChallengeInv ==
  ASSUME IInv, NEW l \in Lcores, Challenge(l)
  PROVE  IInv'
<1>1. /\ pc[l] = "challenge" /\ UNCHANGED quiet /\ RegisterTypes /\ pc[l] \notin AtWork
      /\ Registers(l)
  BY DEF Challenge, quiet, countVars, IInv, Lcore, Types, AtWork, AtOwner
<1>2. CASE Finish(l)
  BY <1>1, <1>2, FinishStep
<1>3. CASE Goto(l, "reserve") /\ Keep(l)
  <2>1. "reserve" \in PCs /\ "reserve" \notin AtWork
    BY DEF PCs, AtWork, AtOwner
  <2>2. /\ pc'[l] = "reserve" /\ key'[l] = key[l] /\ seg'[l] = seg[l]
        /\ tries'[l] = tries[l]
    BY <1>1, <1>3, <2>1, KeepMoves
  <2>3. Registers(l)'
    BY <1>1, <2>2 DEF Registers, AtScan, AtUnset, AtCreate, AtBypass, AtSynAck
  <2>4. Held(l)' /\ Seen(l)'
    BY <2>2 DEF Held, Seen, AtRead, AtScan
  <2>5. QED BY <1>1, <1>3, <2>1, <2>3, <2>4, KeepStep
<1>4. QED BY <1>2, <1>3 DEF Challenge

LEMMA HalfBackInv ==
  ASSUME IInv, NEW l \in Lcores, HalfBack(l)
  PROVE  IInv'
<1>1. UNCHANGED quiet /\ pc[l] \notin AtWork /\ Finish(l)
  BY DEF HalfBack, quiet, AtWork, AtOwner
<1>2. QED BY <1>1, FinishStep

\* alloc_connection_with_hash gives up.
LEMMA AllocFailsInv ==
  ASSUME IInv, NEW l \in Lcores, AllocFails(l), UNCHANGED quiet,
         pc[l] \in {"reserve", "unreserve"}
  PROVE  IInv'
<1>1. Registers(l) /\ pc[l] \notin AtWork
  BY DEF IInv, Lcore, AtWork, AtOwner
<1>2. key[l] \in Keys
  BY <1>1 DEF Registers, AtScan
<1>3. QED BY <1>1, <1>2, DropStep DEF AllocFails

LEMMA ReserveInv ==
  ASSUME IInv, NEW l \in Lcores, Reserve(l)
  PROVE  IInv'
<1>1. /\ pc[l] = "reserve" /\ UNCHANGED quiet /\ RegisterTypes /\ pc[l] \notin AtWork
      /\ Registers(l)
  BY DEF Reserve, quiet, IInv, Lcore, Types, AtWork, AtOwner
<1>2. CASE AllocFails(l)
  BY <1>1, <1>2, AllocFailsInv
<1>3. CASE Goto(l, "add") /\ Keep(l)
  <2>1. "add" \in PCs /\ "add" \notin AtWork
    BY DEF PCs, AtWork, AtOwner
  <2>2. /\ pc'[l] = "add" /\ key'[l] = key[l] /\ seg'[l] = seg[l]
        /\ tries'[l] = tries[l]
    BY <1>1, <1>3, <2>1, KeepMoves
  <2>3. Registers(l)'
    BY <1>1, <2>2 DEF Registers, AtScan, AtUnset, AtCreate, AtBypass, AtSynAck
  <2>4. Held(l)' /\ Seen(l)'
    BY <2>2 DEF Held, Seen, AtRead, AtScan
  <2>5. QED BY <1>1, <1>3, <2>1, <2>3, <2>4, KeepStep
<1>4. QED BY <1>2, <1>3 DEF Reserve

LEMMA UnreserveInv ==
  ASSUME IInv, NEW l \in Lcores, Unreserve(l)
  PROVE  IInv'
BY AllocFailsInv DEF Unreserve, quiet

\* An lcore reads a word, and keeps its other registers.
LEMMA ReadMoves ==
  ASSUME RegisterTypes, NEW l \in Lcores, NEW to \in PCs, Goto(l, to), NEW c \in Words,
         word' = [word EXCEPT ![l] = c], UNCHANGED <<slot, seen, tries, cand>>
  PROVE  /\ RegisterTypes' /\ Others(l) /\ cand' = cand
         /\ pc'[l] = to /\ slot'[l] = slot[l] /\ word'[l] = c /\ seen'[l] = seen[l]
         /\ tries'[l] = tries[l]
         /\ to # "idle" => key'[l] = key[l] /\ seg'[l] = seg[l] /\ num'[l] = num[l]
<1>1. word' \in [Lcores -> Words] /\ word'[l] = c /\ \A m \in Lcores : m # l => word'[m] = word[m]
  BY DEF RegisterTypes
<1>2. RegisterTypes'
  BY <1>1, GotoMoves DEF RegisterTypes
<1>3. Others(l)
  BY <1>1, GotoMoves DEF Others, Same
<1>4. QED BY <1>1, <1>2, <1>3, GotoMoves

\* A word that was read stays read as the lcore goes on.
LEMMA StillRead ==
  ASSUME IInv, NEW l \in Lcores, UNCHANGED quiet, pc[l] \in AtRead \ {"decide", "scan_key"},
         slot'[l] = slot[l], word'[l] = word[l], key'[l] = key[l]
  PROVE  /\ ReadBefore(slot[l], word[l])'
         /\ (SameEntry(ctl[slot[l]], word[l]) => key[l] = word[l].of)'
<1>1. Held(l)
  BY DEF IInv, Lcore
<1>2. QED BY <1>1 DEF Held, ReadBefore, SameEntry, quiet, fieldVars, Begun, Live

LEMMA LoadInv ==
  ASSUME IInv, NEW l \in Lcores, Load(l)
  PROVE  IInv'
<1>1. /\ pc[l] = "load" /\ UNCHANGED quiet /\ RegisterTypes /\ pc[l] \notin AtWork
      /\ Registers(l) /\ UNCHANGED <<slot, seen, tries, cand>>
  BY DEF Load, quiet, countVars, IInv, Lcore, Types, AtWork, AtOwner
<1>2. slot[l] \in Slots /\ key[l] \in Keys /\ seg[l] \in {"syn", "ack"}
  BY <1>1 DEF Registers, AtUnset, AtScan, AtCreate
<1>3. PICK c \in Words : c = ctl[slot[l]] /\ WellFormed(c)
  BY <1>2 DEF IInv, Entry, Types, SharedTypes
<1>4. PICK to : to = IF c.st = "NONE" THEN "mapped" ELSE "unreserve"
  OBVIOUS
<1>5. to \in PCs /\ to \notin AtWork /\ Goto(l, to) /\ word' = [word EXCEPT ![l] = c]
  BY <1>3, <1>4 DEF PCs, AtWork, AtOwner, Load
<1>6. /\ RegisterTypes' /\ Others(l) /\ cand' = cand
      /\ pc'[l] = to /\ slot'[l] = slot[l] /\ word'[l] = c /\ seen'[l] = seen[l]
      /\ tries'[l] = tries[l] /\ key'[l] = key[l] /\ seg'[l] = seg[l]
  BY <1>1, <1>4, <1>5, ReadMoves
<1>7. Registers(l)'
  BY <1>1, <1>2, <1>4, <1>6 DEF Registers, AtScan, AtUnset, AtCreate, AtBypass, AtSynAck
<1>8. Held(l)' /\ Seen(l)'
  <2>1. c.gen \in Nat /\ (ctl[slot[l]])' = c
    BY <1>1, <1>3, <1>6 DEF Words, quiet
  <2>2. QED BY <1>4, <1>6, <2>1 DEF Held, Seen, AtRead, AtScan
<1>9. WellFormed(word[l])'
  BY <1>3, <1>6, WellFormedThen
<1>10. QED BY <1>1, <1>5, <1>6, <1>7, <1>8, <1>9, QuietStep

LEMMA MappedInv ==
  ASSUME IInv, NEW l \in Lcores, Mapped(l)
  PROVE  IInv'
<1>1. /\ pc[l] = "mapped" /\ UNCHANGED quiet /\ RegisterTypes /\ pc[l] \notin AtWork
      /\ Registers(l) /\ Held(l) /\ Keep(l)
  BY DEF Mapped, quiet, countVars, IInv, Lcore, Types, AtWork, AtOwner
<1>2. slot[l] \in Slots /\ key[l] \in Keys /\ seg[l] \in {"syn", "ack"}
  BY <1>1 DEF Registers, AtUnset, AtScan, AtCreate
<1>3. PICK to \in {"claim", "add", "unreserve"} :
        /\ Goto(l, to)
        /\ to = "claim" => StillMapped(l)
        /\ to = "add" => tries[l] < 2
  BY DEF Mapped
<1>4. to \in PCs /\ to \notin AtWork
  BY DEF PCs, AtWork, AtOwner
<1>5. /\ pc'[l] = to /\ slot'[l] = slot[l] /\ word'[l] = word[l] /\ tries'[l] = tries[l]
      /\ key'[l] = key[l] /\ seg'[l] = seg[l]
  BY <1>1, <1>3, <1>4, KeepMoves
<1>6. Registers(l)'
  BY <1>1, <1>2, <1>3, <1>5 DEF Registers, AtScan, AtUnset, AtCreate, AtBypass, AtSynAck
<1>7. Held(l)' /\ Seen(l)'
  BY <1>1, <1>3, <1>5 DEF Held, Seen, AtRead, AtScan, quiet, tableVars, StillMapped
<1>8. QED BY <1>1, <1>3, <1>4, <1>6, <1>7, KeepStep

\* An lcore that has nothing left to do with a connection it read may free it.
LEMMA ToFree ==
  ASSUME IInv, NEW l \in Lcores, UNCHANGED quiet, Goto(l, "free"), Keep(l),
         pc[l] \in {"connecting", "synack_reply"}
  PROVE  IInv'
<1>1. RegisterTypes /\ pc[l] \notin AtWork /\ Registers(l)
  BY DEF IInv, Lcore, Types, AtWork, AtOwner
<1>2. "free" \in PCs /\ "free" \notin AtWork
  BY DEF PCs, AtWork, AtOwner
<1>3. /\ pc'[l] = "free" /\ slot'[l] = slot[l] /\ word'[l] = word[l] /\ tries'[l] = tries[l]
      /\ key'[l] = key[l] /\ seg'[l] = seg[l]
  BY <1>1, <1>2, KeepMoves
<1>4. Registers(l)'
  BY <1>1, <1>3 DEF Registers, AtScan, AtUnset, AtCreate, AtBypass, AtSynAck
<1>5. Held(l)' /\ Seen(l)'
  <2>1. pc[l] \in AtRead \ {"decide", "scan_key"}
    BY DEF AtRead
  <2>2. QED BY <1>3, <2>1, StillRead DEF Held, Seen, AtScan
<1>6. QED BY <1>1, <1>2, <1>4, <1>5, KeepStep

LEMMA ConnectingInv ==
  ASSUME IInv, NEW l \in Lcores, Connecting(l)
  PROVE  IInv'
<1>1. pc[l] = "connecting" /\ UNCHANGED quiet /\ pc[l] \notin AtWork
  BY DEF Connecting, quiet, countVars, AtWork, AtOwner
<1>2. QED BY <1>1, FinishStep, ToFree DEF Connecting

LEMMA SynAckReplyInv ==
  ASSUME IInv, NEW l \in Lcores, SynAckReply(l)
  PROVE  IInv'
<1>1. pc[l] = "synack_reply" /\ UNCHANGED quiet /\ pc[l] \notin AtWork
  BY DEF SynAckReply, quiet, countVars, AtWork, AtOwner
<1>2. QED BY <1>1, FinishStep, ToFree DEF SynAckReply

-----------------------------------------------------------------------------
(* Closing, but for the swap.                                                *)

LEMMA StoreFinEndInv ==
  ASSUME IInv, NEW l \in Lcores, StoreFinEnd(l)
  PROVE  IInv'
<1>1. /\ pc[l] = "fin" /\ RegisterTypes /\ pc[l] \notin AtWork /\ Registers(l) /\ Held(l)
      /\ UNCHANGED shared /\ Goto(l, "close") /\ Keep(l) /\ WellFormed(word[l])
  BY DEF StoreFinEnd, shared, countVars, IInv, Lcore, Types, AtWork, AtOwner
<1>2. slot[l] \in Slots /\ key[l] \in Keys /\ seg[l] \in {"fin", "s_fin"}
  BY <1>1 DEF Registers, AtUnset, AtScan
<1>3. SharedTypes'
  <2>1. Number(l, FinEnd) \in NumberTags
    BY <1>1 DEF Number, NumberTags, WellFormed, Words
  <2>2. QED BY <1>1, <2>1 DEF StoreFinEnd, shared, tableVars, IInv, Types, SharedTypes
<1>4. "close" \in PCs /\ "close" \notin AtWork
  BY DEF PCs, AtWork, AtOwner
<1>5. /\ RegisterTypes' /\ Others(l) /\ cand' = cand
      /\ pc'[l] = "close" /\ slot'[l] = slot[l] /\ word'[l] = word[l] /\ tries'[l] = tries[l]
      /\ key'[l] = key[l] /\ seg'[l] = seg[l]
  BY <1>1, <1>4, KeepMoves
<1>6. Registers(l)'
  BY <1>1, <1>2, <1>5 DEF Registers, AtScan, AtUnset, AtCreate, AtBypass, AtSynAck
<1>7. Held(l)' /\ Seen(l)' /\ Owns(l)'
  BY <1>1, <1>5 DEF Held, Seen, Owns, AtRead, AtScan, ReadBefore, SameEntry, shared, Begun, Live
<1>8. Candidates'
  BY <1>1, <1>5 DEF IInv, Candidates, ReadBefore, SameEntry, shared, Begun, Live
<1>9. WellFormed(word[l])'
  BY <1>1, <1>5, WellFormedThen
<1>10. QED BY <1>1, <1>3, <1>4, <1>5, <1>6, <1>7, <1>8, <1>9, LocalStep DEF Lcore, Types

\* An lcore reads a number, and keeps its other registers.
LEMMA SeenMoves ==
  ASSUME RegisterTypes, NEW l \in Lcores, NEW to \in PCs \ {"idle"}, Goto(l, to),
         NEW n \in NumberTags,
         seen' = [seen EXCEPT ![l] = n], UNCHANGED <<slot, word, tries, cand>>
  PROVE  /\ RegisterTypes' /\ Others(l) /\ cand' = cand
         /\ pc'[l] = to /\ slot'[l] = slot[l] /\ word'[l] = word[l] /\ seen'[l] = n
         /\ tries'[l] = tries[l] /\ key'[l] = key[l] /\ seg'[l] = seg[l] /\ num'[l] = num[l]
<1>1. seen' \in [Lcores -> NumberTags] /\ seen'[l] = n /\ \A m \in Lcores : m # l => seen'[m] = seen[m]
  BY DEF RegisterTypes
<1>2. RegisterTypes'
  BY <1>1, GotoMoves DEF RegisterTypes
<1>3. Others(l)
  BY <1>1, GotoMoves DEF Others, Same
<1>4. QED BY <1>1, <1>2, <1>3, GotoMoves

LEMMA CloseInv ==
  ASSUME IInv, NEW l \in Lcores, Close(l)
  PROVE  IInv'
<1>1. /\ pc[l] = "close" /\ RegisterTypes /\ pc[l] \notin AtWork /\ Registers(l) /\ UNCHANGED quiet
      /\ WellFormed(word[l])
  BY DEF Close, quiet, countVars, IInv, Lcore, Types, AtWork, AtOwner
<1>2. CASE ~(word[l].st \in Closable /\ ~word[l].busy)
  BY <1>1, <1>2, FinishStep DEF Close
<1>3. CASE word[l].st \in Closable /\ ~word[l].busy
  <2>1. slot[l] \in Slots /\ key[l] \in Keys /\ seg[l] \in {"fin", "s_fin", "ack", "s_ack"}
    BY <1>1 DEF Registers, AtUnset, AtScan
  <2>2. /\ seen' = [seen EXCEPT ![l] = OtherFinEnd(l)] /\ Goto(l, "close_swap")
        /\ UNCHANGED <<slot, word, tries, cand>>
    BY <1>3 DEF Close
  <2>3. PICK n \in NumberTags : n = OtherFinEnd(l)
    BY <2>1, WordTypes DEF OtherFinEnd, IInv, Types, SharedTypes
  <2>4. "close_swap" \in PCs \ {"idle"} /\ "close_swap" \notin AtWork
    BY DEF PCs, AtWork, AtOwner
  <2>5. /\ RegisterTypes' /\ Others(l) /\ cand' = cand
        /\ pc'[l] = "close_swap" /\ slot'[l] = slot[l] /\ word'[l] = word[l] /\ seen'[l] = n
        /\ tries'[l] = tries[l] /\ key'[l] = key[l] /\ seg'[l] = seg[l]
    BY <1>1, <2>2, <2>3, <2>4, SeenMoves
  <2>6. Registers(l)'
    BY <1>1, <2>1, <2>5 DEF Registers, AtScan, AtUnset, AtCreate, AtBypass, AtSynAck
  <2>7. Held(l)'
    <3>1. pc[l] \in AtRead \ {"decide", "scan_key"}
      BY <1>1 DEF AtRead
    <3>2. QED BY <1>1, <1>3, <2>5, <3>1, StillRead DEF Held, AtScan
  <2>8. Seen(l)'
    <3>1. n.n = FinEnd => IF FromServer(l) THEN ClientFin(word[l]) ELSE ServerFin(word[l])
      BY <2>3, SynProxyAssumption DEF OtherFinEnd, NoNumber
    <3>2. QED BY <2>5, <3>1 DEF Seen, AcksFin, FromServer, Number, ClientFin, ServerFin
  <2>9. WellFormed(word[l])'
    BY <1>1, <2>5, WellFormedThen
  <2>10. QED BY <1>1, <2>4, <2>5, <2>6, <2>7, <2>8, <2>9, QuietStep
<1>4. QED BY <1>2, <1>3

-----------------------------------------------------------------------------
(* Bypassed connections and admission, but for the swaps.                    *)

LEMMA BypassInv ==
  ASSUME IInv, NEW l \in Lcores, Bypass(l)
  PROVE  IInv'
<1>1. /\ pc[l] = "bypass" /\ RegisterTypes /\ pc[l] \notin AtWork /\ Registers(l) /\ UNCHANGED quiet
      /\ WellFormed(word[l]) /\ Held(l)
  BY DEF Bypass, quiet, countVars, IInv, Lcore, Types, AtWork, AtOwner
<1>2. slot[l] \in Slots /\ key[l] \in Keys /\ seg[l] \in Segments /\ pc[l] \in AtRead \ {"decide", "scan_key"}
  BY <1>1 DEF Registers, AtUnset, AtScan, AtBypass, AtRead
<1>3. CASE LastAck(l) /\ word[l].busy
  BY <1>1, <1>3, FinishStep DEF Bypass
<1>4. CASE LastAck(l) /\ ~word[l].busy
  <2>1. Goto(l, "bypass_retire") /\ Keep(l) /\ "bypass_retire" \in PCs /\ "bypass_retire" \notin AtWork
    BY <1>4 DEF Bypass, PCs, AtWork, AtOwner
  <2>2. /\ pc'[l] = "bypass_retire" /\ slot'[l] = slot[l] /\ word'[l] = word[l]
        /\ tries'[l] = tries[l] /\ key'[l] = key[l] /\ seg'[l] = seg[l]
    BY <1>1, <2>1, KeepMoves
  <2>3. Registers(l)'
    BY <1>1, <1>2, <2>2 DEF Registers, AtScan, AtUnset, AtCreate, AtBypass, AtSynAck
  <2>4. Held(l)' /\ Seen(l)'
    BY <1>1, <1>2, <1>4, <2>2, StillRead DEF Held, Seen, AtScan
  <2>5. QED BY <1>1, <2>1, <2>3, <2>4, KeepStep
<1>5. CASE ~LastAck(l)
  <2>1. /\ seen' = [seen EXCEPT ![l] = IF seg[l] \in {"ack", "fin"} /\ IsnAwaitsAck(word[l])
                                       THEN server_isn[slot[l]] ELSE NoNumber]
        /\ Goto(l, "bypass_swap") /\ UNCHANGED <<slot, word, tries, cand>>
    BY <1>5 DEF Bypass
  <2>2. PICK n \in NumberTags : n = IF seg[l] \in {"ack", "fin"} /\ IsnAwaitsAck(word[l])
                                    THEN server_isn[slot[l]] ELSE NoNumber
    BY <1>2, WordTypes DEF IInv, Types, SharedTypes
  <2>3. "bypass_swap" \in PCs \ {"idle"} /\ "bypass_swap" \notin AtWork
    BY DEF PCs, AtWork, AtOwner
  <2>4. /\ RegisterTypes' /\ Others(l) /\ cand' = cand
        /\ pc'[l] = "bypass_swap" /\ slot'[l] = slot[l] /\ word'[l] = word[l] /\ seen'[l] = n
        /\ tries'[l] = tries[l] /\ key'[l] = key[l] /\ seg'[l] = seg[l]
    BY <1>1, <2>1, <2>2, <2>3, SeenMoves
  <2>5. Registers(l)'
    BY <1>1, <1>2, <2>4 DEF Registers, AtScan, AtUnset, AtCreate, AtBypass, AtSynAck
  <2>6. Held(l)'
    BY <1>1, <1>2, <2>4, StillRead DEF Held, AtScan
  <2>7. Seen(l)'
    <3>1. ReadBefore(slot[l], word[l])
      BY <1>1, <1>2 DEF Held
    <3>2. seg[l] \in {"ack", "fin"} /\ IsnAwaitsAck(word[l]) /\ SameEntry(ctl[slot[l]], word[l])
            => n.gen = word[l].gen
      BY <2>2, <3>1 DEF ReadBefore, IsnAwaitsAck
    <3>3. QED BY <1>1, <2>4, <3>2 DEF Seen, IsnAwaitsAck, SameEntry, quiet
  <2>8. WellFormed(word[l])'
    BY <1>1, <2>4, WellFormedThen
  <2>9. QED BY <1>1, <2>3, <2>4, <2>5, <2>6, <2>7, <2>8, QuietStep
<1>6. QED BY <1>3, <1>4, <1>5

LEMMA AdmitIsnInv ==
  ASSUME IInv, NEW l \in Lcores, AdmitIsn(l)
  PROVE  IInv'
<1>1. /\ pc[l] = "admit_isn" /\ RegisterTypes /\ pc[l] \notin AtWork /\ Registers(l) /\ UNCHANGED quiet
      /\ WellFormed(word[l]) /\ Held(l)
  BY DEF AdmitIsn, quiet, countVars, IInv, Lcore, Types, AtWork, AtOwner
<1>2. slot[l] \in Slots /\ key[l] \in Keys /\ pc[l] \in AtRead \ {"decide", "scan_key"}
  BY <1>1 DEF Registers, AtUnset, AtScan, AtRead
<1>3. CASE Finish(l)
  BY <1>1, <1>3, FinishStep
<1>4. CASE ~Finish(l)
  <2>1. /\ seen' = [seen EXCEPT ![l] = server_isn[slot[l]]]
        /\ Goto(l, "admit_again") /\ UNCHANGED <<slot, word, tries, cand>>
    BY <1>4 DEF AdmitIsn
  <2>2. PICK n \in NumberTags : n = server_isn[slot[l]]
    BY <1>2 DEF IInv, Types, SharedTypes
  <2>3. "admit_again" \in PCs \ {"idle"} /\ "admit_again" \notin AtWork
    BY DEF PCs, AtWork, AtOwner
  <2>4. /\ RegisterTypes' /\ Others(l) /\ cand' = cand
        /\ pc'[l] = "admit_again" /\ slot'[l] = slot[l] /\ word'[l] = word[l] /\ seen'[l] = n
        /\ tries'[l] = tries[l] /\ key'[l] = key[l] /\ seg'[l] = seg[l]
    BY <1>1, <2>1, <2>2, <2>3, SeenMoves
  <2>5. Registers(l)'
    BY <1>1, <1>2, <2>4 DEF Registers, AtScan, AtUnset, AtCreate, AtBypass, AtSynAck
  <2>6. Held(l)'
    BY <1>1, <1>2, <2>4, StillRead DEF Held, AtScan
  <2>7. Seen(l)'
    <3>1. ReadBefore(slot[l], word[l]) /\ word[l].isn
      BY <1>1, <1>2 DEF Held
    <3>2. SameEntry(ctl[slot[l]], word[l]) => n.gen = word[l].gen
      BY <2>2, <3>1 DEF ReadBefore
    <3>3. QED BY <1>1, <2>4, <3>2 DEF Seen, SameEntry, quiet
  <2>8. WellFormed(word[l])'
    BY <1>1, <2>4, WellFormedThen
  <2>9. QED BY <1>1, <2>3, <2>4, <2>5, <2>6, <2>7, <2>8, QuietStep
<1>5. QED BY <1>3, <1>4

LEMMA AdmitAgainInv ==
  ASSUME IInv, NEW l \in Lcores, AdmitAgain(l)
  PROVE  IInv'
<1>1. /\ pc[l] = "admit_again" /\ RegisterTypes /\ pc[l] \notin AtWork /\ Registers(l) /\ UNCHANGED quiet
      /\ Seen(l) /\ Held(l)
  BY DEF AdmitAgain, quiet, countVars, IInv, Lcore, Types, AtWork, AtOwner
<1>2. CASE Finish(l)
  BY <1>1, <1>2, FinishStep
<1>3. CASE ~Finish(l)
  <2>1. Goto(l, "admitted") /\ Keep(l) /\ SameEntry(ctl[slot[l]], word[l])
    BY <1>3 DEF AdmitAgain
  <2>2. "admitted" \in PCs /\ "admitted" \notin AtWork
    BY DEF PCs, AtWork, AtOwner
  <2>3. /\ pc'[l] = "admitted" /\ slot'[l] = slot[l] /\ word'[l] = word[l] /\ seen'[l] = seen[l]
        /\ tries'[l] = tries[l] /\ key'[l] = key[l] /\ seg'[l] = seg[l]
    BY <1>1, <2>1, <2>2, KeepMoves
  <2>4. Registers(l)'
    BY <1>1, <2>3 DEF Registers, AtScan, AtUnset, AtCreate, AtBypass, AtSynAck
  <2>5. Held(l)' /\ Seen(l)'
    <3>1. word[l].of = key[l]
      BY <1>1, <2>1 DEF Held, AtRead
    <3>2. QED BY <1>1, <2>1, <2>3, <3>1 DEF Held, Seen, AtRead, AtScan
  <2>6. QED BY <1>1, <2>1, <2>2, <2>4, <2>5, KeepStep
<1>4. QED BY <1>2, <1>3

LEMMA AdmittedInv ==
  ASSUME IInv, NEW l \in Lcores, Admitted(l)
  PROVE  IInv'
<1>1. UNCHANGED quiet /\ pc[l] \notin AtWork /\ Finish(l)
  BY DEF Admitted, quiet, countVars, AtWork, AtOwner
<1>2. QED BY <1>1, FinishStep

-----------------------------------------------------------------------------
(* The cleanup, but for its swap.                                            *)

LEMMA CleanStartInv ==
  ASSUME IInv, NEW l \in Lcores, CleanStart(l)
  PROVE  IInv'
<1>1. /\ pc[l] = "idle" /\ RegisterTypes /\ pc[l] \notin AtWork /\ Registers(l) /\ UNCHANGED quiet
      /\ WellFormed(word[l])
  BY DEF CleanStart, quiet, countVars, IInv, Lcore, Types, AtWork, AtOwner
<1>2. /\ pc' = [pc EXCEPT ![l] = "scan"] /\ seg' = [seg EXCEPT ![l] = "clean"]
      /\ UNCHANGED <<key, num, slot, word, seen, tries, cand>>
  BY DEF CleanStart
<1>3. RegisterTypes' /\ Others(l) /\ pc'[l] = "scan" /\ seg'[l] = "clean"
  BY <1>1, <1>2 DEF RegisterTypes, Others, Same, PCs
<1>4. Registers(l)'
  BY <1>1, <1>2, <1>3 DEF Registers, AtScan, AtUnset, AtCreate, AtBypass, AtSynAck
<1>5. Held(l)' /\ Seen(l)' /\ pc'[l] \notin AtWork
  BY <1>3 DEF Held, Seen, AtRead, AtScan, AtWork, AtOwner
<1>6. WellFormed(word[l])'
  BY <1>1, <1>2, WellFormedThen
<1>7. QED BY <1>1, <1>2, <1>3, <1>4, <1>5, <1>6, QuietStep

LEMMA ScanInv ==
  ASSUME IInv, NEW l \in Lcores, NEW k \in Keys, Scan(l, k)
  PROVE  IInv'
<1>1. /\ pc[l] = "scan" /\ RegisterTypes /\ pc[l] \notin AtWork /\ Registers(l) /\ UNCHANGED quiet
      /\ WellFormed(word[l]) /\ seg[l] = "clean"
  BY DEF Scan, quiet, countVars, IInv, Lcore, Types, AtWork, AtOwner, Registers, AtScan
<1>2. /\ Goto(l, "scan_word") /\ slot' = [slot EXCEPT ![l] = conn_hash[k]]
      /\ UNCHANGED <<word, seen, tries, cand>>
  BY DEF Scan
<1>3. PICK s \in Slots : s = conn_hash[k] /\ slot_key[s] = k
  BY DEF Scan, IInv, Types, SharedTypes, Table
<1>4. "scan_word" \in PCs
  BY DEF PCs
<1>5. /\ pc'[l] = "scan_word" /\ seg'[l] = "clean" /\ slot'[l] = s
      /\ word'[l] = word[l] /\ tries'[l] = tries[l]
  BY <1>1, <1>2, <1>3, <1>4, GotoMoves DEF RegisterTypes
<1>6. RegisterTypes'
  BY <1>1, <1>2, <1>3, <1>4, GotoMoves DEF RegisterTypes
<1>7. Others(l)
  BY <1>1, <1>2, <1>4, GotoMoves DEF Others, Same, RegisterTypes
<1>8. Registers(l)'
  BY <1>1, <1>5 DEF Registers, AtScan, AtUnset, AtCreate, AtBypass, AtSynAck
<1>9. Held(l)' /\ Seen(l)' /\ pc'[l] \notin AtWork
  <2>1. slot_key'[s] = k
    BY <1>1, <1>3 DEF quiet, tableVars
  <2>2. QED BY <1>5, <2>1 DEF Held, Seen, AtRead, AtScan, AtWork, AtOwner
<1>10. WellFormed(word[l])' /\ cand' \subseteq cand
  BY <1>1, <1>2, <1>5, WellFormedThen
<1>11. QED BY <1>1, <1>6, <1>7, <1>8, <1>9, <1>10, QuietStep

LEMMA ScanDueInv ==
  ASSUME IInv, NEW l \in Lcores, NEW s \in Slots, ScanDue(l, s)
  PROVE  IInv'
<1>1. /\ pc[l] = "scan_word" /\ RegisterTypes /\ pc[l] \notin AtWork /\ Registers(l) /\ UNCHANGED quiet
      /\ Held(l) /\ slot[l] = s /\ MayBeDue(ctl[s])
  BY DEF ScanDue, quiet, countVars, IInv, Lcore, Types, AtWork, AtOwner
<1>2. PICK c \in Words : c = ctl[s]
  BY DEF IInv, Types, SharedTypes
<1>3. WellFormed(c) /\ ReadBefore(s, c)
  BY <1>1, <1>2, LiveRead DEF MayBeDue
<1>4. /\ Goto(l, "scan_key") /\ word' = [word EXCEPT ![l] = c]
      /\ UNCHANGED <<slot, seen, tries, cand>>
  BY <1>2 DEF ScanDue
<1>5. "scan_key" \in PCs /\ "scan_key" \notin AtWork
  BY DEF PCs, AtWork, AtOwner
<1>6. /\ RegisterTypes' /\ Others(l) /\ cand' = cand
      /\ pc'[l] = "scan_key" /\ slot'[l] = s /\ word'[l] = c /\ tries'[l] = tries[l]
      /\ key'[l] = key[l] /\ seg'[l] = seg[l]
  BY <1>1, <1>4, <1>5, ReadMoves
<1>7. Registers(l)'
  BY <1>1, <1>6 DEF Registers, AtScan, AtUnset, AtCreate, AtBypass, AtSynAck
<1>8. Held(l)' /\ Seen(l)'
  <2>1. ReadBefore(slot[l], word[l])'
    BY <1>1, <1>3, <1>6 DEF ReadBefore, quiet, fieldVars, Begun, Live, SameEntry
  <2>2. slot_key'[s] \in Keys
    BY <1>1 DEF Held, quiet, tableVars, AtScan
  <2>3. QED BY <1>6, <2>1, <2>2 DEF Held, Seen, AtScan
<1>9. WellFormed(word[l])'
  BY <1>3, <1>6, WellFormedThen
<1>10. QED BY <1>1, <1>5, <1>6, <1>7, <1>8, <1>9, QuietStep

LEMMA ScanSkipInv ==
  ASSUME IInv, NEW l \in Lcores, ScanSkip(l)
  PROVE  IInv'
<1>1. /\ UNCHANGED quiet /\ pc[l] \notin AtWork /\ Goto(l, "scan") /\ Drop(l)
      /\ pc[l] = "scan_word" /\ Registers(l)
  BY DEF ScanSkip, quiet, countVars, AtWork, AtOwner, IInv, Lcore
<1>2. seg[l] = "clean"
  BY <1>1 DEF Registers, AtScan
<1>3. QED BY <1>1, <1>2, DropStep

LEMMA ScanKeyInv ==
  ASSUME IInv, NEW l \in Lcores, ScanKey(l)
  PROVE  IInv'
<1>1. /\ pc[l] = "scan_key" /\ RegisterTypes /\ pc[l] \notin AtWork /\ Registers(l) /\ UNCHANGED quiet
      /\ Held(l) /\ WellFormed(word[l])
  BY DEF ScanKey, quiet, countVars, IInv, Lcore, Types, AtWork, AtOwner
<1>2. slot[l] \in Slots /\ seg[l] = "clean" /\ slot_key[slot[l]] \in Keys
      /\ ReadBefore(slot[l], word[l]) /\ word[l] \in Words
  BY <1>1 DEF Registers, AtUnset, AtScan, Held, AtRead, RegisterTypes
<1>3. PICK x : x = [key |-> slot_key[slot[l]], slot |-> slot[l], word |-> word[l]]
  OBVIOUS
<1>4. x \in [key : Keys, slot : Slots, word : Words]
  BY <1>2, <1>3
<1>5. PICK to \in {"clean", "scan"} :
        /\ cand' = cand \cup {x} /\ Goto(l, to)
        /\ slot' = [slot EXCEPT ![l] = None] /\ word' = [word EXCEPT ![l] = FreeWord(0)]
        /\ UNCHANGED <<seen, tries>>
  BY <1>3 DEF ScanKey
<1>6. to \in PCs /\ to \notin AtWork /\ FreeWord(0) \in Words
  BY WordTypes DEF PCs, AtWork, AtOwner
<1>7. /\ pc'[l] = to /\ seg'[l] = seg[l] /\ slot'[l] = None
      /\ word'[l] = FreeWord(0) /\ tries'[l] = tries[l]
  BY <1>1, <1>5, <1>6, GotoMoves DEF RegisterTypes
<1>8. RegisterTypes'
  <2>1. cand' \subseteq [key : Keys, slot : Slots, word : Words]
    BY <1>1, <1>4, <1>5 DEF RegisterTypes
  <2>2. QED BY <1>1, <1>5, <1>6, <2>1, GotoMoves DEF RegisterTypes
<1>9. Others(l)
  BY <1>1, <1>5, <1>6, GotoMoves DEF Others, Same, RegisterTypes
<1>10. Registers(l)'
  BY <1>1, <1>2, <1>5, <1>7 DEF Registers, AtScan, AtUnset, AtCreate, AtBypass, AtSynAck
<1>11. Held(l)' /\ Seen(l)'
  BY <1>7 DEF Held, Seen, AtRead, AtScan
<1>12. WellFormed(word[l])'
  <2>1. PICK w : w = FreeWord(0) /\ WellFormed(w)
    BY WordTypes
  <2>2. QED BY <1>7, <2>1, WellFormedThen
<1>13. Candidates'
  <2>1. ReadBefore(x.slot, x.word) /\ (SameEntry(ctl[x.slot], x.word) => x.key = x.word.of)
    <3>1. Entry(slot[l])
      BY <1>2 DEF IInv
    <3>2. QED BY <1>2, <1>3, <3>1 DEF Entry, ReadBefore, Begun, Live
  <2>2. ASSUME NEW y \in cand' PROVE /\ ReadBefore(y.slot, y.word)
                                     /\ SameEntry(ctl[y.slot], y.word) => y.key = y.word.of
    BY <1>5, <2>1, <2>2 DEF IInv, Candidates
  <2>3. QED BY <1>1, <2>2 DEF Candidates, ReadBefore, SameEntry, quiet, fieldVars, Begun, Live
<1>14. QED BY <1>1, <1>6, <1>7, <1>8, <1>9, <1>10, <1>11, <1>12, <1>13, QuietStep

LEMMA ScanEndInv ==
  ASSUME IInv, NEW l \in Lcores, ScanEnd(l)
  PROVE  IInv'
<1>1. /\ UNCHANGED quiet /\ pc[l] \notin AtWork /\ Goto(l, "clean") /\ Keep(l)
      /\ pc[l] = "scan" /\ Registers(l) /\ RegisterTypes
  BY DEF ScanEnd, quiet, countVars, AtWork, AtOwner, IInv, Lcore, Types, Keep
<1>2. "clean" \in PCs /\ "clean" \notin AtWork
  BY DEF PCs, AtWork, AtOwner
<1>3. pc'[l] = "clean" /\ seg'[l] = seg[l] /\ tries'[l] = tries[l]
  BY <1>1, <1>2, KeepMoves
<1>4. (Registers(l) /\ Held(l) /\ Seen(l))'
  BY <1>1, <1>3 DEF Registers, Held, Seen, AtScan, AtRead, AtUnset, AtCreate, AtBypass, AtSynAck
<1>5. QED BY <1>1, <1>2, <1>4, KeepStep

LEMMA CleanDueInv ==
  ASSUME IInv, NEW l \in Lcores, NEW s \in Slots, CleanDue(l, s)
  PROVE  IInv'
<1>1. /\ pc[l] = "clean" /\ RegisterTypes /\ pc[l] \notin AtWork /\ Registers(l) /\ UNCHANGED quiet
      /\ seg[l] = "clean"
  BY DEF CleanDue, quiet, countVars, IInv, Lcore, Types, AtWork, AtOwner, Registers, AtScan
<1>2. PICK x \in cand :
       /\ x.slot = s
       /\ SameEntry(ctl[s], x.word) /\ MayBeDue(ctl[s])
       /\ cand' = cand \ {x}
       /\ key' = [key EXCEPT ![l] = x.key]
  BY DEF CleanDue
<1>3. PICK c \in Words : c = ctl[s]
  BY DEF IInv, Types, SharedTypes
<1>4. WellFormed(c) /\ ReadBefore(s, c) /\ Live(c) /\ ~c.busy
  BY <1>2, <1>3, LiveRead DEF MayBeDue
<1>5. x.key \in Keys
  BY <1>1 DEF RegisterTypes
<1>6. x.key = c.of
  <2>1. ReadBefore(s, x.word) /\ x.key = x.word.of
    BY <1>2 DEF IInv, Candidates
  <2>2. QED BY <1>2, <1>3, <2>1 DEF ReadBefore
<1>7. /\ slot' = [slot EXCEPT ![l] = s] /\ word' = [word EXCEPT ![l] = c]
      /\ pc' = [pc EXCEPT ![l] = "clean_retire"] /\ UNCHANGED <<seg, num, seen, tries>>
  BY <1>3 DEF CleanDue
<1>8. /\ pc'[l] = "clean_retire" /\ slot'[l] = s /\ word'[l] = c /\ key'[l] = x.key
      /\ seg'[l] = "clean" /\ tries'[l] = tries[l]
  BY <1>1, <1>2, <1>7 DEF RegisterTypes
<1>9. RegisterTypes'
  BY <1>1, <1>2, <1>5, <1>7 DEF RegisterTypes, PCs
<1>10. Others(l)
  BY <1>1, <1>2, <1>7 DEF Others, Same, RegisterTypes
<1>11. Registers(l)'
  BY <1>1, <1>5, <1>8 DEF Registers, AtScan, AtUnset, AtCreate, AtBypass, AtSynAck
<1>12. Held(l)' /\ Seen(l)'
  <2>1. ReadBefore(slot[l], word[l])'
    BY <1>1, <1>4, <1>8 DEF ReadBefore, quiet, fieldVars, Begun, Live, SameEntry
  <2>2. QED BY <1>4, <1>6, <1>8, <2>1 DEF Held, Seen, AtScan
<1>13. WellFormed(word[l])' /\ pc'[l] \notin AtWork /\ cand' \subseteq cand
  BY <1>2, <1>4, <1>8, WellFormedThen DEF AtWork, AtOwner
<1>14. QED BY <1>1, <1>9, <1>10, <1>11, <1>12, <1>13, QuietStep

LEMMA CleanSkipInv ==
  ASSUME IInv, NEW l \in Lcores, CleanSkip(l)
  PROVE  IInv'
<1>1. /\ pc[l] = "clean" /\ RegisterTypes /\ pc[l] \notin AtWork /\ Registers(l) /\ UNCHANGED quiet
      /\ WellFormed(word[l]) /\ cand' \subseteq cand
      /\ UNCHANGED <<pc, packetVars, slot, word, seen, tries>>
  BY DEF CleanSkip, quiet, countVars, IInv, Lcore, Types, AtWork, AtOwner
<1>2. UNCHANGED <<pc, key, seg, num, slot, word, seen, tries>>
  BY <1>1 DEF packetVars
<1>3. RegisterTypes' /\ Others(l)
  BY <1>1, <1>2 DEF RegisterTypes, Others, Same
<1>4. Registers(l)' /\ WellFormed(word[l])'
  BY <1>1, <1>2 DEF Registers, WellFormed, ClientFin, ServerFin
<1>5. Held(l)' /\ Seen(l)'
  BY <1>1, <1>2 DEF Held, Seen, AtRead, AtScan
<1>6. QED BY <1>1, <1>2, <1>3, <1>4, <1>5, QuietStep

LEMMA CleanEndInv ==
  ASSUME IInv, NEW l \in Lcores, CleanEnd(l)
  PROVE  IInv'
<1>1. UNCHANGED quiet /\ pc[l] \notin AtWork /\ Finish(l)
  BY DEF CleanEnd, quiet, countVars, AtWork, AtOwner
<1>2. QED BY <1>1, FinishStep

LEMMA DeadUnreserveInv ==
  ASSUME IInv, NEW l \in Lcores, DeadUnreserve(l)
  PROVE  IInv'
<1>1. /\ UNCHANGED quiet /\ pc[l] \notin AtWork /\ Afterwards(l) /\ Registers(l)
      /\ pc[l] = "dead_unreserve"
  BY DEF DeadUnreserve, quiet, AtWork, AtOwner, IInv, Lcore
<1>2. key[l] \in Keys
  BY <1>1 DEF Registers, AtScan
<1>3. QED BY <1>1, <1>2, AfterwardsStep

-----------------------------------------------------------------------------
(* Steps that change an entry.                                               *)

\* Nobody works on an entry that is not owned, unless it is being freed.
LEMMA Unworked ==
  ASSUME IInv, NEW s \in Slots, ~Owned(ctl[s]),
         \/ ctl[s].st # "NONE"
         \/ s \in free_slots
         \/ \E k \in Keys : conn_hash[k] = s
  PROVE  \A m \in Lcores : pc[m] \in AtWork => slot[m] # s
<1>1. SUFFICES ASSUME NEW m \in Lcores, pc[m] \in AtWork, slot[m] = s PROVE FALSE
  OBVIOUS
<1>2. Owns(m)
  BY DEF IInv, Lcore
<1>3. CASE pc[m] \in {"fill", "publish"}
  BY <1>1, <1>2, <1>3 DEF Owns, Owned, InitWord, Word
<1>4. CASE pc[m] = "dead_free"
  BY <1>1, <1>2, <1>4 DEF Owns
<1>5. CASE pc[m] \notin {"fill", "publish", "dead_free"}
  BY <1>1, <1>2, <1>5 DEF Owns, Owned, AtWork, AtOwner
<1>6. QED BY <1>3, <1>4, <1>5

\* A step that sets one control word, of the same connection.
LEMMA CtlStep ==
  ASSUME IInv, NEW l \in Lcores, NEW at \in Slots, NEW w,
         ctl' = [ctl EXCEPT ![at] = w], UNCHANGED <<tableVars, fieldVars>>,
         endings' \in [Slots -> Nat], \A s \in Slots : s # at => endings'[s] = endings[s],
         RegisterTypes', Others(l), Lcore(l)', cand' = cand,
         WellFormed(w), w.st # "NONE", w.gen = ctl[at].gen,
         Begun(ctl[at]) => Begun(w) /\ w.of = ctl[at].of,
         at \notin free_slots,
         pc[l] \in AtWork => slot[l] = at,
         \A m \in Lcores : m # l /\ pc[m] \in AtWork => slot[m] # at,
         pc'[l] \in AtWork => slot'[l] = at,
         Owned(w) => slot'[l] = at /\ pc'[l] \in AtOwner,
         slot_key[at] = w.of,
         w.st = "INIT" \/ Live(w) => conn_hash[w.of] = at,
         Begun(w) => conn_key[at] = w.of,
         w.st \in Proxied \ {"CONNECTING"} /\ ~w.busy => seq_delta[at] = w.gen,
         w.isn => server_isn[at].gen = w.gen,
         endings'[at] <= 1,
         Live(w) => endings'[at] = IF w.st = "CLOSED" THEN 1 ELSE 0
  PROVE  IInv'
<1>1. /\ ctl' \in [Slots -> Words] /\ ctl'[at] = w
      /\ \A s \in Slots : s # at => ctl'[s] = ctl[s]
      /\ ctl[at].gen \in Nat
  BY DEF IInv, Types, SharedTypes, WellFormed, Words
<1>2. UNCHANGED <<conn_hash, free_slots, slot_key, conn_key, server_isn, client_fin_end, server_fin_end,
                  seq_delta>>
  BY DEF tableVars, fieldVars
<1>3. Types'
  BY <1>1, <1>2 DEF IInv, Types, SharedTypes
<1>4. \A s \in Slots : s # at => Untouched(s)
  BY <1>1, <1>2 DEF Untouched
<1>5. Evolves(at)
  BY <1>1, <1>2 DEF Evolves, SameEntry
<1>6. Candidates'
  BY <1>3, <1>4, <1>5, UntouchedEvolves, CandidatesStay DEF Types
<1>7. Table'
  BY <1>1, <1>2 DEF IInv, Table, Types, SharedTypes
<1>8. Entry(at)'
  BY <1>1, <1>2 DEF Entry, WellFormed, ClientFin, ServerFin, Live, Begun
<1>9. QED BY <1>1, <1>3, <1>4, <1>5, <1>6, <1>7, <1>8, Frame

LEMMA OwnerKnows ==
  ASSUME IInv, NEW l \in Lcores, pc[l] \in AtWork
  PROVE  /\ slot[l] \in Slots /\ key[l] \in Keys /\ Registers(l) /\ Held(l) /\ Owns(l)
         /\ WellFormed(word[l]) /\ RegisterTypes /\ Entry(slot[l]) /\ Table
         /\ \A m \in Lcores : m # l /\ pc[m] \in AtWork => slot[m] # slot[l]
<1>1. Registers(l) /\ Held(l) /\ Owns(l) /\ WellFormed(word[l]) /\ RegisterTypes
  BY DEF IInv, Lcore, Types
<1>2. slot[l] \in Slots /\ key[l] \in Keys
  BY <1>1 DEF Registers, AtWork, AtOwner, AtUnset, AtScan
<1>3. QED BY <1>1, <1>2 DEF IInv, Exclusive

\* An lcore that gave up a claim.
LEMMA ToUnreserve ==
  ASSUME IInv, NEW l \in Lcores, UNCHANGED quiet, Goto(l, "unreserve"), Keep(l), pc[l] = "claim"
  PROVE  IInv'
<1>1. RegisterTypes /\ pc[l] \notin AtWork /\ Registers(l)
  BY DEF IInv, Lcore, Types, AtWork, AtOwner
<1>2. "unreserve" \in PCs /\ "unreserve" \notin AtWork
  BY DEF PCs, AtWork, AtOwner
<1>3. /\ pc'[l] = "unreserve" /\ key'[l] = key[l] /\ seg'[l] = seg[l] /\ tries'[l] = tries[l]
  BY <1>1, <1>2, KeepMoves
<1>4. (Registers(l) /\ Held(l) /\ Seen(l))'
  BY <1>1, <1>3 DEF Registers, Held, Seen, AtScan, AtRead, AtUnset, AtCreate, AtBypass, AtSynAck
<1>5. QED BY <1>1, <1>2, <1>4, KeepStep

LEMMA ClaimInv ==
  ASSUME IInv, NEW l \in Lcores, Claim(l)
  PROVE  IInv'
<1>1. /\ pc[l] = "claim" /\ RegisterTypes /\ pc[l] \notin AtWork /\ Registers(l) /\ Held(l)
      /\ UNCHANGED <<tableVars, fieldVars, endings>> /\ UNCHANGED <<slot, seen, tries, cand>>
      /\ WellFormed(word[l])
  BY DEF Claim, countVars, IInv, Lcore, Types, AtWork, AtOwner
<1>2. /\ slot[l] \in Slots /\ key[l] \in Keys /\ seg[l] \in {"syn", "ack"} /\ word[l].st = "NONE"
      /\ word[l].gen \in Nat
  BY <1>1 DEF Registers, AtUnset, AtScan, AtCreate, Held, WellFormed, Words
<1>3. CASE ctl[slot[l]] # word[l]
  BY <1>1, <1>3, ToUnreserve DEF Claim, Keep, quiet
<1>4. CASE ctl[slot[l]] = word[l]
  <2>1. PICK at \in Slots : at = slot[l]
    BY <1>2
  <2>2. PICK w : w = InitWord(word[l].gen, key[l])
    OBVIOUS
  <2>3. WellFormed(w) /\ w.st = "INIT" /\ w.gen = ctl[at].gen /\ w.of = key[l] /\ ~w.busy /\ ~w.isn
        /\ w \in Words
    BY <1>2, <1>4, <2>1, <2>2
    DEF WellFormed, InitWord, Word, Words, States, ClientFin, ServerFin
  <2>4. /\ Goto(l, "fill") /\ ctl' = [ctl EXCEPT ![at] = w] /\ word' = [word EXCEPT ![l] = w]
    BY <1>4, <2>1, <2>2 DEF Claim
  <2>5. "fill" \in PCs
    BY DEF PCs
  <2>6. /\ RegisterTypes' /\ Others(l) /\ cand' = cand /\ pc'[l] = "fill" /\ slot'[l] = at
        /\ word'[l] = w /\ key'[l] = key[l] /\ seg'[l] = seg[l] /\ tries'[l] = tries[l]
    BY <1>1, <2>1, <2>3, <2>4, <2>5, ReadMoves
  <2>7. conn_hash[key[l]] = at /\ ctl[at].st = "NONE" /\ ~Owned(ctl[at]) /\ ~Begun(ctl[at])
    BY <1>1, <1>2, <1>4, <2>1 DEF Held, WellFormed, Owned, Begun, Live, FreeWord, Word
  <2>8. at \notin free_slots /\ slot_key[at] = key[l] /\ Entry(at)
    BY <1>2, <2>7, SynProxyAssumption DEF IInv, Table
  <2>9. \A m \in Lcores : pc[m] \in AtWork => slot[m] # at
    BY <1>2, <2>7, Unworked
  <2>10. ctl'[at] = w
    BY <2>3, <2>4 DEF IInv, Types, SharedTypes
  <2>11. Lcore(l)'
    <3>1. Registers(l)'
      BY <1>1, <1>2, <2>6 DEF Registers, AtScan, AtUnset, AtCreate, AtBypass, AtSynAck
    <3>2. Held(l)' /\ Seen(l)'
      BY <2>6 DEF Held, Seen, AtRead, AtScan
    <3>3. w = InitWord(w.gen, key[l])
      BY <1>4, <2>1, <2>2, <2>3
    <3>4. Owns(l)'
      BY <2>6, <2>10, <3>3 DEF Owns
    <3>5. QED BY <2>3, <2>6, <3>1, <3>2, <3>4, WellFormedThen DEF Lcore
  <2>12. /\ endings' \in [Slots -> Nat] /\ \A s \in Slots : endings'[s] = endings[s]
    BY <1>1 DEF IInv, Types, SharedTypes
  <2>13. pc'[l] \in AtOwner /\ pc'[l] \in AtWork /\ w.st \notin Proxied /\ ~Live(w)
    BY <2>3, <2>6 DEF AtOwner, AtWork, Proxied, Live
  <2>14. endings'[at] <= 1
    BY <2>8, <2>12 DEF Entry
  <2>15. ~Begun(w)
    BY <2>3, <2>13 DEF Begun
  <2>16. QED
    BY <1>1, <2>3, <2>4, <2>6, <2>7, <2>8, <2>9, <2>11, <2>12, <2>13, <2>14, <2>15, CtlStep
<1>5. QED BY <1>3, <1>4

LEMMA PublishInv ==
  ASSUME IInv, NEW l \in Lcores, Publish(l)
  PROVE  IInv'
<1>1. /\ pc[l] = "publish" /\ pc[l] \in AtWork /\ UNCHANGED <<tableVars, fieldVars, endings>>
  BY DEF Publish, countVars, AtWork, AtOwner
<1>2. /\ slot[l] \in Slots /\ key[l] \in Keys /\ Registers(l) /\ Owns(l) /\ RegisterTypes
      /\ Entry(slot[l]) /\ Table /\ WellFormed(word[l])
      /\ \A m \in Lcores : m # l /\ pc[m] \in AtWork => slot[m] # slot[l]
  BY <1>1, OwnerKnows
<1>3. PICK at \in Slots : at = slot[l]
  BY <1>2
<1>4. PICK w : w = Published(word[l], IF seg[l] = "ack" THEN "CONNECTING" ELSE "BYPASSED")
  OBVIOUS
<1>5. /\ ctl[at].st = "INIT" /\ ctl[at].of = key[l] /\ ctl[at].gen = word[l].gen
      /\ word[l].of = key[l] /\ conn_key[at] = key[l] /\ endings[at] = 0
  BY <1>1, <1>2, <1>3 DEF Owns, InitWord, Word
<1>6. /\ WellFormed(w) /\ w.st \in {"CONNECTING", "BYPASSED"} /\ w.gen = ctl[at].gen /\ w.of = key[l]
      /\ ~w.busy /\ ~w.isn /\ w \in Words
  BY <1>2, <1>4, <1>5 DEF WellFormed, Published, Word, Words, States, Proxied, ClientFin, ServerFin
<1>7. ctl' = [ctl EXCEPT ![at] = w]
  BY <1>3, <1>4 DEF Publish
<1>8. ctl'[at] = w
  BY <1>6, <1>7 DEF IInv, Types, SharedTypes
<1>9. Begun(w) /\ Live(w) /\ ~Owned(w) /\ w.st # "NONE" /\ ~Begun(ctl[at])
      /\ w.st \notin Proxied \ {"CONNECTING"}
  BY <1>5, <1>6 DEF Begun, Live, Owned, Proxied
<1>10. RegisterTypes' /\ Others(l) /\ Lcore(l)' /\ cand' = cand /\ pc'[l] \notin AtWork
  <2>1. CASE Finish(l)
    BY <1>2, <2>1, Leaves DEF Finish, AtWork, AtOwner
  <2>2. CASE ~Finish(l)
    <3>1. /\ Goto(l, "connecting") /\ word' = [word EXCEPT ![l] = w]
          /\ UNCHANGED <<slot, seen, tries, cand>> /\ seg[l] = "ack"
      BY <1>4, <2>2 DEF Publish
    <3>2. "connecting" \in PCs
      BY DEF PCs
    <3>3. /\ RegisterTypes' /\ Others(l) /\ cand' = cand /\ pc'[l] = "connecting" /\ slot'[l] = at
          /\ word'[l] = w /\ key'[l] = key[l] /\ seg'[l] = seg[l] /\ tries'[l] = tries[l]
      BY <1>2, <1>3, <1>6, <3>1, <3>2, ReadMoves
    <3>4. Registers(l)'
      BY <1>2, <3>1, <3>3 DEF Registers, AtScan, AtUnset, AtCreate, AtBypass, AtSynAck
    <3>5. ReadBefore(at, w)'
      <4>1. w.gen \in Nat
        BY <1>6 DEF Words
      <4>2. QED BY <1>6, <1>8, <1>9, <4>1 DEF ReadBefore, SameEntry
    <3>6. Held(l)' /\ Seen(l)' /\ Owns(l)'
      BY <1>6, <3>3, <3>5 DEF Held, Seen, Owns, AtScan, ReadBefore
    <3>7. QED BY <1>6, <3>3, <3>4, <3>6, WellFormedThen DEF Lcore, AtWork, AtOwner
  <2>3. QED BY <2>1, <2>2
<1>11. at \notin free_slots /\ slot_key[at] = key[l] /\ conn_hash[key[l]] = at
  BY <1>2, <1>3, <1>5 DEF Entry, Table
<1>12. /\ endings' \in [Slots -> Nat] /\ \A s \in Slots : endings'[s] = endings[s]
  BY <1>1 DEF IInv, Types, SharedTypes
<1>13. endings'[at] <= 1 /\ (Live(w) => endings'[at] = IF w.st = "CLOSED" THEN 1 ELSE 0)
  BY <1>5, <1>6, <1>12
<1>14. \A m \in Lcores : m # l /\ pc[m] \in AtWork => slot[m] # at
  BY <1>2, <1>3
<1>15. UNCHANGED <<tableVars, fieldVars>>
  BY <1>1
<1>16. QED
  BY <1>3, <1>6, <1>7, <1>9, <1>10, <1>11, <1>12, <1>13, <1>14, <1>15, <1>5, CtlStep

LEMMA SynAckInv ==
  ASSUME IInv, NEW l \in Lcores, SynAck(l)
  PROVE  IInv'
<1>1. /\ pc[l] = "synack" /\ RegisterTypes /\ pc[l] \notin AtWork /\ Registers(l) /\ Held(l)
      /\ UNCHANGED <<tableVars, fieldVars>> /\ UNCHANGED <<endings, entries_used>>
      /\ WellFormed(word[l])
  BY DEF SynAck, countVars, IInv, Lcore, Types, AtWork, AtOwner
<1>2. /\ slot[l] \in Slots /\ key[l] \in Keys /\ seg[l] = "s_synack" /\ word[l].st = "CONNECTING"
      /\ ReadBefore(slot[l], word[l]) /\ (SameEntry(ctl[slot[l]], word[l]) => key[l] = word[l].of)
  BY <1>1 DEF Registers, AtUnset, AtScan, AtSynAck, Held, AtRead
<1>3. CASE ctl[slot[l]] # word[l]
  BY <1>1, <1>3, FinishStep DEF SynAck, quiet
<1>4. CASE ctl[slot[l]] = word[l]
  <2>1. PICK at \in Slots : at = slot[l]
    BY <1>2
  <2>2. PICK c : c = ctl[at]
    OBVIOUS
  <2>3. PICK w : w = Word("ESTABLISHED", c.gen, TRUE, c.fc, c.fs, c.isn, c.hs, c.of)
    OBVIOUS
  <2>4. Entry(at) /\ Table /\ WellFormed(c) /\ c.st = "CONNECTING" /\ c.of = key[l] /\ ~c.busy
        /\ ~c.isn /\ ~c.hs /\ ~c.fc /\ ~c.fs
    <3>1. Entry(at) /\ Table /\ WellFormed(c) /\ c.st = "CONNECTING"
      BY <1>1, <1>2, <1>4, <2>1, <2>2 DEF IInv
    <3>2. QED BY <1>2, <1>4, <2>1, <2>2, <3>1 DEF WellFormed, ClientFin, ServerFin, SameEntry
  <2>5. /\ WellFormed(w) /\ w \in Words /\ w.st = "ESTABLISHED" /\ w.busy /\ w.gen = c.gen
        /\ w.of = key[l] /\ ~w.isn
    BY <2>3, <2>4 DEF WellFormed, Word, Words, States, Proxied, ClientFin, ServerFin
  <2>6. /\ Goto(l, "synack_half") /\ ctl' = [ctl EXCEPT ![at] = w]
        /\ word' = [word EXCEPT ![l] = w] /\ UNCHANGED <<slot, seen, tries, cand>>
    BY <1>4, <2>1, <2>2, <2>3 DEF SynAck
  <2>7. "synack_half" \in PCs
    BY DEF PCs
  <2>8. /\ RegisterTypes' /\ Others(l) /\ cand' = cand /\ pc'[l] = "synack_half" /\ slot'[l] = at
        /\ word'[l] = w /\ key'[l] = key[l] /\ seg'[l] = seg[l] /\ tries'[l] = tries[l]
    BY <1>1, <2>1, <2>5, <2>6, <2>7, ReadMoves
  <2>9. Live(c) /\ Begun(c) /\ ~Owned(c) /\ Live(w) /\ Begun(w)
    BY <2>4, <2>5 DEF Live, Begun, Owned
  <2>10. \A m \in Lcores : pc[m] \in AtWork => slot[m] # at
    BY <2>2, <2>4, <2>9, Unworked
  <2>11. ctl'[at] = w
    BY <2>5, <2>6 DEF IInv, Types, SharedTypes
  <2>12. Lcore(l)'
    <3>1. Registers(l)'
      BY <1>1, <1>2, <2>8 DEF Registers, AtScan, AtUnset, AtCreate, AtBypass, AtSynAck
    <3>2. Held(l)' /\ Seen(l)'
      BY <2>8 DEF Held, Seen, AtRead, AtScan
    <3>3. Owns(l)'
      BY <2>5, <2>8, <2>11 DEF Owns
    <3>4. QED BY <2>5, <2>8, <3>1, <3>2, <3>3, WellFormedThen DEF Lcore
  <2>13. endings' \in [Slots -> Nat] /\ \A s \in Slots : endings'[s] = endings[s]
    BY <1>1 DEF IInv, Types, SharedTypes
  <2>14. /\ at \notin free_slots /\ slot_key[at] = w.of /\ conn_hash[w.of] = at /\ conn_key[at] = w.of
         /\ endings'[at] = 0
    BY <2>2, <2>4, <2>5, <2>9, <2>13 DEF Entry, Table
  <2>15. pc'[l] \in AtOwner
    BY <2>8 DEF AtOwner
  <2>16. w.of = c.of /\ w.st # "CLOSED" /\ w.st # "NONE" /\ 0 <= 1
    BY <2>4, <2>5
  <2>17. QED
    BY <1>1, <2>2, <2>5, <2>6, <2>8, <2>9, <2>10, <2>12, <2>13, <2>14, <2>15, <2>16, CtlStep
<1>5. QED BY <1>3, <1>4

LEMMA SynAckHalfInv ==
  ASSUME IInv, NEW l \in Lcores, SynAckHalf(l)
  PROVE  IInv'
<1>1. /\ pc[l] = "synack_half" /\ pc[l] \in AtWork /\ UNCHANGED quiet
      /\ Goto(l, "synack_write") /\ Keep(l)
  BY DEF SynAckHalf, quiet, AtWork, AtOwner
<1>2. /\ slot[l] \in Slots /\ key[l] \in Keys /\ Registers(l) /\ Owns(l) /\ RegisterTypes
      /\ Entry(slot[l]) /\ Table /\ WellFormed(word[l])
      /\ \A m \in Lcores : m # l /\ pc[m] \in AtWork => slot[m] # slot[l]
  BY <1>1, OwnerKnows
<1>3. PICK at \in Slots : at = slot[l]
  BY <1>2
<1>4. "synack_write" \in PCs
  BY DEF PCs
<1>5. /\ RegisterTypes' /\ Others(l) /\ cand' = cand /\ pc'[l] = "synack_write" /\ slot'[l] = at
      /\ word'[l] = word[l] /\ key'[l] = key[l] /\ seg'[l] = seg[l] /\ tries'[l] = tries[l]
  BY <1>1, <1>2, <1>3, <1>4, KeepMoves
<1>6. UNCHANGED shared /\ Types'
  BY <1>1, <1>5 DEF quiet, shared, tableVars, fieldVars, IInv, Types, SharedTypes
<1>7. \A s \in Slots : Untouched(s)
  BY <1>6 DEF Untouched, shared, tableVars
<1>8. Candidates' /\ Table'
  BY <1>5, <1>6, <1>7, UntouchedEvolves, CandidatesStay
  DEF Types, IInv, Table, shared, tableVars
<1>9. Lcore(l)'
  <2>1. Registers(l)'
    BY <1>1, <1>2, <1>3, <1>5 DEF Registers, AtScan, AtUnset, AtCreate, AtBypass, AtSynAck
  <2>2. Held(l)' /\ Seen(l)'
    BY <1>5 DEF Held, Seen, AtRead, AtScan
  <2>3. Owns(l)'
    BY <1>1, <1>2, <1>3, <1>5, <1>6 DEF Owns, shared
  <2>4. QED BY <1>2, <1>5, <2>1, <2>2, <2>3, WellFormedThen DEF Lcore
<1>10. Evolves(at) /\ Entry(at)' /\ pc'[l] \in AtOwner
  BY <1>5, <1>7, UntouchedEvolves, EntryStays DEF AtOwner
<1>11. QED BY <1>2, <1>3, <1>5, <1>6, <1>7, <1>8, <1>9, <1>10, Frame

\* A step of an entry's owner that leaves the control word and the table alone.
LEMMA FieldStep ==
  ASSUME IInv, NEW l \in Lcores, pc[l] \in AtWork, NEW at \in Slots, at = slot[l],
         UNCHANGED <<tableVars, ctl>>, Types', Others(l), cand' = cand,
         \A s \in Slots : s # at =>
           /\ conn_key'[s] = conn_key[s] /\ server_isn'[s] = server_isn[s]
           /\ seq_delta'[s] = seq_delta[s] /\ endings'[s] = endings[s],
         server_isn[at].gen = ctl[at].gen => server_isn'[at].gen = ctl[at].gen,
         Lcore(l)', pc'[l] \in AtOwner, slot'[l] = at,
         Entry(at)'
  PROVE  IInv'
<1>1. \A m \in Lcores : m # l /\ pc[m] \in AtWork => slot[m] # slot[l]
  BY OwnerKnows
<1>2. \A s \in Slots : s # at => Untouched(s)
  BY DEF Untouched, tableVars
<1>3. Evolves(at)
  <2>1. ctl[at].gen \in Nat
    BY DEF IInv, Types, SharedTypes, Words
  <2>2. QED BY <2>1 DEF Evolves, tableVars
<1>4. Candidates' /\ Table'
  BY <1>2, <1>3, UntouchedEvolves, CandidatesStay DEF Types, IInv, Table, tableVars
<1>5. QED BY <1>1, <1>2, <1>3, <1>4, Frame

LEMMA FillInv ==
  ASSUME IInv, NEW l \in Lcores, Fill(l)
  PROVE  IInv'
<1>1. /\ pc[l] = "fill" /\ pc[l] \in AtWork /\ UNCHANGED <<tableVars, ctl>>
      /\ Goto(l, "publish") /\ Keep(l)
  BY DEF Fill, AtWork, AtOwner
<1>2. /\ slot[l] \in Slots /\ key[l] \in Keys /\ Registers(l) /\ Owns(l) /\ RegisterTypes
      /\ Entry(slot[l]) /\ WellFormed(word[l])
  BY <1>1, OwnerKnows
<1>3. PICK at \in Slots : at = slot[l]
  BY <1>2
<1>4. "publish" \in PCs
  BY DEF PCs
<1>5. /\ RegisterTypes' /\ Others(l) /\ cand' = cand /\ pc'[l] = "publish" /\ slot'[l] = at
      /\ word'[l] = word[l] /\ key'[l] = key[l] /\ seg'[l] = seg[l] /\ tries'[l] = tries[l]
  BY <1>1, <1>2, <1>3, <1>4, KeepMoves
<1>6. PICK n \in NumberTags : n = Number(l, None) /\ n.gen = word[l].gen
  <2>1. Number(l, None) \in NumberTags /\ Number(l, None).gen = word[l].gen
    BY <1>2 DEF Number, NumberTags, WellFormed, Words
  <2>2. QED BY <2>1
<1>7. /\ conn_key' = [conn_key EXCEPT ![at] = key[l]] /\ server_isn' = [server_isn EXCEPT ![at] = n]
      /\ client_fin_end' = [client_fin_end EXCEPT ![at] = n]
      /\ server_fin_end' = [server_fin_end EXCEPT ![at] = n]
      /\ seq_delta' = [seq_delta EXCEPT ![at] = None] /\ endings' = [endings EXCEPT ![at] = 0]
  BY <1>3, <1>6 DEF Fill
<1>8. SharedTypes /\ SharedTypes'
  BY <1>1, <1>2, <1>6, <1>7 DEF IInv, Types, SharedTypes, tableVars
<1>9. /\ conn_key'[at] = key[l] /\ server_isn'[at] = n /\ endings'[at] = 0
      /\ \A s \in Slots : s # at =>
           /\ conn_key'[s] = conn_key[s] /\ server_isn'[s] = server_isn[s]
           /\ seq_delta'[s] = seq_delta[s] /\ endings'[s] = endings[s]
  BY <1>7, <1>8 DEF SharedTypes
<1>10. ctl[at] = word[l] /\ ctl[at] = InitWord(ctl[at].gen, key[l])
  BY <1>1, <1>2, <1>3 DEF Owns
<1>11. Lcore(l)'
  <2>1. Registers(l)'
    BY <1>1, <1>2, <1>3, <1>5 DEF Registers, AtScan, AtUnset, AtCreate, AtBypass, AtSynAck
  <2>2. Held(l)' /\ Seen(l)'
    BY <1>5 DEF Held, Seen, AtRead, AtScan
  <2>3. Owns(l)'
    BY <1>1, <1>5, <1>9, <1>10 DEF Owns
  <2>4. QED BY <1>2, <1>5, <2>1, <2>2, <2>3, WellFormedThen DEF Lcore
<1>12. Entry(at)'
  <2>1. ctl[at].st = "INIT" /\ ~ctl[at].isn /\ ctl[at].of = key[l]
    BY <1>10 DEF InitWord, Word
  <2>2. Entry(at)
    BY <1>2, <1>3
  <2>3. QED BY <1>1, <1>9, <2>1, <2>2
             DEF Entry, WellFormed, ClientFin, ServerFin, Begun, Live, Proxied, tableVars
<1>13. pc'[l] \in AtOwner
  BY <1>5 DEF AtOwner
<1>14. server_isn'[at].gen = ctl[at].gen
  BY <1>6, <1>9, <1>10
<1>15. QED BY <1>1, <1>3, <1>5, <1>8, <1>9, <1>11, <1>12, <1>13, <1>14, FieldStep DEF Types

LEMMA SynAckWriteInv ==
  ASSUME IInv, NEW l \in Lcores, SynAckWrite(l)
  PROVE  IInv'
<1>1. /\ pc[l] = "synack_write" /\ pc[l] \in AtWork /\ UNCHANGED <<tableVars, ctl>>
      /\ Goto(l, "synack_publish") /\ Keep(l)
      /\ UNCHANGED <<conn_key, client_fin_end, server_fin_end, endings>>
  BY DEF SynAckWrite, countVars, AtWork, AtOwner
<1>2. /\ slot[l] \in Slots /\ key[l] \in Keys /\ Registers(l) /\ Owns(l) /\ RegisterTypes
      /\ Entry(slot[l]) /\ WellFormed(word[l])
  BY <1>1, OwnerKnows
<1>3. PICK at \in Slots : at = slot[l]
  BY <1>2
<1>4. "synack_publish" \in PCs
  BY DEF PCs
<1>5. /\ RegisterTypes' /\ Others(l) /\ cand' = cand /\ pc'[l] = "synack_publish" /\ slot'[l] = at
      /\ word'[l] = word[l] /\ key'[l] = key[l] /\ seg'[l] = seg[l] /\ tries'[l] = tries[l]
  BY <1>1, <1>2, <1>3, <1>4, KeepMoves
<1>6. PICK n \in NumberTags : n = Number(l, num[l]) /\ n.gen = word[l].gen
  <2>1. Number(l, num[l]) \in NumberTags /\ Number(l, num[l]).gen = word[l].gen
    BY <1>2 DEF Number, NumberTags, WellFormed, Words, RegisterTypes
  <2>2. QED BY <2>1
<1>7. /\ server_isn' = [server_isn EXCEPT ![at] = n]
      /\ seq_delta' = [seq_delta EXCEPT ![at] = word[l].gen] /\ word[l].gen \in Nat
  BY <1>2, <1>3, <1>6 DEF SynAckWrite, WellFormed, Words
<1>8. SharedTypes /\ SharedTypes'
  BY <1>1, <1>2, <1>6, <1>7 DEF IInv, Types, SharedTypes, tableVars
<1>9. /\ server_isn'[at] = n /\ seq_delta'[at] = word[l].gen
      /\ \A s \in Slots : s # at =>
           server_isn'[s] = server_isn[s] /\ seq_delta'[s] = seq_delta[s]
  BY <1>7, <1>8 DEF SharedTypes
<1>10. ctl[at] = word[l] /\ ctl[at].st = "ESTABLISHED" /\ ctl[at].busy /\ ctl[at].of = key[l]
  BY <1>1, <1>2, <1>3 DEF Owns
<1>11. Lcore(l)'
  <2>1. Registers(l)'
    BY <1>1, <1>2, <1>3, <1>5 DEF Registers, AtScan, AtUnset, AtCreate, AtBypass, AtSynAck
  <2>2. Held(l)' /\ Seen(l)'
    BY <1>5 DEF Held, Seen, AtRead, AtScan
  <2>3. Owns(l)'
    BY <1>1, <1>5, <1>9, <1>10 DEF Owns
  <2>4. QED BY <1>2, <1>5, <2>1, <2>2, <2>3, WellFormedThen DEF Lcore
<1>12. Entry(at)'
  <2>1. Entry(at)
    BY <1>2, <1>3
  <2>2. QED BY <1>1, <1>6, <1>9, <1>10, <2>1
             DEF Entry, WellFormed, ClientFin, ServerFin, Begun, Live, Proxied, tableVars
<1>13. pc'[l] \in AtOwner
  BY <1>5 DEF AtOwner
<1>14. server_isn'[at].gen = ctl[at].gen
  BY <1>6, <1>9, <1>10
<1>15. QED BY <1>1, <1>3, <1>5, <1>8, <1>9, <1>11, <1>12, <1>13, <1>14, FieldStep DEF Types

LEMMA RecordInv ==
  ASSUME IInv, NEW l \in Lcores, Record(l)
  PROVE  IInv'
<1>1. /\ pc[l] = "record" /\ pc[l] \in AtWork /\ UNCHANGED <<tableVars, ctl>>
      /\ Goto(l, "recorded") /\ Keep(l)
      /\ UNCHANGED <<conn_key, client_fin_end, server_fin_end, seq_delta, endings>>
  BY DEF Record, countVars, AtWork, AtOwner
<1>2. /\ slot[l] \in Slots /\ key[l] \in Keys /\ Registers(l) /\ Owns(l) /\ RegisterTypes
      /\ Entry(slot[l]) /\ WellFormed(word[l])
  BY <1>1, OwnerKnows
<1>3. PICK at \in Slots : at = slot[l]
  BY <1>2
<1>4. "recorded" \in PCs
  BY DEF PCs
<1>5. /\ RegisterTypes' /\ Others(l) /\ cand' = cand /\ pc'[l] = "recorded" /\ slot'[l] = at
      /\ word'[l] = word[l] /\ key'[l] = key[l] /\ seg'[l] = seg[l] /\ tries'[l] = tries[l]
  BY <1>1, <1>2, <1>3, <1>4, KeepMoves
<1>6. PICK n \in NumberTags : n = Number(l, num[l]) /\ n.gen = word[l].gen
  <2>1. Number(l, num[l]) \in NumberTags /\ Number(l, num[l]).gen = word[l].gen
    BY <1>2 DEF Number, NumberTags, WellFormed, Words, RegisterTypes
  <2>2. QED BY <2>1
<1>7. server_isn' = [server_isn EXCEPT ![at] = n]
  BY <1>3, <1>6 DEF Record
<1>8. SharedTypes /\ SharedTypes'
  BY <1>1, <1>2, <1>6, <1>7 DEF IInv, Types, SharedTypes, tableVars
<1>9. /\ server_isn'[at] = n
      /\ \A s \in Slots : s # at => server_isn'[s] = server_isn[s]
  BY <1>7, <1>8 DEF SharedTypes
<1>10. ctl[at].st = "BYPASSED" /\ ctl[at].busy /\ ctl[at].gen = word[l].gen
  BY <1>1, <1>2, <1>3 DEF Owns, SameEntry
<1>11. Lcore(l)'
  <2>1. Registers(l)'
    BY <1>1, <1>2, <1>3, <1>5 DEF Registers, AtScan, AtUnset, AtCreate, AtBypass, AtSynAck
  <2>2. Held(l)' /\ Seen(l)'
    BY <1>5 DEF Held, Seen, AtRead, AtScan
  <2>3. Owns(l)'
    BY <1>1, <1>5, <1>6, <1>9, <1>10 DEF Owns, SameEntry
  <2>4. QED BY <1>2, <1>5, <2>1, <2>2, <2>3, WellFormedThen DEF Lcore
<1>12. Entry(at)'
  <2>1. Entry(at)
    BY <1>2, <1>3
  <2>2. QED BY <1>1, <1>6, <1>9, <1>10, <2>1
             DEF Entry, WellFormed, ClientFin, ServerFin, Begun, Live, Proxied, tableVars
<1>13. pc'[l] \in AtOwner
  BY <1>5 DEF AtOwner
<1>14. server_isn'[at].gen = ctl[at].gen
  BY <1>6, <1>9, <1>10
<1>15. QED BY <1>1, <1>3, <1>5, <1>8, <1>9, <1>11, <1>12, <1>13, <1>14, FieldStep DEF Types

LEMMA DeadCountInv ==
  ASSUME IInv, NEW l \in Lcores, DeadCount(l)
  PROVE  IInv'
<1>1. /\ pc[l] = "dead_count" /\ pc[l] \in AtWork /\ UNCHANGED <<tableVars, ctl, fieldVars>>
      /\ Goto(l, "dead_none") /\ Keep(l)
  BY DEF DeadCount, AtWork, AtOwner
<1>2. /\ slot[l] \in Slots /\ key[l] \in Keys /\ Registers(l) /\ Owns(l) /\ RegisterTypes
      /\ Entry(slot[l]) /\ WellFormed(word[l])
  BY <1>1, OwnerKnows
<1>3. PICK at \in Slots : at = slot[l]
  BY <1>2
<1>4. "dead_none" \in PCs
  BY DEF PCs
<1>5. /\ RegisterTypes' /\ Others(l) /\ cand' = cand /\ pc'[l] = "dead_none" /\ slot'[l] = at
      /\ word'[l] = word[l] /\ key'[l] = key[l] /\ seg'[l] = seg[l] /\ tries'[l] = tries[l]
  BY <1>1, <1>2, <1>3, <1>4, KeepMoves
<1>6. endings[at] = IF word[l].st = "CLOSED" THEN 1 ELSE 0
  BY <1>1, <1>2, <1>3 DEF Owns
<1>7. /\ endings' = [endings EXCEPT ![at] = IF CountsEnd(l) THEN endings[at] + 1 ELSE endings[at]]
      /\ UNCHANGED <<conn_key, server_isn, client_fin_end, server_fin_end, seq_delta>>
  BY <1>1, <1>3 DEF DeadCount, fieldVars
<1>8. SharedTypes /\ SharedTypes'
  BY <1>1, <1>2, <1>7 DEF IInv, Types, SharedTypes, tableVars
<1>9. endings'[at] <= 1 /\ \A s \in Slots : s # at => endings'[s] = endings[s]
  BY <1>6, <1>7, <1>8 DEF SharedTypes, CountsEnd
<1>10. ctl[at].st = "DEAD" /\ ctl[at].of = key[l] /\ SameEntry(ctl[at], word[l]) /\ Live(word[l])
       /\ \A k \in Keys : conn_hash[k] # at
  BY <1>1, <1>2, <1>3 DEF Owns
<1>11. Lcore(l)'
  <2>1. Registers(l)'
    BY <1>1, <1>2, <1>3, <1>5 DEF Registers, AtScan, AtUnset, AtCreate, AtBypass, AtSynAck
  <2>2. Held(l)' /\ Seen(l)'
    BY <1>5 DEF Held, Seen, AtRead, AtScan
  <2>3. Owns(l)'
    BY <1>1, <1>5, <1>10 DEF Owns, SameEntry, Live, tableVars
  <2>4. QED BY <1>2, <1>5, <2>1, <2>2, <2>3, WellFormedThen DEF Lcore
<1>12. Entry(at)'
  <2>1. Entry(at)
    BY <1>2, <1>3
  <2>2. QED BY <1>1, <1>7, <1>9, <1>10, <2>1
             DEF Entry, WellFormed, ClientFin, ServerFin, Begun, Live, Proxied, tableVars
<1>13. pc'[l] \in AtOwner
  BY <1>5 DEF AtOwner
<1>14. QED BY <1>1, <1>3, <1>5, <1>7, <1>8, <1>9, <1>11, <1>12, <1>13, FieldStep DEF Types

LEMMA SynAckPublishInv ==
  ASSUME IInv, NEW l \in Lcores, SynAckPublish(l)
  PROVE  IInv'
<1>1. /\ pc[l] = "synack_publish" /\ pc[l] \in AtWork /\ UNCHANGED <<tableVars, fieldVars>>
      /\ UNCHANGED endings /\ UNCHANGED <<slot, seen, tries, cand>> /\ Goto(l, "synack_reply")
  BY DEF SynAckPublish, countVars, AtWork, AtOwner
<1>2. /\ slot[l] \in Slots /\ key[l] \in Keys /\ Registers(l) /\ Owns(l) /\ RegisterTypes
      /\ Entry(slot[l]) /\ Table /\ WellFormed(word[l])
      /\ \A m \in Lcores : m # l /\ pc[m] \in AtWork => slot[m] # slot[l]
  BY <1>1, OwnerKnows
<1>3. PICK at \in Slots : at = slot[l]
  BY <1>2
<1>4. PICK c : c = ctl[at]
  OBVIOUS
<1>5. /\ c = word[l] /\ c.st = "ESTABLISHED" /\ c.busy /\ c.of = key[l] /\ seq_delta[at] = c.gen
      /\ WellFormed(c)
  BY <1>1, <1>2, <1>3, <1>4 DEF Owns
<1>6. PICK w : w = Word("ESTABLISHED", c.gen, FALSE, c.fc, c.fs, c.isn, c.hs, c.of)
  OBVIOUS
<1>7. /\ WellFormed(w) /\ w \in Words /\ w.st = "ESTABLISHED" /\ ~w.busy /\ w.gen = c.gen
      /\ w.of = key[l] /\ ~w.isn /\ w.gen \in Nat
  BY <1>5, <1>6 DEF WellFormed, Word, Words, States, Proxied, ClientFin, ServerFin
<1>8. ctl' = [ctl EXCEPT ![at] = w] /\ word' = [word EXCEPT ![l] = w]
  BY <1>3, <1>4, <1>5, <1>6 DEF SynAckPublish
<1>9. "synack_reply" \in PCs
  BY DEF PCs
<1>10. /\ RegisterTypes' /\ Others(l) /\ cand' = cand /\ pc'[l] = "synack_reply" /\ slot'[l] = at
       /\ word'[l] = w /\ key'[l] = key[l] /\ seg'[l] = seg[l] /\ tries'[l] = tries[l]
  BY <1>1, <1>2, <1>3, <1>7, <1>8, <1>9, ReadMoves
<1>11. ctl'[at] = w
  BY <1>7, <1>8 DEF IInv, Types, SharedTypes
<1>12. Live(c) /\ Begun(c) /\ Live(w) /\ Begun(w) /\ ~Owned(w)
  BY <1>5, <1>7 DEF Live, Begun, Owned
<1>13. Lcore(l)'
  <2>1. Registers(l)'
    BY <1>1, <1>2, <1>3, <1>10 DEF Registers, AtScan, AtUnset, AtCreate, AtBypass, AtSynAck
  <2>2. ReadBefore(at, w)'
    BY <1>7, <1>11, <1>12 DEF ReadBefore, SameEntry
  <2>3. Held(l)' /\ Seen(l)' /\ Owns(l)'
    BY <1>7, <1>10, <2>2 DEF Held, Seen, Owns, AtScan, ReadBefore
  <2>4. QED BY <1>7, <1>10, <2>1, <2>3, WellFormedThen DEF Lcore
<1>14. endings' \in [Slots -> Nat] /\ \A s \in Slots : endings'[s] = endings[s]
  BY <1>1 DEF IInv, Types, SharedTypes
<1>15. /\ at \notin free_slots /\ slot_key[at] = w.of /\ conn_hash[w.of] = at /\ conn_key[at] = w.of
       /\ endings'[at] = 0
  BY <1>2, <1>3, <1>4, <1>5, <1>7, <1>12, <1>14 DEF Entry, Table
<1>16. /\ w.of = c.of /\ w.st # "CLOSED" /\ w.st # "NONE" /\ 0 <= 1 /\ pc'[l] \notin AtWork
       /\ \A m \in Lcores : m # l /\ pc[m] \in AtWork => slot[m] # at
  BY <1>2, <1>3, <1>5, <1>7, <1>10 DEF AtWork, AtOwner
<1>17. seq_delta[at] = w.gen
  BY <1>5, <1>7
<1>18. QED
  BY <1>1, <1>3, <1>4, <1>7, <1>8, <1>10, <1>12, <1>13, <1>14, <1>15, <1>16, <1>17, CtlStep

LEMMA RecordedInv ==
  ASSUME IInv, NEW l \in Lcores, Recorded(l)
  PROVE  IInv'
<1>1. /\ pc[l] = "recorded" /\ pc[l] \in AtWork /\ UNCHANGED <<tableVars, fieldVars>>
      /\ UNCHANGED endings /\ Finish(l)
  BY DEF Recorded, countVars, AtWork, AtOwner
<1>2. /\ slot[l] \in Slots /\ key[l] \in Keys /\ Registers(l) /\ Owns(l) /\ RegisterTypes
      /\ Entry(slot[l]) /\ Table /\ WellFormed(word[l])
      /\ \A m \in Lcores : m # l /\ pc[m] \in AtWork => slot[m] # slot[l]
  BY <1>1, OwnerKnows
<1>3. PICK at \in Slots : at = slot[l]
  BY <1>2
<1>4. PICK c : c = ctl[at]
  OBVIOUS
<1>5. c.st = "BYPASSED" /\ c.busy /\ WellFormed(c) /\ server_isn[at].gen = c.gen
  BY <1>1, <1>2, <1>3, <1>4 DEF Owns, Entry
<1>6. PICK w : w = Word(c.st, c.gen, FALSE, c.fc, c.fs, TRUE, c.hs, c.of)
  OBVIOUS
<1>7. /\ WellFormed(w) /\ w \in Words /\ w.st = "BYPASSED" /\ ~w.busy /\ w.gen = c.gen /\ w.of = c.of
  BY <1>5, <1>6 DEF WellFormed, Word, Words, States, Proxied, ClientFin, ServerFin
<1>8. ctl' = [ctl EXCEPT ![at] = w]
  BY <1>3, <1>4, <1>6 DEF Recorded
<1>9. RegisterTypes' /\ Others(l) /\ Lcore(l)' /\ cand' = cand /\ pc'[l] = "idle"
  BY <1>1, <1>2, Leaves DEF Finish
<1>10. Live(c) /\ Begun(c) /\ Live(w) /\ Begun(w) /\ ~Owned(w) /\ w.st \notin Proxied
  BY <1>5, <1>7 DEF Live, Begun, Owned, Proxied
<1>11. endings' \in [Slots -> Nat] /\ \A s \in Slots : endings'[s] = endings[s]
  BY <1>1 DEF IInv, Types, SharedTypes
<1>12. /\ at \notin free_slots /\ slot_key[at] = w.of /\ conn_hash[w.of] = at /\ conn_key[at] = w.of
       /\ endings'[at] = 0
  BY <1>2, <1>3, <1>4, <1>5, <1>7, <1>10, <1>11 DEF Entry, Table
<1>13. /\ w.st # "CLOSED" /\ w.st # "NONE" /\ 0 <= 1 /\ pc'[l] \notin AtWork
       /\ \A m \in Lcores : m # l /\ pc[m] \in AtWork => slot[m] # at
  BY <1>2, <1>3, <1>7, <1>9 DEF AtWork, AtOwner
<1>14. QED
  BY <1>1, <1>3, <1>4, <1>5, <1>7, <1>8, <1>9, <1>10, <1>11, <1>12, <1>13, CtlStep

\* What a swap of a live entry by an lcore that does not own it has to show.
LEMMA SwapStep ==
  ASSUME IInv, NEW l \in Lcores, NEW at \in Slots, slot[l] = at, pc[l] \notin AtWork, NEW w,
         Live(ctl[at]), ~ctl[at].busy,
         ctl' = [ctl EXCEPT ![at] = w], UNCHANGED <<tableVars, fieldVars>>,
         endings' \in [Slots -> Nat], \A s \in Slots : s # at => endings'[s] = endings[s],
         RegisterTypes', Others(l), Lcore(l)', cand' = cand,
         WellFormed(w), Begun(w), w.gen = ctl[at].gen, w.of = ctl[at].of,
         pc'[l] \in AtWork => slot'[l] = at,
         Owned(w) => slot'[l] = at /\ pc'[l] \in AtOwner,
         w.st \in Proxied \ {"CONNECTING"} /\ ~w.busy => seq_delta[at] = w.gen,
         w.isn => server_isn[at].gen = w.gen,
         endings'[at] <= 1,
         Live(w) => endings'[at] = IF w.st = "CLOSED" THEN 1 ELSE 0
  PROVE  IInv'
<1>1. Entry(at) /\ Table
  BY DEF IInv
<1>2. Begun(ctl[at]) /\ ~Owned(ctl[at]) /\ ctl[at].st # "NONE" /\ w.st # "NONE" /\ w.st # "INIT"
  BY DEF Begun, Live, Owned
<1>3. /\ at \notin free_slots /\ slot_key[at] = w.of /\ conn_hash[w.of] = at /\ conn_key[at] = w.of
  BY <1>1, <1>2 DEF Entry, Table
<1>4. \A m \in Lcores : pc[m] \in AtWork => slot[m] # at
  BY <1>2, Unworked
<1>5. QED BY <1>2, <1>3, <1>4, CtlStep

LEMMA CloseSwapInv ==
  ASSUME IInv, NEW l \in Lcores, CloseSwap(l)
  PROVE  IInv'
<1>1. /\ pc[l] = "close_swap" /\ RegisterTypes /\ pc[l] \notin AtWork /\ Registers(l) /\ Held(l)
      /\ UNCHANGED <<tableVars, fieldVars>> /\ Seen(l) /\ WellFormed(word[l])
  BY DEF CloseSwap, IInv, Lcore, Types, AtWork, AtOwner
<1>2. /\ slot[l] \in Slots /\ key[l] \in Keys /\ seg[l] \in {"fin", "s_fin", "ack", "s_ack"}
      /\ ReadBefore(slot[l], word[l]) /\ (SameEntry(ctl[slot[l]], word[l]) => key[l] = word[l].of)
      /\ word[l].st \in Closable /\ ~word[l].busy
  BY <1>1 DEF Registers, AtUnset, AtScan, Held, AtRead
<1>3. PICK at \in Slots : at = slot[l]
  BY <1>2
<1>4. PICK c : c = word[l]
  OBVIOUS
<1>5. CASE WantClose(l) = c \/ ~SameEntry(ctl[at], c)
  BY <1>1, <1>3, <1>4, <1>5, FinishStep DEF CloseSwap, quiet
<1>6. CASE WantClose(l) # c /\ SameEntry(ctl[at], c) /\ ctl[at] # c
  <2>1. PICK d \in Words : d = ctl[at]
    BY DEF IInv, Types, SharedTypes
  <2>2. /\ word' = [word EXCEPT ![l] = d] /\ Goto(l, "close")
        /\ UNCHANGED <<slot, seen, tries, cand>> /\ UNCHANGED quiet
    BY <1>1, <1>3, <1>4, <1>6, <2>1 DEF CloseSwap, SwapSucceeds, quiet
  <2>3. "close" \in PCs
    BY DEF PCs
  <2>4. /\ RegisterTypes' /\ Others(l) /\ cand' = cand /\ pc'[l] = "close" /\ slot'[l] = at
        /\ word'[l] = d /\ key'[l] = key[l] /\ seg'[l] = seg[l] /\ tries'[l] = tries[l]
    BY <1>1, <1>3, <2>2, <2>3, ReadMoves
  <2>5. Begun(d) /\ d.of = key[l] /\ WellFormed(d) /\ d.gen \in Nat /\ (d.isn => server_isn[at].gen = d.gen)
    BY <1>2, <1>3, <1>4, <1>6, <2>1 DEF ReadBefore, IInv, Entry, WellFormed, Words
  <2>6. Registers(l)'
    BY <1>1, <1>2, <1>3, <2>4 DEF Registers, AtScan, AtUnset, AtCreate, AtBypass, AtSynAck
  <2>7. ReadBefore(at, d)
    BY <2>1, <2>5 DEF ReadBefore
  <2>8. ReadBefore(slot[l], word[l])'
    BY <2>2, <2>4, <2>7 DEF ReadBefore, quiet, fieldVars, Begun, Live, SameEntry
  <2>9. Held(l)' /\ Seen(l)'
    BY <2>4, <2>5, <2>8 DEF Held, Seen, AtScan
  <2>10. WellFormed(word[l])' /\ pc'[l] \notin AtWork
    BY <2>4, <2>5, WellFormedThen DEF AtWork, AtOwner
  <2>11. QED BY <1>1, <2>2, <2>4, <2>6, <2>9, <2>10, QuietStep
<1>7. CASE WantClose(l) # c /\ ctl[at] = c
  <2>1. PICK w : w = WantClose(l)
    OBVIOUS
  <2>2. /\ ctl' = [ctl EXCEPT ![at] = w] /\ Finish(l)
        /\ endings' = [endings EXCEPT ![at] = IF w.st = "CLOSED" THEN endings[at] + 1 ELSE endings[at]]
    BY <1>3, <1>4, <1>7, <2>1 DEF CloseSwap, SwapSucceeds, SameEntry
  <2>3. Entry(at) /\ WellFormed(c)
    BY <1>1, <1>4 DEF IInv
  <2>4. /\ w.st \in {"CLOSED", "CLOSING", "CLIENT_FIN", "SERVER_FIN", "ESTABLISHED"}
        /\ w.gen = c.gen /\ w.of = c.of /\ ~w.busy /\ w.isn = c.isn /\ w.hs = c.hs /\ w \in Words
    BY <1>4, <2>1, <2>3 DEF WantClose, Word, Words, States, Proxied, WellFormed
  <2>5. WellFormed(w)
    <3>1. c.st \in Closable /\ ~c.busy /\ ~c.isn /\ ~c.hs /\ c.of \in Keys
      BY <1>2, <1>4, <2>3 DEF WellFormed, Closable
    <3>2. (c.fc => ClientFin(c)) /\ (c.fs => ServerFin(c))
      BY <2>3, <3>1 DEF WellFormed, Closable
    <3>3. AcksFin(l) => IF FromServer(l) THEN ClientFin(c) ELSE ServerFin(c)
      BY <1>1, <1>4 DEF Seen
    <3>4. /\ w.fc => ClientFin(w) \/ w.st = "CLOSED"
          /\ w.fs => ServerFin(w) \/ w.st = "CLOSED"
          /\ w.st = "CLOSING" => ~w.fc \/ ~w.fs
      BY <1>4, <2>1, <3>2, <3>3 DEF WantClose, Word, ClientFin, ServerFin
    <3>5. QED BY <2>4, <3>1, <3>4 DEF WellFormed
  <2>6. RegisterTypes' /\ Others(l) /\ Lcore(l)' /\ cand' = cand /\ pc'[l] = "idle"
    BY <1>1, <2>2, Leaves DEF Finish
  <2>7. /\ Live(c) /\ Live(w) /\ Begun(w) /\ ~Owned(w) /\ pc'[l] \notin AtWork /\ ~w.isn
        /\ c.st \in Proxied \ {"CONNECTING"} /\ c.st # "CLOSED" /\ ~c.busy
    BY <1>2, <1>4, <2>3, <2>4, <2>6
    DEF Live, Begun, Owned, AtWork, AtOwner, WellFormed, Closable, Proxied
  <2>8. endings[at] = 0 /\ seq_delta[at] = w.gen /\ endings \in [Slots -> Nat]
    BY <1>7, <2>3, <2>4, <2>7 DEF Entry, IInv, Types, SharedTypes
  <2>9. /\ endings' \in [Slots -> Nat] /\ \A s \in Slots : s # at => endings'[s] = endings[s]
        /\ endings'[at] = IF w.st = "CLOSED" THEN 1 ELSE 0
    BY <2>2, <2>8
  <2>10. endings'[at] <= 1
    BY <2>9
  <2>11. QED
    BY <1>1, <1>3, <1>7, <2>2, <2>4, <2>5, <2>6, <2>7, <2>8, <2>9, <2>10, SwapStep
<1>8. QED BY <1>5, <1>6, <1>7 DEF SameEntry

LEMMA BypassAgainInv ==
  ASSUME IInv, NEW l \in Lcores, BypassAgain(l), UNCHANGED quiet,
         pc[l] \in {"bypass_swap", "bypass_retire"}
  PROVE  IInv'
<1>1. /\ RegisterTypes /\ pc[l] \notin AtWork /\ Registers(l) /\ Held(l)
  BY DEF IInv, Lcore, Types, AtWork, AtOwner
<1>2. /\ slot[l] \in Slots /\ key[l] \in Keys /\ seg[l] \in Segments
      /\ ReadBefore(slot[l], word[l]) /\ (SameEntry(ctl[slot[l]], word[l]) => key[l] = word[l].of)
  BY <1>1 DEF Registers, AtUnset, AtScan, Held, AtRead, AtBypass
<1>3. CASE Finish(l)
  BY <1>1, <1>3, FinishStep
<1>4. CASE ~Finish(l)
  <2>1. PICK at \in Slots : at = slot[l]
    BY <1>2
  <2>2. PICK d \in Words : d = ctl[at]
    BY DEF IInv, Types, SharedTypes
  <2>3. /\ word' = [word EXCEPT ![l] = d] /\ Goto(l, "bypass")
        /\ UNCHANGED <<slot, seen, tries, cand>>
        /\ SameEntry(d, word[l]) /\ d.st = "BYPASSED"
    BY <1>4, <2>1, <2>2 DEF BypassAgain
  <2>4. "bypass" \in PCs
    BY DEF PCs
  <2>5. /\ RegisterTypes' /\ Others(l) /\ cand' = cand /\ pc'[l] = "bypass" /\ slot'[l] = at
        /\ word'[l] = d /\ key'[l] = key[l] /\ seg'[l] = seg[l] /\ tries'[l] = tries[l]
    BY <1>1, <2>1, <2>3, <2>4, ReadMoves
  <2>6. Begun(d) /\ d.of = key[l] /\ WellFormed(d) /\ d.gen \in Nat /\ (d.isn => server_isn[at].gen = d.gen)
    BY <1>2, <2>1, <2>2, <2>3 DEF ReadBefore, IInv, Entry, WellFormed, Words
  <2>7. Registers(l)'
    BY <1>1, <1>2, <2>1, <2>5 DEF Registers, AtScan, AtUnset, AtCreate, AtBypass, AtSynAck
  <2>8. ReadBefore(at, d)
    BY <2>2, <2>6 DEF ReadBefore
  <2>9. ReadBefore(slot[l], word[l])'
    BY <2>5, <2>8 DEF ReadBefore, quiet, fieldVars, Begun, Live, SameEntry
  <2>10. Held(l)' /\ Seen(l)'
    BY <2>3, <2>5, <2>6, <2>9 DEF Held, Seen, AtScan
  <2>11. WellFormed(word[l])' /\ pc'[l] \notin AtWork
    BY <2>5, <2>6, WellFormedThen DEF AtWork, AtOwner
  <2>12. QED BY <1>1, <2>5, <2>7, <2>10, <2>11, QuietStep
<1>5. QED BY <1>3, <1>4

LEMMA BypassSwapInv ==
  ASSUME IInv, NEW l \in Lcores, BypassSwap(l)
  PROVE  IInv'
<1>1. /\ pc[l] = "bypass_swap" /\ RegisterTypes /\ pc[l] \notin AtWork /\ Registers(l) /\ Held(l)
      /\ UNCHANGED <<tableVars, fieldVars, endings>> /\ WellFormed(word[l])
  BY DEF BypassSwap, countVars, IInv, Lcore, Types, AtWork, AtOwner
<1>2. /\ slot[l] \in Slots /\ key[l] \in Keys /\ seg[l] \in Segments /\ word[l].st = "BYPASSED"
  BY <1>1 DEF Registers, AtUnset, AtScan, Held, AtBypass
<1>3. PICK at \in Slots : at = slot[l]
  BY <1>2
<1>4. PICK c : c = word[l]
  OBVIOUS
<1>5. CASE WantBypass(l) = c
  BY <1>1, <1>4, <1>5, FinishStep DEF BypassSwap, quiet
<1>6. CASE WantBypass(l) # c /\ ctl[at] # c
  BY <1>1, <1>3, <1>4, <1>6, BypassAgainInv DEF BypassSwap, quiet, SwapSucceeds
<1>7. CASE WantBypass(l) # c /\ ctl[at] = c
  <2>1. PICK w : w = WantBypass(l)
    OBVIOUS
  <2>2. /\ ctl' = [ctl EXCEPT ![at] = w]
        /\ IF RecordsIsn(l) THEN Goto(l, "record") /\ Keep(l) ELSE Finish(l)
    BY <1>3, <1>4, <1>7, <2>1 DEF BypassSwap, SwapSucceeds
  <2>3. Entry(at) /\ WellFormed(c) /\ Table
    BY <1>1, <1>4 DEF IInv
  <2>4. /\ w.st = "BYPASSED" /\ w.gen = c.gen /\ w.of = c.of /\ w.isn = c.isn /\ w \in Words
        /\ w.busy = (c.busy \/ RecordsIsn(l))
    <3>1. RecordsIsn(l) \in BOOLEAN /\ AcksIsn(l) \in BOOLEAN
      BY DEF RecordsIsn, AcksIsn
    <3>2. c \in Words /\ c.st = "BYPASSED"
      BY <1>2, <1>4, <2>3 DEF WellFormed
    <3>3. QED BY <1>4, <2>1, <3>1, <3>2 DEF WantBypass, Word, Words, States, Proxied
  <2>5. WellFormed(w) /\ Live(c) /\ Live(w) /\ Begun(w) /\ w.st \notin Proxied
    BY <1>2, <1>4, <2>3, <2>4 DEF WellFormed, Live, Begun, Proxied
  <2>6. endings' \in [Slots -> Nat] /\ \A s \in Slots : endings'[s] = endings[s]
    BY <1>1 DEF IInv, Types, SharedTypes
  <2>7. /\ endings'[at] <= 1 /\ (Live(w) => endings'[at] = IF w.st = "CLOSED" THEN 1 ELSE 0)
        /\ (w.isn => server_isn[at].gen = w.gen)
    BY <1>2, <1>4, <1>7, <2>3, <2>4, <2>5, <2>6 DEF Entry
  <2>8. ctl'[at] = w /\ \A s \in Slots : s # at => ctl'[s] = ctl[s]
    BY <2>2, <2>4 DEF IInv, Types, SharedTypes
  <2>9. CASE RecordsIsn(l)
    <3>1. ~c.busy /\ w.busy /\ Goto(l, "record") /\ Keep(l) /\ "record" \in PCs /\ seg[l] = "s_synack"
      BY <1>4, <2>2, <2>4, <2>9 DEF RecordsIsn, PCs
    <3>2. /\ RegisterTypes' /\ Others(l) /\ cand' = cand /\ pc'[l] = "record" /\ slot'[l] = at
          /\ word'[l] = c /\ key'[l] = key[l] /\ seg'[l] = seg[l] /\ tries'[l] = tries[l]
      BY <1>1, <1>3, <1>4, <3>1, KeepMoves
    <3>3. Registers(l)'
      BY <1>1, <1>2, <1>3, <3>1, <3>2 DEF Registers, AtScan, AtUnset, AtCreate, AtBypass, AtSynAck
    <3>4. Held(l)' /\ Seen(l)'
      BY <3>2 DEF Held, Seen, AtRead, AtScan
    <3>5. Owns(l)'
      BY <2>4, <2>8, <3>1, <3>2 DEF Owns, SameEntry
    <3>6. Lcore(l)' /\ pc'[l] \in AtOwner
      BY <2>3, <3>2, <3>3, <3>4, <3>5, WellFormedThen DEF Lcore, AtOwner
    <3>7. QED
      BY <1>1, <1>3, <1>7, <2>2, <2>4, <2>5, <2>6, <2>7, <3>1, <3>2, <3>6, SwapStep
  <2>10. CASE ~RecordsIsn(l) /\ ~c.busy
    <3>1. RegisterTypes' /\ Others(l) /\ Lcore(l)' /\ cand' = cand /\ pc'[l] = "idle"
      BY <1>1, <2>2, <2>10, Leaves DEF Finish
    <3>2. ~Owned(w) /\ pc'[l] \notin AtWork
      BY <2>4, <2>10, <3>1 DEF Owned, AtWork, AtOwner
    <3>3. QED
      BY <1>1, <1>3, <1>7, <2>2, <2>4, <2>5, <2>6, <2>7, <2>10, <3>1, <3>2, SwapStep
  <2>11. CASE ~RecordsIsn(l) /\ c.busy
    \* FIN flags change while another lcore records the ISN: it stays the owner.
    <3>1. RegisterTypes' /\ Others(l) /\ Lcore(l)' /\ cand' = cand /\ pc'[l] = "idle"
      BY <1>1, <2>2, <2>11, Leaves DEF Finish
    <3>2. pc'[l] \notin AtWork /\ Owned(c) /\ w.busy
      BY <2>4, <2>11, <3>1 DEF Owned, AtWork, AtOwner
    <3>3. UNCHANGED <<conn_hash, free_slots, slot_key, conn_key, server_isn, client_fin_end,
                      server_fin_end, seq_delta, endings>>
      BY <1>1 DEF tableVars, fieldVars
    <3>4. Types'
      BY <2>2, <2>4, <3>1, <3>3 DEF IInv, Types, SharedTypes
    <3>5. \A s \in Slots : s # at => Untouched(s)
      BY <2>8, <3>3 DEF Untouched
    <3>6. Evolves(at)
      <4>1. c.gen \in Nat
        BY <2>3 DEF WellFormed, Words
      <4>2. QED BY <1>7, <2>4, <2>5, <2>8, <3>3, <4>1 DEF Evolves, SameEntry, Live
    <3>7. Candidates'
      BY <3>1, <3>4, <3>5, <3>6, UntouchedEvolves, CandidatesStay DEF Types
    <3>8. Table'
      <4>1. ctl[at].st # "NONE"
        BY <1>7, <2>5 DEF Live
      <4>2. QED BY <2>3, <2>8, <3>3, <4>1 DEF Table, IInv, Types, SharedTypes
    <3>9. Entry(at)'
      BY <1>7, <2>3, <2>4, <2>5, <2>7, <2>8, <3>3 DEF Entry, WellFormed, ClientFin, ServerFin, Live, Begun
    <3>10. \A m \in Lcores : m # l /\ pc[m] \in AtWork /\ slot[m] = at => Owns(m)'
      <4>1. SUFFICES ASSUME NEW m \in Lcores, m # l, pc[m] \in AtWork, slot[m] = at PROVE Owns(m)'
        OBVIOUS
      <4>2. Owns(m) /\ Same(m)
        BY <3>1, <4>1 DEF IInv, Lcore, Others
      <4>3. pc[m] \in {"record", "recorded"}
        BY <1>2, <1>4, <1>7, <2>11, <4>1, <4>2 DEF Owns, AtWork, AtOwner, InitWord, Word
      <4>4. /\ pc'[m] \in {"record", "recorded"} /\ pc'[m] = pc[m] /\ slot'[m] = at
            /\ word'[m] = word[m] /\ ctl'[at] = w /\ server_isn'[at] = server_isn[at]
        BY <2>8, <3>3, <4>1, <4>2, <4>3 DEF Same
      <4>5. /\ c.gen = word[m].gen
            /\ pc[m] = "recorded" => server_isn[at].gen = c.gen
        BY <1>7, <4>1, <4>2, <4>3 DEF Owns, SameEntry
      <4>6. w.st = "BYPASSED" /\ w.busy /\ w.gen = c.gen
        BY <2>4, <3>2
      <4>7. QED BY <4>4, <4>5, <4>6 DEF Owns, SameEntry
    <3>11. \E m \in Lcores : slot'[m] = at /\ pc'[m] \in AtOwner
      <4>1. PICK m \in Lcores : slot[m] = at /\ pc[m] \in AtOwner
        BY <1>7, <3>2 DEF IInv, HasOwner
      <4>2. m # l
        BY <1>1, <4>1 DEF AtWork
      <4>3. QED BY <3>1, <4>1, <4>2 DEF Others, Same
    <3>12. QED
      BY <1>1, <3>1, <3>2, <3>4, <3>5, <3>6, <3>7, <3>8, <3>9, <3>10, <3>11, Frame
  <2>12. QED BY <2>9, <2>10, <2>11
<1>8. QED BY <1>5, <1>6, <1>7

-----------------------------------------------------------------------------
(* Retiring an entry.                                                        *)

LEMMA RetireStep ==
  ASSUME IInv, NEW l \in Lcores, NEW at \in Slots, at = slot[l], pc[l] \notin AtWork,
         key[l] \in Keys, Live(ctl[at]), ~ctl[at].busy, key[l] = ctl[at].of,
         ctl' = [ctl EXCEPT ![at] = DeadWord(ctl[at])],
         word' = [word EXCEPT ![l] = ctl[at]],
         Goto(l, "dead_delete"), UNCHANGED <<slot, seen, tries, cand>>,
         UNCHANGED <<tableVars, fieldVars, endings>>
  PROVE  IInv'
<1>1. RegisterTypes /\ Registers(l) /\ Entry(at)
  BY DEF IInv, Types, Lcore
<1>2. PICK c \in Words : c = ctl[at]
  BY DEF IInv, Types, SharedTypes
<1>3. PICK w : w = DeadWord(c)
  OBVIOUS
<1>4. /\ WellFormed(w) /\ w \in Words /\ w.st = "DEAD" /\ w.gen = c.gen /\ w.of = c.of /\ ~w.isn
      /\ ~w.busy
  BY <1>1, <1>2, <1>3 DEF Entry, WellFormed, DeadWord, Word, Words, States, ClientFin, ServerFin, Live
<1>5. ctl'[at] = w /\ ctl' = [ctl EXCEPT ![at] = w]
  BY <1>2, <1>3 DEF IInv, Types, SharedTypes
<1>6. "dead_delete" \in PCs
  BY DEF PCs
<1>7. /\ RegisterTypes' /\ Others(l) /\ cand' = cand /\ pc'[l] = "dead_delete" /\ slot'[l] = at
      /\ word'[l] = c /\ key'[l] = key[l] /\ seg'[l] = seg[l] /\ tries'[l] = tries[l]
  BY <1>1, <1>2, <1>6, ReadMoves
<1>8. endings' \in [Slots -> Nat] /\ \A s \in Slots : endings'[s] = endings[s]
  BY DEF IInv, Types, SharedTypes
<1>9. Lcore(l)'
  <2>1. Registers(l)'
    BY <1>1, <1>7 DEF Registers, AtScan, AtUnset, AtCreate, AtBypass, AtSynAck
  <2>2. Held(l)' /\ Seen(l)'
    BY <1>7 DEF Held, Seen, AtRead, AtScan
  <2>3. conn_hash'[key[l]] = at
    BY <1>1 DEF Entry, tableVars
  <2>4. endings'[at] = IF c.st = "CLOSED" THEN 1 ELSE 0
    BY <1>1, <1>2, <1>8 DEF Entry
  <2>5. Owns(l)'
    BY <1>2, <1>4, <1>5, <1>7, <2>3, <2>4 DEF Owns, SameEntry, Live
  <2>6. WellFormed(c)
    BY <1>1, <1>2 DEF Entry
  <2>7. QED BY <1>7, <2>1, <2>2, <2>5, <2>6, WellFormedThen DEF Lcore
<1>10. Begun(w) /\ ~Live(w) /\ w.st \notin Proxied /\ pc'[l] \in AtOwner /\ endings'[at] <= 1
  BY <1>1, <1>4, <1>7, <1>8 DEF Begun, Live, Proxied, AtOwner, Entry
<1>11. QED BY <1>2, <1>4, <1>5, <1>7, <1>8, <1>9, <1>10, SwapStep

LEMMA BypassRetireInv ==
  ASSUME IInv, NEW l \in Lcores, BypassRetire(l)
  PROVE  IInv'
<1>1. /\ pc[l] = "bypass_retire" /\ RegisterTypes /\ pc[l] \notin AtWork /\ Registers(l) /\ Held(l)
      /\ UNCHANGED <<tableVars, fieldVars, endings>>
  BY DEF BypassRetire, countVars, IInv, Lcore, Types, AtWork, AtOwner
<1>2. /\ slot[l] \in Slots /\ key[l] \in Keys /\ word[l].st = "BYPASSED" /\ ~word[l].busy
      /\ (SameEntry(ctl[slot[l]], word[l]) => key[l] = word[l].of)
  BY <1>1 DEF Registers, AtUnset, AtScan, Held, AtRead
<1>3. CASE ctl[slot[l]] # word[l]
  BY <1>1, <1>3, BypassAgainInv DEF BypassRetire, quiet, SwapSucceeds
<1>4. CASE ctl[slot[l]] = word[l]
  <2>1. PICK at \in Slots : at = slot[l]
    BY <1>2
  <2>2. ctl' = [ctl EXCEPT ![at] = DeadWord(ctl[at])] /\ Goto(l, "dead_delete") /\ Keep(l)
    BY <1>4, <2>1 DEF BypassRetire, SwapSucceeds
  <2>3. word' = [word EXCEPT ![l] = ctl[at]]
    BY <1>1, <1>4, <2>1, <2>2 DEF RegisterTypes, Keep
  <2>4. Live(ctl[at]) /\ ~ctl[at].busy /\ key[l] = ctl[at].of
    BY <1>2, <1>4, <2>1 DEF Live, SameEntry
  <2>5. QED BY <1>1, <1>2, <2>1, <2>2, <2>3, <2>4, RetireStep DEF Keep
<1>5. QED BY <1>3, <1>4

LEMMA FreeInv ==
  ASSUME IInv, NEW l \in Lcores, Free(l)
  PROVE  IInv'
<1>1. /\ pc[l] = "free" /\ RegisterTypes /\ pc[l] \notin AtWork /\ Registers(l) /\ Held(l)
      /\ UNCHANGED <<tableVars, fieldVars, endings>>
  BY DEF Free, countVars, IInv, Lcore, Types, AtWork, AtOwner
<1>2. /\ slot[l] \in Slots /\ key[l] \in Keys /\ ReadBefore(slot[l], word[l])
      /\ (SameEntry(ctl[slot[l]], word[l]) => key[l] = word[l].of)
  BY <1>1 DEF Registers, AtUnset, AtScan, Held, AtRead
<1>3. CASE ~(~word[l].busy /\ Retires(l))
  BY <1>1, <1>2, <1>3, AfterwardsStep DEF Free, quiet
<1>4. CASE ~word[l].busy /\ Retires(l)
  <2>1. PICK at \in Slots : at = slot[l]
    BY <1>2
  <2>2. /\ ctl' = [ctl EXCEPT ![at] = DeadWord(ctl[at])] /\ Goto(l, "dead_delete")
        /\ word' = [word EXCEPT ![l] = ctl[at]] /\ UNCHANGED <<slot, seen, tries, cand>>
    BY <1>4, <2>1 DEF Free
  <2>3. Live(ctl[at]) /\ ~ctl[at].busy /\ key[l] = ctl[at].of
    BY <1>2, <1>4, <2>1 DEF Retires, ReadBefore
  <2>4. QED BY <1>1, <1>2, <2>1, <2>2, <2>3, RetireStep
<1>5. QED BY <1>3, <1>4

LEMMA CleanRetireInv ==
  ASSUME IInv, NEW l \in Lcores, CleanRetire(l)
  PROVE  IInv'
<1>1. /\ pc[l] = "clean_retire" /\ RegisterTypes /\ pc[l] \notin AtWork /\ Registers(l) /\ Held(l)
      /\ UNCHANGED <<tableVars, fieldVars, endings>>
  BY DEF CleanRetire, countVars, IInv, Lcore, Types, AtWork, AtOwner
<1>2. /\ slot[l] \in Slots /\ key[l] \in Keys /\ Live(word[l]) /\ ~word[l].busy
      /\ (SameEntry(ctl[slot[l]], word[l]) => key[l] = word[l].of)
  BY <1>1 DEF Registers, AtUnset, AtScan, Held, AtRead
<1>3. CASE ctl[slot[l]] # word[l]
  BY <1>1, <1>2, <1>3, AfterwardsStep DEF CleanRetire, quiet, SwapSucceeds
<1>4. CASE ctl[slot[l]] = word[l]
  <2>1. PICK at \in Slots : at = slot[l]
    BY <1>2
  <2>2. ctl' = [ctl EXCEPT ![at] = DeadWord(ctl[at])] /\ Goto(l, "dead_delete") /\ Keep(l)
    BY <1>4, <2>1 DEF CleanRetire, SwapSucceeds
  <2>3. word' = [word EXCEPT ![l] = ctl[at]]
    BY <1>1, <1>4, <2>1, <2>2 DEF RegisterTypes, Keep
  <2>4. Live(ctl[at]) /\ ~ctl[at].busy /\ key[l] = ctl[at].of
    BY <1>2, <1>4, <2>1 DEF SameEntry
  <2>5. QED BY <1>1, <1>2, <2>1, <2>2, <2>3, <2>4, RetireStep DEF Keep
<1>5. QED BY <1>3, <1>4

LEMMA DeadDeleteInv ==
  ASSUME IInv, NEW l \in Lcores, DeadDelete(l)
  PROVE  IInv'
<1>1. /\ pc[l] = "dead_delete" /\ pc[l] \in AtWork
      /\ UNCHANGED <<free_slots, slot_key, ctl, fieldVars, endings>>
  BY DEF DeadDelete, countVars, AtWork, AtOwner
<1>2. /\ slot[l] \in Slots /\ key[l] \in Keys /\ Registers(l) /\ Owns(l) /\ RegisterTypes
      /\ Entry(slot[l]) /\ Table /\ WellFormed(word[l])
      /\ \A m \in Lcores : m # l /\ pc[m] \in AtWork => slot[m] # slot[l]
  BY <1>1, OwnerKnows
<1>3. PICK at \in Slots : at = slot[l]
  BY <1>2
<1>4. /\ ctl[at].st = "DEAD" /\ ctl[at].of = key[l] /\ SameEntry(ctl[at], word[l]) /\ Live(word[l])
      /\ conn_hash[key[l]] = at /\ endings[at] = IF word[l].st = "CLOSED" THEN 1 ELSE 0
  BY <1>1, <1>2, <1>3 DEF Owns
<1>5. /\ conn_hash' = [conn_hash EXCEPT ![key[l]] = None] /\ Goto(l, "dead_count") /\ Keep(l)
      /\ UNCHANGED <<conn_key, server_isn, client_fin_end, server_fin_end, seq_delta, endings>>
  BY <1>1, <1>3, <1>4 DEF DeadDelete, fieldVars
<1>6. "dead_count" \in PCs
  BY DEF PCs
<1>7. /\ RegisterTypes' /\ Others(l) /\ cand' = cand /\ pc'[l] = "dead_count" /\ slot'[l] = at
      /\ word'[l] = word[l] /\ key'[l] = key[l] /\ seg'[l] = seg[l] /\ tries'[l] = tries[l]
  BY <1>2, <1>3, <1>5, <1>6, KeepMoves
<1>8. Types'
  BY <1>1, <1>2, <1>5, <1>7 DEF IInv, Types, SharedTypes
<1>9. /\ conn_hash'[key[l]] = None /\ \A k \in Keys : k # key[l] => conn_hash'[k] = conn_hash[k]
  BY <1>2, <1>5 DEF IInv, Types, SharedTypes
<1>10. at # None
  BY <1>3, SynProxyAssumption
<1>11. \A k \in Keys : conn_hash'[k] # at
  BY <1>2, <1>4, <1>9, <1>10 DEF Table
<1>12. ASSUME NEW s \in Slots, s # at PROVE Untouched(s)
  <2>1. s # None
    BY SynProxyAssumption
  <2>2. \A k \in Keys : conn_hash[k] = s <=> conn_hash'[k] = s
    BY <1>4, <1>9, <1>12, <2>1
  <2>3. QED BY <1>1, <1>5, <2>2 DEF Untouched
<1>13. Evolves(at)
  <2>1. ctl[at].gen \in Nat
    BY DEF IInv, Types, SharedTypes, Words
  <2>2. QED BY <1>1, <1>4, <1>5, <2>1 DEF Evolves
<1>14. Candidates'
  BY <1>7, <1>8, <1>12, <1>13, UntouchedEvolves, CandidatesStay DEF Types
<1>15. Table'
  BY <1>1, <1>2, <1>9 DEF Table
<1>16. Entry(at)'
  <2>1. Entry(at)
    BY <1>2, <1>3
  <2>2. QED BY <1>1, <1>4, <1>5, <2>1
             DEF Entry, WellFormed, ClientFin, ServerFin, Begun, Live, Proxied
<1>17. Lcore(l)'
  <2>1. Registers(l)'
    BY <1>1, <1>2, <1>3, <1>7 DEF Registers, AtScan, AtUnset, AtCreate, AtBypass, AtSynAck
  <2>2. Held(l)' /\ Seen(l)'
    BY <1>7 DEF Held, Seen, AtRead, AtScan
  <2>3. Owns(l)'
    BY <1>1, <1>4, <1>5, <1>7, <1>11 DEF Owns, SameEntry, Live
  <2>4. QED BY <1>2, <1>7, <2>1, <2>2, <2>3, WellFormedThen DEF Lcore
<1>18. pc'[l] \in AtOwner
  BY <1>7 DEF AtOwner
<1>19. QED
  BY <1>2, <1>3, <1>7, <1>8, <1>12, <1>13, <1>14, <1>15, <1>16, <1>17, <1>18, Frame

LEMMA DeadNoneInv ==
  ASSUME IInv, NEW l \in Lcores, DeadNone(l)
  PROVE  IInv'
<1>1. /\ pc[l] = "dead_none" /\ pc[l] \in AtWork /\ UNCHANGED <<tableVars, fieldVars, endings>>
      /\ Goto(l, "dead_free") /\ Keep(l)
  BY DEF DeadNone, countVars, AtWork, AtOwner
<1>2. /\ slot[l] \in Slots /\ key[l] \in Keys /\ Registers(l) /\ Owns(l) /\ RegisterTypes
      /\ Entry(slot[l]) /\ Table /\ WellFormed(word[l])
      /\ \A m \in Lcores : m # l /\ pc[m] \in AtWork => slot[m] # slot[l]
  BY <1>1, OwnerKnows
<1>3. PICK at \in Slots : at = slot[l]
  BY <1>2
<1>4. /\ ctl[at].st = "DEAD" /\ ctl[at].of = key[l] /\ ctl[at].gen = word[l].gen
      /\ \A k \in Keys : conn_hash[k] # at
  BY <1>1, <1>2, <1>3 DEF Owns, SameEntry
<1>5. PICK g \in Nat : g = ctl[at].gen + 1
  BY DEF IInv, Types, SharedTypes, Words
<1>6. PICK w : w = FreeWord(g) /\ w \in Words /\ WellFormed(w)
  BY <1>5, WordTypes
<1>7. w.st = "NONE" /\ w.gen = g /\ ~w.busy /\ ~w.isn
  BY <1>6 DEF FreeWord, Word
<1>8. ctl' = [ctl EXCEPT ![at] = w]
  BY <1>3, <1>4, <1>5, <1>6 DEF DeadNone, NextGen
<1>9. "dead_free" \in PCs
  BY DEF PCs
<1>10. /\ RegisterTypes' /\ Others(l) /\ cand' = cand /\ pc'[l] = "dead_free" /\ slot'[l] = at
       /\ word'[l] = word[l] /\ key'[l] = key[l] /\ seg'[l] = seg[l] /\ tries'[l] = tries[l]
  BY <1>1, <1>2, <1>3, <1>9, KeepMoves
<1>11. /\ ctl'[at] = w /\ \A s \in Slots : s # at => ctl'[s] = ctl[s]
       /\ UNCHANGED <<conn_hash, free_slots, slot_key, conn_key, server_isn, client_fin_end,
                      server_fin_end, seq_delta, endings>>
       /\ ctl[at].gen \in Nat
  BY <1>1, <1>8 DEF IInv, Types, SharedTypes, tableVars, fieldVars, Words
<1>12. Types'
  BY <1>6, <1>8, <1>10, <1>11 DEF IInv, Types, SharedTypes
<1>13. \A s \in Slots : s # at => Untouched(s)
  BY <1>11 DEF Untouched
<1>14. Evolves(at)
  BY <1>4, <1>5, <1>7, <1>11 DEF Evolves, SameEntry
<1>15. Candidates'
  BY <1>10, <1>12, <1>13, <1>14, UntouchedEvolves, CandidatesStay DEF Types
<1>16. Table' /\ at \notin free_slots
  BY <1>2, <1>4, <1>7, <1>11 DEF Table, IInv, Types, SharedTypes
<1>17. Entry(at)'
  <2>1. Entry(at) /\ ~Live(w) /\ ~Begun(w) /\ w.st \notin Proxied
    BY <1>2, <1>3, <1>7 DEF Live, Begun, Proxied
  <2>2. WellFormed(ctl[at])'
    BY <1>6, <1>11 DEF WellFormed, ClientFin, ServerFin
  <2>3. endings'[at] <= 1
    BY <1>11, <2>1 DEF Entry
  <2>4. w = (ctl[at])'
    BY <1>11
  <2>5. ~Live(ctl[at])' /\ ~Begun(ctl[at])' /\ ctl'[at].st = "NONE" /\ ~ctl'[at].isn
        /\ ctl'[at].st \notin Proxied
    BY <1>7, <2>1, <2>4 DEF Live, Begun
  <2>6. QED BY <2>2, <2>3, <2>5 DEF Entry
<1>18. Lcore(l)'
  <2>1. Registers(l)'
    BY <1>1, <1>2, <1>3, <1>10 DEF Registers, AtScan, AtUnset, AtCreate, AtBypass, AtSynAck
  <2>2. Held(l)' /\ Seen(l)'
    BY <1>10 DEF Held, Seen, AtRead, AtScan
  <2>3. Owns(l)'
    BY <1>4, <1>7, <1>10, <1>11, <1>16 DEF Owns
  <2>4. QED BY <1>2, <1>10, <2>1, <2>2, <2>3, WellFormedThen DEF Lcore
<1>19. ~Owned(ctl'[at])
  BY <1>7, <1>11 DEF Owned
<1>20. QED
  BY <1>2, <1>3, <1>10, <1>12, <1>13, <1>14, <1>15, <1>16, <1>17, <1>18, <1>19, Frame

LEMMA DeadFreeInv ==
  ASSUME IInv, NEW l \in Lcores, DeadFree(l)
  PROVE  IInv'
<1>1. /\ pc[l] = "dead_free" /\ pc[l] \in AtWork
      /\ UNCHANGED <<conn_hash, slot_key, ctl, fieldVars, endings>>
      /\ Goto(l, "dead_unreserve") /\ Keep(l)
  BY DEF DeadFree, countVars, AtWork, AtOwner
<1>2. /\ slot[l] \in Slots /\ key[l] \in Keys /\ Registers(l) /\ Owns(l) /\ RegisterTypes
      /\ Entry(slot[l]) /\ Table /\ WellFormed(word[l])
      /\ \A m \in Lcores : m # l /\ pc[m] \in AtWork => slot[m] # slot[l]
  BY <1>1, OwnerKnows
<1>3. PICK at \in Slots : at = slot[l]
  BY <1>2
<1>4. ctl[at].st = "NONE" /\ \A k \in Keys : conn_hash[k] # at
  BY <1>1, <1>2, <1>3 DEF Owns
<1>5. /\ free_slots' = free_slots \cup {at}
      /\ UNCHANGED <<conn_key, server_isn, client_fin_end, server_fin_end, seq_delta, endings>>
  BY <1>1, <1>3 DEF DeadFree, fieldVars
<1>6. "dead_unreserve" \in PCs
  BY DEF PCs
<1>7. /\ RegisterTypes' /\ Others(l) /\ cand' = cand /\ pc'[l] = "dead_unreserve" /\ slot'[l] = at
      /\ word'[l] = word[l] /\ key'[l] = key[l] /\ seg'[l] = seg[l] /\ tries'[l] = tries[l]
  BY <1>1, <1>2, <1>3, <1>6, KeepMoves
<1>8. Types'
  BY <1>1, <1>5, <1>7 DEF IInv, Types, SharedTypes
<1>9. \A s \in Slots : s # at => Untouched(s)
  BY <1>1, <1>5 DEF Untouched
<1>10. Evolves(at) /\ ctl[at].gen \in Nat
  <2>1. ctl[at].gen \in Nat
    BY DEF IInv, Types, SharedTypes, Words
  <2>2. QED BY <1>1, <1>5, <2>1 DEF Evolves
<1>11. Candidates'
  BY <1>7, <1>8, <1>9, <1>10, UntouchedEvolves, CandidatesStay DEF Types
<1>12. Table'
  BY <1>1, <1>2, <1>4, <1>5 DEF Table
<1>13. Entry(at)'
  <2>1. Entry(at)
    BY <1>2, <1>3
  <2>2. QED BY <1>1, <1>5, <2>1 DEF Entry, WellFormed, ClientFin, ServerFin, Begun, Live
<1>14. Lcore(l)'
  <2>1. Registers(l)'
    BY <1>1, <1>2, <1>3, <1>7 DEF Registers, AtScan, AtUnset, AtCreate, AtBypass, AtSynAck
  <2>2. Held(l)' /\ Seen(l)' /\ Owns(l)'
    BY <1>7 DEF Held, Seen, Owns, AtRead, AtScan
  <2>3. QED BY <1>2, <1>7, <2>1, <2>2, WellFormedThen DEF Lcore
<1>15. ~Owned(ctl'[at]) /\ pc'[l] \notin AtWork
  <2>1. WellFormed(ctl[at])
    BY <1>2, <1>3 DEF Entry
  <2>2. QED BY <1>1, <1>4, <1>7, <2>1 DEF Owned, WellFormed, AtWork, AtOwner
<1>16. QED
  BY <1>2, <1>3, <1>7, <1>8, <1>9, <1>10, <1>11, <1>12, <1>13, <1>14, <1>15, Frame

-----------------------------------------------------------------------------
(* Adding a key.                                                             *)

LEMMA AddInv ==
  ASSUME IInv, NEW l \in Lcores, Add(l)
  PROVE  IInv'
<1>1. /\ pc[l] = "add" /\ RegisterTypes /\ pc[l] \notin AtWork /\ Registers(l) /\ WellFormed(word[l])
      /\ UNCHANGED <<ctl, fieldVars, endings, word, seen, cand>>
      /\ tries' = [tries EXCEPT ![l] = @ + 1]
  BY DEF Add, countVars, IInv, Lcore, Types, AtWork, AtOwner
<1>2. key[l] \in Keys /\ seg[l] \in {"syn", "ack"} /\ tries[l] \in 0..1
  BY <1>1 DEF Registers, AtUnset, AtScan, AtCreate, RegisterTypes
<1>3. tries' \in [Lcores -> 0..2] /\ tries'[l] <= 2 /\ \A m \in Lcores : m # l => tries'[m] = tries[m]
  BY <1>1, <1>2 DEF RegisterTypes
<1>4. PICK to \in {"load", "unreserve"} :
        /\ Goto(l, to)
        /\ \/ /\ conn_hash[key[l]] # None /\ to = "load" /\ UNCHANGED tableVars
              /\ slot' = [slot EXCEPT ![l] = conn_hash[key[l]]]
           \/ /\ conn_hash[key[l]] = None /\ to = "load"
              /\ \E s \in free_slots :
                   /\ conn_hash' = [conn_hash EXCEPT ![key[l]] = s]
                   /\ free_slots' = free_slots \ {s}
                   /\ slot_key' = [slot_key EXCEPT ![s] = key[l]]
                   /\ slot' = [slot EXCEPT ![l] = s]
           \/ to = "unreserve" /\ UNCHANGED <<tableVars, slot>>
  BY DEF Add
<1>5. to \in PCs /\ to \notin AtWork
  BY DEF PCs, AtWork, AtOwner
<1>6. /\ pc'[l] = to /\ key'[l] = key[l] /\ seg'[l] = seg[l] /\ word'[l] = word[l]
  BY <1>1, <1>4, <1>5, GotoMoves
<1>7. ASSUME slot' \in [Lcores -> Slots \cup {None}], \A m \in Lcores : m # l => slot'[m] = slot[m]
      PROVE  RegisterTypes' /\ Others(l)
  <2>1. RegisterTypes'
    BY <1>1, <1>3, <1>4, <1>5, <1>7, GotoMoves DEF RegisterTypes
  <2>2. Others(l)
    BY <1>1, <1>3, <1>4, <1>5, <1>7, GotoMoves DEF Others, Same
  <2>3. QED BY <2>1, <2>2
<1>8. Held(l)' /\ Seen(l)' /\ Owns(l)'
  BY <1>6 DEF Held, Seen, Owns, AtRead, AtScan
<1>9. ASSUME to = "load" => slot'[l] \in Slots PROVE Registers(l)'
  BY <1>1, <1>2, <1>3, <1>4, <1>6, <1>9 DEF Registers, AtScan, AtUnset, AtCreate, AtBypass, AtSynAck
<1>10. WellFormed(word[l])'
  BY <1>1, <1>6, WellFormedThen
<1>11. CASE UNCHANGED tableVars
  <2>1. UNCHANGED quiet
    BY <1>1, <1>11 DEF quiet
  <2>2. slot' \in [Lcores -> Slots \cup {None}] /\ \A m \in Lcores : m # l => slot'[m] = slot[m]
    BY <1>1, <1>2, <1>4, <1>11 DEF RegisterTypes, IInv, Types, SharedTypes, tableVars
  <2>3. to = "load" => slot'[l] \in Slots
    <3>1. SUFFICES ASSUME to = "load" PROVE slot'[l] \in Slots
      OBVIOUS
    <3>2. CASE conn_hash[key[l]] # None /\ slot' = [slot EXCEPT ![l] = conn_hash[key[l]]]
      BY <1>1, <1>2, <3>2 DEF RegisterTypes, IInv, Types, SharedTypes
    <3>3. CASE \E s \in free_slots : free_slots' = free_slots \ {s}
      BY <1>11, <3>3 DEF tableVars
    <3>4. QED BY <1>4, <3>1, <3>2, <3>3
  <2>4. RegisterTypes' /\ Others(l) /\ Registers(l)'
    BY <1>7, <1>9, <2>2, <2>3
  <2>5. cand' = cand
    BY <1>1
  <2>6. QED BY <1>1, <1>5, <1>6, <1>8, <1>10, <2>1, <2>4, <2>5, QuietStep
<1>12. CASE ~UNCHANGED tableVars
  <2>1. /\ conn_hash[key[l]] = None /\ to = "load"
        /\ \E s \in free_slots :
             /\ conn_hash' = [conn_hash EXCEPT ![key[l]] = s]
             /\ free_slots' = free_slots \ {s}
             /\ slot_key' = [slot_key EXCEPT ![s] = key[l]]
             /\ slot' = [slot EXCEPT ![l] = s]
    BY <1>4, <1>12 DEF tableVars
  <2>2. PICK at \in Slots :
             /\ at \in free_slots
             /\ conn_hash' = [conn_hash EXCEPT ![key[l]] = at]
             /\ free_slots' = free_slots \ {at}
             /\ slot_key' = [slot_key EXCEPT ![at] = key[l]]
             /\ slot' = [slot EXCEPT ![l] = at]
    BY <2>1 DEF IInv, Types, SharedTypes
  <2>3. slot' \in [Lcores -> Slots \cup {None}] /\ (\A m \in Lcores : m # l => slot'[m] = slot[m])
        /\ slot'[l] = at
    BY <1>1, <2>2 DEF RegisterTypes
  <2>4. RegisterTypes' /\ Others(l) /\ Lcore(l)'
    BY <1>7, <1>8, <1>9, <1>10, <2>3 DEF Lcore
  <2>5. UNCHANGED <<ctl, conn_key, server_isn, client_fin_end, server_fin_end, seq_delta, endings>>
    BY <1>1 DEF fieldVars
  <2>6. Types'
    BY <1>2, <2>2, <2>4, <2>5 DEF IInv, Types, SharedTypes
  <2>7. /\ conn_hash'[key[l]] = at /\ slot_key'[at] = key[l]
        /\ \A k \in Keys : k # key[l] => conn_hash'[k] = conn_hash[k]
        /\ \A s \in Slots : s # at => slot_key'[s] = slot_key[s]
    BY <1>2, <2>2 DEF IInv, Types, SharedTypes
  <2>8. Table /\ Entry(at) /\ ctl[at].st = "NONE" /\ \A k \in Keys : conn_hash[k] # at
    BY <2>2, SynProxyAssumption DEF IInv, Table
  <2>9. ASSUME NEW s \in Slots, s # at PROVE Untouched(s)
    <3>1. s # None
      BY SynProxyAssumption
    <3>2. \A k \in Keys : conn_hash[k] = s <=> conn_hash'[k] = s
      BY <2>1, <2>7, <2>9, <3>1
    <3>3. QED BY <2>2, <2>5, <2>7, <2>9, <3>2 DEF Untouched
  <2>10. Evolves(at)
    <3>1. ctl[at].gen \in Nat
      BY DEF IInv, Types, SharedTypes, Words
    <3>2. QED BY <1>2, <2>5, <2>7, <2>8, <3>1 DEF Evolves
  <2>11. cand' = cand /\ Candidates'
    BY <1>1, <2>6, <2>9, <2>10, UntouchedEvolves, CandidatesStay DEF Types
  <2>12. Table'
    <3>1. ASSUME NEW k \in Keys, conn_hash'[k] # None
          PROVE  conn_hash'[k] \notin free_slots' /\ slot_key'[conn_hash'[k]] = k
      <4>1. CASE k = key[l]
        BY <2>2, <2>7, <4>1
      <4>2. CASE k # key[l]
        <5>1. conn_hash'[k] = conn_hash[k] /\ conn_hash[k] \in Slots
          BY <2>7, <3>1, <4>2 DEF IInv, Types, SharedTypes
        <5>2. QED BY <2>2, <2>7, <2>8, <3>1, <5>1 DEF Table
      <4>3. QED BY <4>1, <4>2
    <3>2. \A s \in free_slots' : ctl'[s].st = "NONE"
      BY <2>2, <2>5, <2>8 DEF Table
    <3>3. QED BY <3>1, <3>2 DEF Table
  <2>13. Entry(at)'
    BY <2>5, <2>8 DEF Entry, WellFormed, ClientFin, ServerFin, Live, Begun, Proxied
  <2>14. ~Owned(ctl'[at])
    BY <2>5, <2>8 DEF Owned, Entry, WellFormed
  <2>15. \A m \in Lcores : pc[m] \in AtWork => slot[m] # at
    BY <2>2, <2>5, <2>14, Unworked
  <2>16. QED
    BY <1>1, <1>5, <1>6, <2>4, <2>6, <2>9, <2>10, <2>11, <2>12, <2>13, <2>14, <2>15, Frame
<1>13. QED BY <1>11, <1>12

-----------------------------------------------------------------------------
(* The invariant.                                                            *)

LEMMA InitInv == Init => IInv
<1>1. SUFFICES ASSUME Init PROVE IInv
  OBVIOUS
<1>2. FreeWord(0) \in Words /\ WellFormed(FreeWord(0)) /\ NoNumber \in NumberTags
  BY WordTypes
<1>3. SharedTypes /\ RegisterTypes
  BY <1>1, <1>2 DEF Init, SharedTypes, RegisterTypes, PCs
<1>4. ASSUME NEW l \in Lcores PROVE Lcore(l)
  <2>1. pc[l] = "idle" /\ word[l] = FreeWord(0) /\ seen[l] = NoNumber /\ tries[l] = 0
    BY <1>1 DEF Init
  <2>2. Registers(l)
    BY <2>1 DEF Registers, AtScan, AtUnset, AtCreate, AtBypass, AtSynAck
  <2>3. Held(l) /\ Seen(l) /\ Owns(l)
    BY <2>1 DEF Held, Seen, Owns, AtRead, AtScan
  <2>4. QED BY <1>2, <2>1, <2>2, <2>3 DEF Lcore
<1>5. Candidates
  BY <1>1 DEF Init, Candidates
<1>6. ASSUME NEW s \in Slots PROVE Entry(s) /\ ~Owned(ctl[s])
  <2>1. ctl[s] = FreeWord(0) /\ endings[s] = 0
    BY <1>1 DEF Init
  <2>2. WellFormed(ctl[s])
    BY <1>2, <2>1
  <2>3. ctl[s].st = "NONE" /\ ~ctl[s].isn /\ ~ctl[s].busy
    BY <2>1 DEF FreeWord, Word
  <2>4. QED BY <2>1, <2>2, <2>3 DEF Entry, Owned, Live, Begun, Proxied
<1>7. Table
  BY <1>1 DEF Init, Table, FreeWord, Word
<1>8. Exclusive /\ HasOwner
  BY <1>1, <1>6 DEF Init, Exclusive, HasOwner, AtWork, AtOwner
<1>9. QED BY <1>3, <1>4, <1>5, <1>6, <1>7, <1>8 DEF IInv, Types

LEMMA StutterInv == IInv /\ UNCHANGED vars => IInv'
<1>1. SUFFICES ASSUME IInv, UNCHANGED vars PROVE IInv'
  OBVIOUS
<1>2. /\ UNCHANGED <<conn_hash, free_slots, slot_key, ctl, conn_key, server_isn, client_fin_end,
                     server_fin_end, seq_delta, endings>>
      /\ UNCHANGED <<pc, key, seg, num, slot, word, seen, tries, cand>>
  BY <1>1 DEF vars, tableVars, fieldVars, countVars, packetVars
<1>3. Types'
  BY <1>1, <1>2 DEF IInv, Types, SharedTypes, RegisterTypes
<1>4. ASSUME NEW s \in Slots PROVE Untouched(s) /\ Evolves(s) /\ Entry(s)'
  BY <1>1, <1>2, UntouchedEvolves, EntryStays DEF Untouched
<1>5. ASSUME NEW m \in Lcores PROVE Lcore(m)'
  <2>1. Same(m) /\ Registers(m) /\ WellFormed(word[m])
    BY <1>1, <1>2 DEF Same, IInv, Lcore
  <2>2. Held(m)' /\ Seen(m)'
    BY <1>1, <1>3, <1>4, <2>1, HeldStays, SeenStays DEF Types
  <2>3. pc[m] \in AtWork => slot[m] \in Slots
    BY <1>1, OwnerKnows
  <2>4. Owns(m)'
    BY <1>1, <1>4, <2>1, <2>3, OwnsStays
  <2>5. Registers(m)' /\ WellFormed(word[m])'
    BY <2>1 DEF Same, Registers, WellFormed, ClientFin, ServerFin
  <2>6. QED BY <2>2, <2>4, <2>5 DEF Lcore
<1>6. Candidates'
  BY <1>1, <1>2, <1>3, <1>4, CandidatesStay DEF Types
<1>7. Table' /\ Exclusive' /\ HasOwner'
  BY <1>1, <1>2 DEF IInv, Table, Exclusive, HasOwner, Owned
<1>8. QED BY <1>3, <1>4, <1>5, <1>6, <1>7 DEF IInv

LEMMA StepInv ==
  ASSUME IInv, NEW l \in Lcores, Step(l)
  PROVE  IInv'
BY ReadWordInv, DecideInv, ValidateCookieInv, ChallengeInv, HalfBackInv, ReserveInv, AddInv,
   LoadInv, MappedInv, ClaimInv, UnreserveInv, FillInv, PublishInv, ConnectingInv, SynAckInv,
   SynAckHalfInv, SynAckWriteInv, SynAckPublishInv, SynAckReplyInv, StoreFinEndInv, CloseInv,
   CloseSwapInv, BypassInv, BypassSwapInv, RecordInv, RecordedInv, BypassRetireInv, FreeInv,
   DeadDeleteInv, DeadCountInv, DeadNoneInv, DeadFreeInv, DeadUnreserveInv, AdmitIsnInv,
   AdmitAgainInv, AdmittedInv, ScanSkipInv, ScanKeyInv, ScanEndInv, CleanSkipInv,
   CleanRetireInv, CleanEndInv, ScanDueInv, CleanDueInv
DEF Step

LEMMA Inductive == IInv /\ [Next]_vars => IInv'
<1>1. SUFFICES ASSUME IInv, Next PROVE IInv'
  BY StutterInv
<1>2. PICK l \in Lcores :
        \/ Arrive(l) \/ CleanStart(l)
        \/ \E k \in Keys : Scan(l, k)
        \/ Step(l)
  BY <1>1 DEF Next
<1>3. CASE Arrive(l)
  BY <1>1, <1>3, LookupInv DEF Arrive
<1>4. QED BY <1>1, <1>2, <1>3, CleanStartInv, ScanInv, StepInv

\* However the lcores interleave, words, registers, fields and ownership agree in
\* every reachable state: the inductive invariant the other theorems rest on.
THEOREM Invariant == Spec => []IInv
<1>1. Init => IInv
  BY InitInv
<1>2. IInv /\ [Next]_vars => IInv'
  BY Inductive
<1>3. QED BY <1>1, <1>2, PTL DEF Spec

\* What an lcore is the owner of is an entry in use.
LEMMA AnOwner ==
  ASSUME IInv, NEW l \in Lcores, pc[l] \in AtOwner
  PROVE  slot[l] \in Slots /\ Owned(ctl[slot[l]])
<1>1. pc[l] \in AtWork
  BY DEF AtWork
<1>2. Owns(l) /\ slot[l] \in Slots
  BY <1>1, OwnerKnows
<1>3. CASE pc[l] \in {"fill", "publish"}
  BY <1>2, <1>3 DEF Owns, Owned, InitWord, Word
<1>4. CASE pc[l] \notin {"fill", "publish"}
  BY <1>2, <1>4 DEF Owns, Owned, AtOwner
<1>5. QED BY <1>2, <1>3, <1>4

LEMMA OneOwnerHolds == IInv => OneOwner
<1>1. SUFFICES ASSUME IInv, NEW s \in Slots
               PROVE  Cardinality(Owners(s)) = IF Owned(ctl[s]) THEN 1 ELSE 0
  BY DEF OneOwner, Owned
<1>2. CASE Owned(ctl[s])
  <2>1. PICK l \in Lcores : slot[l] = s /\ pc[l] \in AtOwner
    BY <1>1, <1>2 DEF IInv, HasOwner
  <2>2. Owners(s) = {l}
    BY <1>1, <2>1 DEF Owners, IInv, Exclusive, AtWork
  <2>3. QED BY <1>2, <2>2, FS_Singleton
<1>3. CASE ~Owned(ctl[s])
  <2>1. Owners(s) = {}
    BY <1>1, <1>3, AnOwner DEF Owners
  <2>2. QED BY <1>3, <2>1, FS_EmptySet
<1>4. QED BY <1>2, <1>3

LEMMA FoundByKeyHolds == IInv => FoundByKey
<1>1. SUFFICES ASSUME IInv PROVE FoundByKey
  OBVIOUS
<1>2. Table /\ \A s \in Slots : Entry(s)
  BY <1>1 DEF IInv
<1>3. ASSUME NEW s \in Slots, ctl[s].st # "NONE"
      PROVE  \/ conn_hash[ctl[s].of] = s
             \/ (ctl[s].st = "DEAD" /\ \E l \in Owners(s) : pc[l] # "dead_delete")
  <2>1. CASE ctl[s].st # "DEAD"
    BY <1>2, <1>3, <2>1 DEF Entry, Live
  <2>2. CASE ctl[s].st = "DEAD"
    <3>1. PICK l \in Lcores : slot[l] = s /\ pc[l] \in AtOwner
      BY <1>1, <2>2 DEF IInv, HasOwner, Owned
    <3>2. Owns(l)
      BY <1>1 DEF IInv, Lcore
    <3>3. CASE pc[l] = "dead_delete"
      BY <3>1, <3>2, <3>3 DEF Owns
    <3>4. QED BY <2>2, <3>1, <3>3 DEF Owners
  <2>3. QED BY <2>1, <2>2
<1>4. ASSUME NEW s \in Slots
      PROVE  /\ Live(ctl[s]) => conn_key[s] = ctl[s].of
             /\ s \in free_slots => ctl[s].st = "NONE" /\ \A k \in Keys : conn_hash[k] # s
  BY <1>2, SynProxyAssumption DEF Entry, Begun, Table
<1>5. \A k, j \in Keys : conn_hash[k] = conn_hash[j] /\ conn_hash[k] # None => k = j
  BY <1>2 DEF Table
<1>6. ASSUME NEW l \in Lcores, pc[l] = "dead_delete" PROVE conn_hash[key[l]] = slot[l]
  BY <1>1, <1>6 DEF IInv, Lcore, Owns
<1>7. QED BY <1>3, <1>4, <1>5, <1>6 DEF FoundByKey

LEMMA CountedOnceHolds == IInv => CountedOnce
BY DEF IInv, Entry, CountedOnce

LEMMA OwnIsnHolds == IInv => OwnIsn
BY DEF IInv, Lcore, Seen, OwnIsn, AcksIsn, SameEntry

-----------------------------------------------------------------------------
(* What has been recorded of a connection stays.                             *)

Keeps(s) ==
  SameEntry(ctl[s], ctl'[s]) /\ Live(ctl[s]) /\ Live(ctl'[s]) => Facts(ctl[s]) \subseteq Facts(ctl'[s])

\* A step may change one control word.
LEMMA OneWord ==
  ASSUME IInv, NEW at \in Slots, NEW w, ctl' = [ctl EXCEPT ![at] = w],
         Live(ctl[at]) /\ Live(w) => Facts(ctl[at]) \subseteq Facts(w)
  PROVE  \A s \in Slots : Keeps(s)
<1>1. \A s \in Slots : ctl'[s] = IF s = at THEN w ELSE ctl[s]
  BY DEF IInv, Types, SharedTypes
<1>2. QED BY <1>1 DEF Keeps

LEMMA NoWord ==
  ASSUME UNCHANGED ctl PROVE \A s \in Slots : Keeps(s)
BY DEF Keeps

LEMMA ProxiedFacts ==
  ASSUME NEW c, NEW d, c.st \in Proxied, d.st \in Proxied, c.st # "CLOSED",
         \/ d.st = "CLOSED"
         \/ /\ ClientFin(c) => ClientFin(d)
            /\ ServerFin(c) => ServerFin(d)
            /\ (c.fc => d.fc) /\ (c.fs => d.fs)
  PROVE  Facts(c) \subseteq Facts(d)
BY DEF Facts, FactHolds, Proxied

LEMMA BypassedFacts ==
  ASSUME NEW c, NEW d, c.st = "BYPASSED", d.st = "BYPASSED", (c.isn => d.isn), (c.hs => d.hs)
  PROVE  Facts(c) \subseteq Facts(d)
BY DEF Facts, FactHolds

LEMMA ClaimKeeps ==
  ASSUME IInv, NEW l \in Lcores, Claim(l) \/ Publish(l)
  PROVE  \A s \in Slots : Keeps(s)
<1>1. /\ RegisterTypes /\ Registers(l) /\ Held(l) /\ Owns(l)
      /\ slot[l] \in Slots
  BY DEF IInv, Lcore, Types, Registers, AtUnset, Claim, Publish
<1>2. CASE UNCHANGED ctl
  BY <1>2, NoWord
<1>3. CASE ~UNCHANGED ctl
  <2>1. ~Live(ctl[slot[l]])
    BY <1>1, <1>3 DEF Claim, Publish, Held, Owns, Live, InitWord, Word
  <2>2. \E w : ctl' = [ctl EXCEPT ![slot[l]] = w]
    BY <1>3 DEF Claim, Publish
  <2>3. QED BY <1>1, <2>1, <2>2, OneWord
<1>4. QED BY <1>2, <1>3

LEMMA SynAckKeeps ==
  ASSUME IInv, NEW l \in Lcores, SynAck(l) \/ SynAckPublish(l)
  PROVE  \A s \in Slots : Keeps(s)
<1>1. /\ RegisterTypes /\ Registers(l) /\ Held(l) /\ Owns(l) /\ WellFormed(word[l])
      /\ slot[l] \in Slots
  BY DEF IInv, Lcore, Types, Registers, AtUnset, SynAck, SynAckPublish
<1>2. CASE UNCHANGED ctl
  BY <1>2, NoWord
<1>3. CASE ~UNCHANGED ctl
  <2>1. PICK c : c = word[l]
    OBVIOUS
  <2>2. ctl[slot[l]] = c /\ c.st \in {"CONNECTING", "ESTABLISHED"} /\ (c.st = "CONNECTING" => ~c.fc /\ ~c.fs)
    BY <1>1, <1>3, <2>1 DEF SynAck, SynAckPublish, Held, Owns, WellFormed, ClientFin, ServerFin
  <2>3. PICK b : ctl' = [ctl EXCEPT ![slot[l]] =
                          Word("ESTABLISHED", c.gen, b, c.fc, c.fs, c.isn, c.hs, c.of)]
    BY <1>3, <2>1 DEF SynAck, SynAckPublish
  <2>4. PICK w : w = Word("ESTABLISHED", c.gen, b, c.fc, c.fs, c.isn, c.hs, c.of)
    OBVIOUS
  <2>5. w.st = "ESTABLISHED" /\ w.fc = c.fc /\ w.fs = c.fs
    BY <2>4 DEF Word
  <2>6. Facts(c) \subseteq Facts(w)
    BY <2>2, <2>5, ProxiedFacts DEF Proxied, ClientFin, ServerFin
  <2>7. QED BY <1>1, <2>2, <2>3, <2>4, <2>6, OneWord
<1>4. QED BY <1>2, <1>3

LEMMA CloseSwapKeeps ==
  ASSUME IInv, NEW l \in Lcores, CloseSwap(l)
  PROVE  \A s \in Slots : Keeps(s)
<1>1. /\ RegisterTypes /\ Registers(l) /\ Held(l) /\ slot[l] \in Slots
  BY DEF IInv, Lcore, Types, Registers, AtUnset, CloseSwap
<1>2. CASE UNCHANGED ctl
  BY <1>2, NoWord
<1>3. CASE ~UNCHANGED ctl
  <2>1. PICK c : c = word[l]
    OBVIOUS
  <2>2. PICK w : w = WantClose(l)
    OBVIOUS
  <2>3. ctl[slot[l]] = c /\ c.st \in Closable /\ ctl' = [ctl EXCEPT ![slot[l]] = w]
    BY <1>1, <1>3, <2>1, <2>2 DEF CloseSwap, SwapSucceeds, Held
  <2>4. /\ w.st \in {"CLOSED", "CLOSING", "CLIENT_FIN", "SERVER_FIN", "ESTABLISHED"}
        /\ (c.fc => w.fc) /\ (c.fs => w.fs)
        /\ w.st # "CLOSED" => (ClientFin(c) => ClientFin(w)) /\ (ServerFin(c) => ServerFin(w))
    BY <2>1, <2>2 DEF WantClose, Word, ClientFin, ServerFin
  <2>5. Facts(c) \subseteq Facts(w)
    BY <2>3, <2>4, ProxiedFacts DEF Proxied, Closable
  <2>6. QED BY <1>1, <2>3, <2>5, OneWord
<1>4. QED BY <1>2, <1>3

LEMMA BypassKeeps ==
  ASSUME IInv, NEW l \in Lcores, BypassSwap(l) \/ Recorded(l)
  PROVE  \A s \in Slots : Keeps(s)
<1>1. /\ RegisterTypes /\ Registers(l) /\ Held(l) /\ Owns(l) /\ slot[l] \in Slots
  BY DEF IInv, Lcore, Types, Registers, AtUnset, BypassSwap, Recorded
<1>2. CASE UNCHANGED ctl
  BY <1>2, NoWord
<1>3. CASE ~UNCHANGED ctl
  <2>1. PICK c : c = ctl[slot[l]]
    OBVIOUS
  <2>2. PICK w : w = IF pc[l] = "recorded"
                     THEN Word(c.st, c.gen, FALSE, c.fc, c.fs, TRUE, c.hs, c.of)
                     ELSE WantBypass(l)
    OBVIOUS
  <2>3. ctl' = [ctl EXCEPT ![slot[l]] = w] /\ c.st = "BYPASSED"
        /\ (pc[l] # "recorded" => c = word[l])
    BY <1>1, <1>3, <2>1, <2>2 DEF BypassSwap, Recorded, SwapSucceeds, Held, Owns
  <2>4. w.st = "BYPASSED" /\ (c.isn => w.isn) /\ (c.hs => w.hs)
    <3>1. CASE pc[l] = "recorded"
      BY <2>2, <2>3, <3>1 DEF Word
    <3>2. CASE pc[l] # "recorded"
      <4>1. w = WantBypass(l) /\ c = word[l]
        BY <2>2, <2>3, <3>2
      <4>2. w.st = word[l].st /\ w.isn = word[l].isn /\ w.hs = (word[l].hs \/ AcksIsn(l))
        BY <4>1 DEF WantBypass, Word
      <4>3. QED BY <2>3, <4>1, <4>2
    <3>3. QED BY <3>1, <3>2
  <2>5. QED BY <1>1, <2>1, <2>3, <2>4, BypassedFacts, OneWord
<1>4. QED BY <1>2, <1>3

LEMMA RetireKeeps ==
  ASSUME IInv, NEW l \in Lcores, BypassRetire(l) \/ Free(l) \/ CleanRetire(l) \/ DeadNone(l)
  PROVE  \A s \in Slots : Keeps(s)
<1>1. Registers(l) /\ slot[l] \in Slots
  BY DEF IInv, Lcore, Registers, AtUnset, BypassRetire, Free, CleanRetire, DeadNone
<1>2. CASE UNCHANGED ctl
  BY <1>2, NoWord
<1>3. CASE ~UNCHANGED ctl
  <2>1. PICK w : ctl' = [ctl EXCEPT ![slot[l]] = w] /\ w.st \in {"DEAD", "NONE"}
    <3>1. \E c : ctl' = [ctl EXCEPT ![slot[l]] = DeadWord(c)] \/ ctl' = [ctl EXCEPT ![slot[l]] = FreeWord(c)]
      BY <1>3 DEF BypassRetire, Free, CleanRetire, DeadNone
    <3>2. \A c : DeadWord(c).st = "DEAD" /\ FreeWord(c).st = "NONE"
      BY DEF DeadWord, FreeWord, Word
    <3>3. QED BY <3>1, <3>2
  <2>2. ~Live(w)
    BY <2>1 DEF Live
  <2>3. QED BY <1>1, <2>1, <2>2, OneWord
<1>4. QED BY <1>2, <1>3

\* The other steps change no control word.
QuietSteps(l) ==
  \/ ReadWord(l) \/ Decide(l) \/ ValidateCookie(l) \/ Challenge(l) \/ HalfBack(l)
  \/ Reserve(l) \/ Add(l) \/ Load(l) \/ Mapped(l) \/ Unreserve(l) \/ Fill(l) \/ Connecting(l)
  \/ SynAckHalf(l) \/ SynAckWrite(l) \/ SynAckReply(l)
  \/ StoreFinEnd(l) \/ Close(l) \/ Bypass(l) \/ Record(l)
  \/ DeadDelete(l) \/ DeadCount(l) \/ DeadFree(l) \/ DeadUnreserve(l)
  \/ AdmitIsn(l) \/ AdmitAgain(l) \/ Admitted(l)
  \/ ScanSkip(l) \/ ScanKey(l) \/ ScanEnd(l) \/ CleanSkip(l) \/ CleanEnd(l)
  \/ (\E s \in Slots : ScanDue(l, s) \/ CleanDue(l, s))
  \/ Arrive(l) \/ CleanStart(l) \/ (\E k \in Keys : Scan(l, k))

LEMMA QuietKeeps ==
  ASSUME NEW l \in Lcores, QuietSteps(l)
  PROVE  UNCHANGED ctl
<1>1. CASE \/ ReadWord(l) \/ Decide(l) \/ ValidateCookie(l) \/ Challenge(l) \/ HalfBack(l)
           \/ Reserve(l) \/ Add(l) \/ Load(l) \/ Mapped(l) \/ Unreserve(l) \/ Fill(l) \/ Connecting(l)
  BY <1>1 DEF ReadWord, Decide, ValidateCookie, Challenge, HalfBack, Reserve, Add, Load, Mapped,
              Unreserve, Fill, Connecting
<1>2. CASE \/ SynAckHalf(l) \/ SynAckWrite(l) \/ SynAckReply(l)
           \/ StoreFinEnd(l) \/ Close(l) \/ Bypass(l) \/ Record(l)
           \/ DeadDelete(l) \/ DeadCount(l) \/ DeadFree(l) \/ DeadUnreserve(l)
  BY <1>2 DEF SynAckHalf, SynAckWrite, SynAckReply, StoreFinEnd, Close, Bypass, Record,
              DeadDelete, DeadCount, DeadFree, DeadUnreserve
<1>3. CASE \/ AdmitIsn(l) \/ AdmitAgain(l) \/ Admitted(l)
           \/ ScanSkip(l) \/ ScanKey(l) \/ ScanEnd(l) \/ CleanSkip(l) \/ CleanEnd(l)
           \/ (\E s \in Slots : ScanDue(l, s) \/ CleanDue(l, s))
           \/ Arrive(l) \/ CleanStart(l) \/ (\E k \in Keys : Scan(l, k))
  BY <1>3 DEF AdmitIsn, AdmitAgain, Admitted, ScanSkip, ScanKey, ScanEnd, CleanSkip, CleanEnd,
              ScanDue, CleanDue, Arrive, Lookup, CleanStart, Scan
<1>4. QED BY <1>1, <1>2, <1>3 DEF QuietSteps

LEMMA StepKinds ==
  ASSUME Next
  PROVE  \E l \in Lcores :
           \/ QuietSteps(l) \/ Claim(l) \/ Publish(l) \/ SynAck(l) \/ SynAckPublish(l) \/ CloseSwap(l)
           \/ BypassSwap(l) \/ Recorded(l) \/ BypassRetire(l) \/ Free(l) \/ CleanRetire(l) \/ DeadNone(l)
BY DEF Next, Step, QuietSteps

LEMMA FactsKeptStep ==
  ASSUME IInv, [Next]_vars
  PROVE  \A s \in Slots : Keeps(s)
<1>1. CASE UNCHANGED vars
  BY <1>1, NoWord DEF vars
<1>2. CASE Next
  BY <1>2, StepKinds, ClaimKeeps, SynAckKeeps, CloseSwapKeeps, BypassKeeps, RetireKeeps,
     QuietKeeps, NoWord
<1>3. QED BY <1>1, <1>2

-----------------------------------------------------------------------------
(* The theorems.                                                             *)

\* However lcores interleave, an entry that is being filled in, retired or
\* written has exactly one owner, any other none.
THEOREM OwnersAreOne == Spec => []OneOwner
<1>1. IInv => OneOwner
  BY OneOwnerHolds
<1>2. QED BY <1>1, Invariant, PTL

\* Every connection is found by its 4-tuple until the lcore that retires it has
\* deleted its key, no two 4-tuples share an entry, and the key an lcore
\* deletes is still the one of its entry.
THEOREM EntriesAreFound == Spec => []FoundByKey
<1>1. IInv => FoundByKey
  BY FoundByKeyHolds
<1>2. QED BY <1>1, Invariant, PTL

\* The end of a connection is counted at most once, and only once it is over.
THEOREM EndsCountOnce == Spec => []CountedOnce
<1>1. IInv => CountedOnce
  BY CountedOnceHolds
<1>2. QED BY <1>1, Invariant, PTL

\* An admission and an acknowledged handshake rest on the ISN that the
\* segment's own connection recorded, whoever has the slot meanwhile.
THEOREM IsnIsOwn == Spec => []OwnIsn
<1>1. IInv => OwnIsn
  BY OwnIsnHolds
<1>2. QED BY <1>1, Invariant, PTL

\* FINs, their acknowledgements, the ISN and the handshake one lcore recorded
\* are not undone by another.
THEOREM FactsStay == Spec => FactsKept
<1>1. IInv /\ [Next]_vars => \A s \in Slots : SameEntry(ctl[s], ctl'[s]) /\ Live(ctl[s]) /\ Live(ctl'[s])
                               => Facts(ctl[s]) \subseteq Facts(ctl'[s])
  BY FactsKeptStep DEF Keeps
<1>2. QED BY <1>1, Invariant, PTL DEF Spec, FactsKept
=============================================================================
