------------------------------ MODULE SynProxy ------------------------------
(***************************************************************************)
(* The connection table of the IPv4 SYN proxy (layer1/tables/syn_proxy.c):  *)
(* lcores look entries up, create, change and retire them without a lock,   *)
(* by compare-and-swap on the control word of each entry, while the cleanup *)
(* runs on one of them.                                                     *)
(*                                                                          *)
(* A step is one access to shared state: a hash operation, a load, a store  *)
(* or a swap.  A loop that repeats a swap until it succeeds, and decides    *)
(* only from the word it swaps, is one step; a loop that reads other fields *)
(* before the swap is not.  Memory is sequentially consistent.              *)
(*                                                                          *)
(* Abstracted: sequence numbers to what the code compares them for (the     *)
(* server's ISN, the end of a FIN, whether an RST is exact), time (an entry *)
(* is due for the cleanup or not), whether a SYN is challenged and a cookie *)
(* valid, and the packets themselves.  Numbers of two connections that      *)
(* followed each other on a slot differ where FINs are concerned.           *)
(***************************************************************************)
EXTENDS Integers, FiniteSets

CONSTANTS
  Keys,             \* 4-tuples
  Slots,            \* positions of the connection pool
  Lcores,           \* packet lcores
  Maint,            \* the lcore that runs the cleanup between two packets
  SourceOf,         \* the client address of each key
  ISNs,             \* sequence numbers servers answer with
  FinEnd,           \* the sequence number after the FIN of the other side
  MaxConnections,   \* g_config.max_connections
  MaxHalfOpen,      \* MAX_HALF_OPEN_PER_IP
  CleanupBatch,     \* CLEANUP_BATCH_SIZE
  Work,             \* what arrives in this instance: segments, "cleanup"
  MaxGen,           \* bound: no segment that may create an entry arrives once
                    \* a slot has been used this often
  None

ASSUME SynProxyAssumption ==
  /\ IsFiniteSet(Slots) /\ IsFiniteSet(Lcores)
  /\ None \notin Keys \cup Slots \cup ISNs \cup {FinEnd}
  /\ \A k \in Keys : SourceOf[k] # None
  /\ MaxConnections \in Nat /\ CleanupBatch \in Nat /\ MaxGen \in Nat
  /\ MaxHalfOpen \in Nat \ {0}

VARIABLES
  conn_hash,          \* g_conn_hash: key -> slot, or None
  free_slots,         \* positions the hash may hand out
  slot_key,           \* the key stored at each position of the hash
  ctl,                \* control word of each entry
  conn_key,           \* 4-tuple field of each entry
  server_isn,         \* [gen, n]: a number, and the generation that stored it
  client_fin_end,     \* client_next_seq: the end of the client's FIN, likewise
  server_fin_end,     \* server_next_seq
  seq_delta,          \* generation the deltas belong to, or None
  entries_used,       \* g_entries_used
  connections_active, \* g_stats.connections_active
  half_open,          \* the half-open word these sources share: [ip, n]
  endings,            \* how often the present entry of a slot was counted
  pc,                 \* where each lcore is
  key, seg, num,      \* the segment it processes, the number it carries
  slot, word,         \* the entry it looked up and the control word it read
  seen,               \* the number it read after the word
  tries,              \* adds made by alloc_connection_with_hash
  cand                \* candidates of the cleanup's batch

tableVars == <<conn_hash, free_slots, slot_key>>
fieldVars == <<conn_key, server_isn, client_fin_end, server_fin_end, seq_delta>>
countVars == <<entries_used, connections_active, half_open, endings>>
packetVars == <<key, seg, num>>
vars == <<tableVars, ctl, fieldVars, countVars, pc, packetVars, slot, word, seen,
          tries, cand>>

Inbound  == {"syn", "ack", "fin", "rst"}
Outbound == {"s_synack", "s_ack", "s_fin", "s_rst"}
Segments == Inbound \cup Outbound \cup {"admit"}   \* admit: Stage 8b asks

Proxied == {"CONNECTING", "ESTABLISHED", "CLIENT_FIN", "SERVER_FIN", "CLOSING", "CLOSED"}
Closable == {"ESTABLISHED", "CLIENT_FIN", "SERVER_FIN", "CLOSING"}
States  == Proxied \cup {"NONE", "INIT", "DEAD", "BYPASSED"}

\* A control word.  fc and fs are CTL_F_FIN_CLIENT and CTL_F_FIN_SERVER: of a
\* bypassed entry, that side sent FIN; of a proxied one, the other side has
\* acknowledged that side's FIN.  of is no part of the word: the connection a
\* generation of the slot stands for.
Word(st, gen, busy, fc, fs, isn, hs, of) ==
  [st |-> st, gen |-> gen, busy |-> busy, fc |-> fc, fs |-> fs, isn |-> isn,
   hs |-> hs, of |-> of]

Words == [st : States, gen : Nat, busy : BOOLEAN, fc : BOOLEAN, fs : BOOLEAN,
          isn : BOOLEAN, hs : BOOLEAN, of : Keys \cup {None}]

FreeWord(gen) == Word("NONE", gen, FALSE, FALSE, FALSE, FALSE, FALSE, None)
InitWord(gen, k) == Word("INIT", gen, FALSE, FALSE, FALSE, FALSE, FALSE, k)
DeadWord(c) == Word("DEAD", c.gen, FALSE, FALSE, FALSE, FALSE, FALSE, c.of)
Published(c, st) == Word(st, c.gen, FALSE, FALSE, FALSE, FALSE, FALSE, c.of)

Live(c) == c.st \notin {"NONE", "INIT", "DEAD"}
SameEntryAny(c, d) == TRUE
SameEntry(c, d) == c.gen = d.gen

NoNumber == [gen |-> 0, n |-> None]
Number(l, n) == [gen |-> word[l].gen, n |-> n]   \* a number l stores

PCs == {"idle", "word", "decide", "challenge", "half_open", "reserve", "add", "load",
        "mapped", "claim", "fill", "publish", "connecting", "unreserve", "half_back",
        "bypass", "bypass_swap", "bypass_retire", "record", "recorded",
        "synack", "synack_half", "synack_write", "synack_publish", "synack_reply",
        "fin", "close", "close_swap", "free", "admit_isn", "admit_again", "admitted",
        "dead_delete", "dead_count", "dead_none", "dead_free", "dead_unreserve",
        "scan", "scan_word", "scan_key", "clean", "clean_retire"}

Init ==
  /\ conn_hash = [k \in Keys |-> None]
  /\ free_slots = Slots
  /\ slot_key = [s \in Slots |-> None]
  /\ ctl = [s \in Slots |-> FreeWord(0)]
  /\ conn_key = [s \in Slots |-> None]
  /\ server_isn = [s \in Slots |-> NoNumber]
  /\ client_fin_end = [s \in Slots |-> NoNumber]
  /\ server_fin_end = [s \in Slots |-> NoNumber]
  /\ seq_delta = [s \in Slots |-> None]
  /\ entries_used = 0 /\ connections_active = 0
  /\ half_open = [ip |-> None, n |-> 0]
  /\ endings = [s \in Slots |-> 0]
  /\ pc = [l \in Lcores |-> "idle"]
  /\ key = [l \in Lcores |-> None]
  /\ seg = [l \in Lcores |-> None]
  /\ num = [l \in Lcores |-> None]
  /\ slot = [l \in Lcores |-> None]
  /\ word = [l \in Lcores |-> FreeWord(0)]
  /\ seen = [l \in Lcores |-> NoNumber]
  /\ tries = [l \in Lcores |-> 0]
  /\ cand = {}

\* Go on at a place; at "idle" the packet is done and its locals are dropped.
Goto(l, to) ==
  /\ pc' = [pc EXCEPT ![l] = to]
  /\ IF to = "idle"
     THEN /\ key' = [key EXCEPT ![l] = None]
          /\ seg' = [seg EXCEPT ![l] = None]
          /\ num' = [num EXCEPT ![l] = None]
     ELSE UNCHANGED packetVars

Keep(l) == UNCHANGED <<slot, word, seen, tries, cand>>

Drop(l) ==  \* the locals of an entry the lcore no longer works on
  /\ slot' = [slot EXCEPT ![l] = None]
  /\ word' = [word EXCEPT ![l] = FreeWord(0)]
  /\ seen' = [seen EXCEPT ![l] = NoNumber]
  /\ tries' = [tries EXCEPT ![l] = 0]
  /\ UNCHANGED cand

\* The packet is done, without or after a change of shared state.
Finish(l) == Goto(l, "idle") /\ Drop(l)

-----------------------------------------------------------------------------
(* Finding the entry of a segment.                                           *)

Numbers(sg) ==
  IF sg \in {"ack", "fin"} THEN ISNs \cup {FinEnd, None}
  ELSE IF sg \in {"s_ack", "s_fin"} THEN {FinEnd, None}
  ELSE IF sg \in {"s_synack", "admit"} THEN ISNs ELSE {None}

\* Without an entry: a SYN may open a bypassed connection, an ACK (with a
\* valid cookie) a proxied one; anything else passes by.
Absent(sg, to) ==
  to = IF sg = "syn" THEN "challenge" ELSE IF sg = "ack" THEN "half_open" ELSE "idle"

\* A segment arrives and its 4-tuple is looked up in the hash.
Lookup(l, k, sg, n) ==
  /\ pc[l] = "idle"
  /\ sg \in Work \cap Segments /\ n \in Numbers(sg)
  /\ sg \in {"syn", "ack"} => \A s \in Slots : ctl[s].gen < MaxGen
  /\ \E to \in PCs :
       /\ IF conn_hash[k] = None THEN Absent(sg, to) ELSE to = "word"
       /\ IF to = "idle" THEN UNCHANGED <<pc, packetVars, slot>>
          ELSE /\ pc' = [pc EXCEPT ![l] = to]
               /\ key' = [key EXCEPT ![l] = k]
               /\ seg' = [seg EXCEPT ![l] = sg]
               /\ num' = [num EXCEPT ![l] = n]
               /\ slot' = [slot EXCEPT ![l] = conn_hash[k]]
  /\ UNCHANGED <<tableVars, ctl, fieldVars, countVars, word, seen, tries, cand>>

ReadWord(l) ==
  /\ pc[l] = "word"
  /\ IF Live(ctl[slot[l]])
     THEN /\ Goto(l, "decide")
          /\ word' = [word EXCEPT ![l] = ctl[slot[l]]]
          /\ UNCHANGED <<slot, seen, tries, cand>>
     ELSE /\ \E to \in PCs : Absent(seg[l], to) /\ Goto(l, to)
          /\ Drop(l)
  /\ UNCHANGED <<tableVars, ctl, fieldVars, countVars>>

\* What a segment does to the entry it found, decided from the word.  An
\* ESTABLISHED entry that is BUSY is handled as CONNECTING.  Whether an RST is
\* exact depends on its number: only an exact one ends the entry.
Waiting(c) == c.st = "CONNECTING" \/ (c.st = "ESTABLISHED" /\ c.busy)

RouteAdmit(c, to) ==
  \/ (c.st # "BYPASSED" \/ c.hs) /\ to = "admitted"
  \/ c.st = "BYPASSED" /\ ~c.hs /\ c.isn /\ ~c.busy /\ to = "admit_isn"
  \/ c.st = "BYPASSED" /\ ~c.hs /\ (~c.isn \/ c.busy) /\ to = "idle"

RouteProxied(c, sg, to) ==
  \/ sg = "syn" /\ c.st = "CLOSED" /\ to = "free"
  \/ sg = "syn" /\ c.st # "CLOSED" /\ to = "idle"
  \/ sg \in {"ack", "s_ack"} /\ c.st = "ESTABLISHED" /\ to = "idle"
  \/ sg \in {"ack", "s_ack"} /\ c.st # "ESTABLISHED" /\ to = "close"
  \/ sg \in {"fin", "s_fin"} /\ to = "fin"
  \/ sg = "s_synack" /\ to = "idle"

Route(c, sg, to) ==
  \/ sg \in {"rst", "s_rst"} /\ to \in {"free", "idle"}
  \/ sg = "admit" /\ RouteAdmit(c, to)
  \/ /\ sg \notin {"rst", "s_rst", "admit"}
     /\ \/ c.st = "BYPASSED" /\ to = "bypass"
        \/ Waiting(c) /\ to = IF sg = "s_synack" /\ c.st = "CONNECTING" THEN "synack" ELSE "idle"
        \/ c.st # "BYPASSED" /\ ~Waiting(c) /\ RouteProxied(c, sg, to)

\* The 4-tuple of the entry is read after its word.
KeyUnchecked(l) == TRUE
KeyMatches(l) == conn_key[slot[l]] = key[l]

Decide(l) ==
  /\ pc[l] = "decide"
  /\ \E to \in PCs :
       /\ IF KeyMatches(l) THEN Route(word[l], seg[l], to) ELSE Absent(seg[l], to)
       /\ Goto(l, to)
       /\ IF KeyMatches(l) /\ to # "idle" THEN Keep(l) ELSE Drop(l)
  /\ UNCHANGED <<tableVars, ctl, fieldVars, countVars>>

-----------------------------------------------------------------------------
(* Half-open counts: one word, swapped until it succeeds.                    *)

HalfOpenTaken(ip) ==
  IF half_open.n = 0 THEN [ip |-> ip, n |-> 1]
  ELSE IF half_open.ip = ip THEN [ip |-> ip, n |-> half_open.n + 1]
  ELSE half_open

HalfOpenReleased(ip) ==
  IF half_open.ip # ip \/ half_open.n = 0 THEN half_open
  ELSE IF half_open.n = 1 THEN [ip |-> None, n |-> 0]
  ELSE [ip |-> ip, n |-> half_open.n - 1]

HalfOpenFull(ip) == half_open.ip = ip /\ half_open.n >= MaxHalfOpen

\* An ACK without an entry: an invalid cookie passes by, a valid one takes a
\* half-open place of its source, unless the source holds too many.
ValidateCookie(l) ==
  /\ pc[l] = "half_open"
  /\ \/ Finish(l) /\ UNCHANGED half_open
     \/ /\ ~HalfOpenFull(SourceOf[key[l]])
        /\ half_open' = HalfOpenTaken(SourceOf[key[l]])
        /\ Goto(l, "reserve") /\ Keep(l)
  /\ UNCHANGED <<tableVars, ctl, fieldVars, entries_used, connections_active, endings>>

\* A SYN without an entry: challenged, which keeps no state, or bypassed.
Challenge(l) ==
  /\ pc[l] = "challenge"
  /\ \/ Finish(l)
     \/ Goto(l, "reserve") /\ Keep(l)
  /\ UNCHANGED <<tableVars, ctl, fieldVars, countVars>>

HalfBack(l) ==
  /\ pc[l] = "half_back"
  /\ half_open' = HalfOpenReleased(SourceOf[key[l]])
  /\ Finish(l)
  /\ UNCHANGED <<tableVars, ctl, fieldVars, entries_used, connections_active, endings>>

-----------------------------------------------------------------------------
(* alloc_connection_with_hash                                                *)

AllocFailsUncounted(l) == Finish(l)
AllocFails(l) == Goto(l, IF seg[l] = "ack" THEN "half_back" ELSE "idle") /\ Drop(l)

HasRoomOneMore(used) == used <= MaxConnections
HasRoom(used) == used < MaxConnections

Reserve(l) ==
  /\ pc[l] = "reserve"
  /\ IF HasRoom(entries_used)
     THEN entries_used' = entries_used + 1 /\ Goto(l, "add") /\ Keep(l)
     ELSE UNCHANGED entries_used /\ AllocFails(l)
  /\ UNCHANGED <<tableVars, ctl, fieldVars, connections_active, half_open, endings>>

\* Adding the key finds its position if it is there already, or takes a free
\* one; it may find no room in the buckets.
Add(l) ==
  /\ pc[l] = "add"
  /\ \/ /\ conn_hash[key[l]] # None
        /\ slot' = [slot EXCEPT ![l] = conn_hash[key[l]]]
        /\ Goto(l, "load")
        /\ UNCHANGED tableVars
     \/ /\ conn_hash[key[l]] = None
        /\ \E s \in free_slots :
             /\ conn_hash' = [conn_hash EXCEPT ![key[l]] = s]
             /\ free_slots' = free_slots \ {s}
             /\ slot_key' = [slot_key EXCEPT ![s] = key[l]]
             /\ slot' = [slot EXCEPT ![l] = s]
        /\ Goto(l, "load")
     \/ /\ conn_hash[key[l]] = None
        /\ Goto(l, "unreserve")
        /\ UNCHANGED <<tableVars, slot>>
  /\ tries' = [tries EXCEPT ![l] = @ + 1]
  /\ UNCHANGED <<ctl, fieldVars, countVars, word, seen, cand>>

\* Anything but NONE means that the key was in the table already.
Load(l) ==
  /\ pc[l] = "load"
  /\ word' = [word EXCEPT ![l] = ctl[slot[l]]]
  /\ Goto(l, IF ctl[slot[l]].st = "NONE" THEN "mapped" ELSE "unreserve")
  /\ UNCHANGED <<tableVars, ctl, fieldVars, countVars, slot, seen, tries, cand>>

StillMappedUnchecked(l) == TRUE
StillMapped(l) == conn_hash[key[l]] = slot[l]

\* The key must still map to the slot; if it is gone, it is added once more.
Mapped(l) ==
  /\ pc[l] = "mapped"
  /\ Goto(l, IF StillMapped(l) THEN "claim"
             ELSE IF conn_hash[key[l]] = None /\ tries[l] < 2 THEN "add" ELSE "unreserve")
  /\ UNCHANGED <<tableVars, ctl, fieldVars, countVars>> /\ Keep(l)

Claim(l) ==
  /\ pc[l] = "claim"
  /\ IF ctl[slot[l]] = word[l]
     THEN /\ ctl' = [ctl EXCEPT ![slot[l]] = InitWord(word[l].gen, key[l])]
          /\ word' = [word EXCEPT ![l] = InitWord(word[l].gen, key[l])]
          /\ Goto(l, "fill")
     ELSE UNCHANGED <<ctl, word>> /\ Goto(l, "unreserve")
  /\ UNCHANGED <<tableVars, fieldVars, countVars, slot, seen, tries, cand>>

Unreserve(l) ==
  /\ pc[l] = "unreserve"
  /\ entries_used' = entries_used - 1
  /\ AllocFails(l)
  /\ UNCHANGED <<tableVars, ctl, fieldVars, connections_active, half_open, endings>>

\* The fields of the new entry, cleared or set.
Fill(l) ==
  /\ pc[l] = "fill"
  /\ conn_key' = [conn_key EXCEPT ![slot[l]] = key[l]]
  /\ server_isn' = [server_isn EXCEPT ![slot[l]] = Number(l, None)]
  /\ client_fin_end' = [client_fin_end EXCEPT ![slot[l]] = Number(l, None)]
  /\ server_fin_end' = [server_fin_end EXCEPT ![slot[l]] = Number(l, None)]
  /\ seq_delta' = [seq_delta EXCEPT ![slot[l]] = None]
  /\ connections_active' = connections_active + 1
  /\ endings' = [endings EXCEPT ![slot[l]] = 0]
  /\ Goto(l, "publish") /\ Keep(l)
  /\ UNCHANGED <<tableVars, ctl, entries_used, half_open>>

\* conn_publish: BYPASSED for a SYN, CONNECTING for a cookie.
Publish(l) ==
  /\ pc[l] = "publish"
  /\ LET c == Published(word[l], IF seg[l] = "ack" THEN "CONNECTING" ELSE "BYPASSED") IN
       /\ ctl' = [ctl EXCEPT ![slot[l]] = c]
       /\ IF seg[l] = "ack"
          THEN /\ Goto(l, "connecting")
               /\ word' = [word EXCEPT ![l] = c]
               /\ UNCHANGED <<slot, seen, tries, cand>>
          ELSE Finish(l)
  /\ UNCHANGED <<tableVars, fieldVars, countVars>>

\* The SYN to the server, or no buffer for it: then the entry is freed.
Connecting(l) ==
  /\ pc[l] = "connecting"
  /\ Finish(l) \/ (Goto(l, "free") /\ Keep(l))
  /\ UNCHANGED <<tableVars, ctl, fieldVars, countVars>>

-----------------------------------------------------------------------------
(* The server's SYN-ACK ends CONNECTING; the winner of the swap releases the *)
(* half-open place and writes the deltas while the entry is BUSY.            *)

SynAck(l) ==
  /\ pc[l] = "synack"
  /\ LET c == word[l]
         busy == Word("ESTABLISHED", c.gen, TRUE, c.fc, c.fs, c.isn, c.hs, c.of) IN
     IF ctl[slot[l]] = c
     THEN /\ ctl' = [ctl EXCEPT ![slot[l]] = busy]
          /\ word' = [word EXCEPT ![l] = busy]
          /\ Goto(l, "synack_half")
          /\ UNCHANGED <<slot, seen, tries, cand>>
     ELSE UNCHANGED ctl /\ Finish(l)
  /\ UNCHANGED <<tableVars, fieldVars, countVars>>

SynAckHalf(l) ==
  /\ pc[l] = "synack_half"
  /\ half_open' = HalfOpenReleased(SourceOf[key[l]])
  /\ Goto(l, "synack_write") /\ Keep(l)
  /\ UNCHANGED <<tableVars, ctl, fieldVars, entries_used, connections_active, endings>>

SynAckWrite(l) ==
  /\ pc[l] = "synack_write"
  /\ server_isn' = [server_isn EXCEPT ![slot[l]] = Number(l, num[l])]
  /\ seq_delta' = [seq_delta EXCEPT ![slot[l]] = word[l].gen]
  /\ Goto(l, "synack_publish") /\ Keep(l)
  /\ UNCHANGED <<tableVars, ctl, conn_key, client_fin_end, server_fin_end, countVars>>

SynAckPublish(l) ==
  /\ pc[l] = "synack_publish"
  /\ LET c == word[l]
         done == Word("ESTABLISHED", c.gen, FALSE, c.fc, c.fs, c.isn, c.hs, c.of) IN
       /\ ctl' = [ctl EXCEPT ![slot[l]] = done]
       /\ word' = [word EXCEPT ![l] = done]
  /\ Goto(l, "synack_reply")
  /\ UNCHANGED <<tableVars, fieldVars, countVars, slot, seen, tries, cand>>

SynAckReply(l) ==
  /\ pc[l] = "synack_reply"
  /\ Finish(l) \/ (Goto(l, "free") /\ Keep(l))
  /\ UNCHANGED <<tableVars, ctl, fieldVars, countVars>>

-----------------------------------------------------------------------------
(* proxied_close_segment                                                     *)

FromServer(l) == seg[l] \in Outbound

\* A FIN first stores its end, whatever has become of the entry since.
StoreFinEnd(l) ==
  /\ pc[l] = "fin"
  /\ IF FromServer(l)
     THEN /\ server_fin_end' = [server_fin_end EXCEPT ![slot[l]] = Number(l, FinEnd)]
          /\ UNCHANGED client_fin_end
     ELSE /\ client_fin_end' = [client_fin_end EXCEPT ![slot[l]] = Number(l, FinEnd)]
          /\ UNCHANGED server_fin_end
  /\ Goto(l, "close") /\ Keep(l)
  /\ UNCHANGED <<tableVars, ctl, conn_key, server_isn, seq_delta, countVars>>

ClientFin(c) == c.st \in {"CLIENT_FIN", "CLOSING"}
ServerFin(c) == c.st \in {"SERVER_FIN", "CLOSING"}

\* The end of the other side's FIN, if one is recorded and not acknowledged.
OtherFinEnd(l) ==
  IF FromServer(l) /\ ClientFin(word[l]) /\ ~word[l].fc THEN client_fin_end[slot[l]]
  ELSE IF ~FromServer(l) /\ ServerFin(word[l]) /\ ~word[l].fs THEN server_fin_end[slot[l]]
  ELSE NoNumber

Close(l) ==
  /\ pc[l] = "close"
  /\ IF word[l].st \in Closable /\ ~word[l].busy
     THEN /\ seen' = [seen EXCEPT ![l] = OtherFinEnd(l)]
          /\ Goto(l, "close_swap")
          /\ UNCHANGED <<slot, word, tries, cand>>
     ELSE Finish(l)
  /\ UNCHANGED <<tableVars, ctl, fieldVars, countVars>>

\* This segment acknowledges the FIN whose end was read.
AcksFin(l) == num[l] = FinEnd /\ seen[l] = Number(l, FinEnd)

WantClose(l) ==
  LET c == word[l]
      cfin == ClientFin(c) \/ seg[l] = "fin"
      sfin == ServerFin(c) \/ seg[l] = "s_fin"
      fc == c.fc \/ (AcksFin(l) /\ FromServer(l))
      fs == c.fs \/ (AcksFin(l) /\ ~FromServer(l))
      st == IF cfin /\ sfin THEN IF fc /\ fs THEN "CLOSED" ELSE "CLOSING"
            ELSE IF cfin THEN "CLIENT_FIN" ELSE IF sfin THEN "SERVER_FIN" ELSE "ESTABLISHED"
  IN Word(st, c.gen, FALSE, fc, fs, c.isn, c.hs, c.of)

SwapAlways(s, c) == TRUE
SwapSucceeds(s, c) == ctl[s] = c

\* On failure the same entry is decided on again, from its present word.
CloseSwap(l) ==
  /\ pc[l] = "close_swap"
  /\ IF WantClose(l) = word[l] \/ ~SameEntry(ctl[slot[l]], word[l])
     THEN Finish(l) /\ UNCHANGED <<ctl, endings>>
     ELSE IF SwapSucceeds(slot[l], word[l])
     THEN /\ ctl' = [ctl EXCEPT ![slot[l]] = WantClose(l)]
          /\ endings' = [endings EXCEPT ![slot[l]] =
                           IF WantClose(l).st = "CLOSED" THEN @ + 1 ELSE @]
          /\ Finish(l)
     ELSE /\ word' = [word EXCEPT ![l] = ctl[slot[l]]]
          /\ Goto(l, "close")
          /\ UNCHANGED <<ctl, endings, slot, seen, tries, cand>>
  /\ UNCHANGED <<tableVars, fieldVars, entries_used, connections_active, half_open>>

-----------------------------------------------------------------------------
(* bypass_segment                                                            *)

\* The client's handshake is not acknowledged and the server's ISN recorded.
IsnAwaitsAck(c) == c.isn /\ ~c.hs /\ ~c.busy

\* The ACK after both FINs ends the connection (a BUSY entry is left alone).
LastAck(l) == seg[l] \in {"ack", "s_ack"} /\ word[l].fc /\ word[l].fs

Bypass(l) ==
  /\ pc[l] = "bypass"
  /\ IF LastAck(l)
     THEN /\ IF word[l].busy THEN Finish(l) ELSE Goto(l, "bypass_retire") /\ Keep(l)
     ELSE /\ seen' = [seen EXCEPT ![l] =
                         IF seg[l] \in {"ack", "fin"} /\ IsnAwaitsAck(word[l])
                         THEN server_isn[slot[l]] ELSE NoNumber]
          /\ Goto(l, "bypass_swap")
          /\ UNCHANGED <<slot, word, tries, cand>>
  /\ UNCHANGED <<tableVars, ctl, fieldVars, countVars>>

\* The client acknowledges the ISN recorded, for the first time.
AcksIsn(l) ==
  /\ seg[l] \in {"ack", "fin"} /\ IsnAwaitsAck(word[l])
  /\ seen[l].n = num[l] /\ num[l] # None

\* The server's SYN-ACK records its ISN until the handshake is acknowledged.
RecordsIsn(l) == seg[l] = "s_synack" /\ ~word[l].hs /\ ~word[l].busy

WantBypass(l) ==
  LET c == word[l] IN
  Word(c.st, c.gen, c.busy \/ RecordsIsn(l),
       IF seg[l] \in {"syn", "s_synack"} THEN FALSE ELSE c.fc \/ seg[l] = "fin",
       IF seg[l] \in {"syn", "s_synack"} THEN FALSE ELSE c.fs \/ seg[l] = "s_fin",
       c.isn, c.hs \/ AcksIsn(l), c.of)

\* Decide again from the present word, if it is the same bypassed entry.
BypassAgain(l) ==
  IF SameEntry(ctl[slot[l]], word[l]) /\ ctl[slot[l]].st = "BYPASSED"
  THEN /\ word' = [word EXCEPT ![l] = ctl[slot[l]]]
       /\ Goto(l, "bypass")
       /\ UNCHANGED <<slot, seen, tries, cand>>
  ELSE Finish(l)

BypassSwap(l) ==
  /\ pc[l] = "bypass_swap"
  /\ IF WantBypass(l) = word[l]
     THEN UNCHANGED ctl /\ Finish(l)
     ELSE IF SwapSucceeds(slot[l], word[l])
     THEN /\ ctl' = [ctl EXCEPT ![slot[l]] = WantBypass(l)]
          /\ IF RecordsIsn(l) THEN Goto(l, "record") /\ Keep(l) ELSE Finish(l)
     ELSE UNCHANGED ctl /\ BypassAgain(l)
  /\ UNCHANGED <<tableVars, fieldVars, countVars>>

\* The entry is BUSY: its owner writes the ISN, then clears BUSY, whatever FIN
\* flags others change meanwhile.
Record(l) ==
  /\ pc[l] = "record"
  /\ server_isn' = [server_isn EXCEPT ![slot[l]] = Number(l, num[l])]
  /\ Goto(l, "recorded") /\ Keep(l)
  /\ UNCHANGED <<tableVars, ctl, conn_key, client_fin_end, server_fin_end, seq_delta, countVars>>

Recorded(l) ==
  /\ pc[l] = "recorded"
  /\ LET c == ctl[slot[l]] IN
       ctl' = [ctl EXCEPT ![slot[l]] =
                 Word(c.st, c.gen, FALSE, c.fc, c.fs, TRUE, c.hs, c.of)]
  /\ Finish(l)
  /\ UNCHANGED <<tableVars, fieldVars, countVars>>

BypassRetire(l) ==
  /\ pc[l] = "bypass_retire"
  /\ IF SwapSucceeds(slot[l], word[l])
     THEN /\ ctl' = [ctl EXCEPT ![slot[l]] = DeadWord(word[l])]
          /\ Goto(l, "dead_delete") /\ Keep(l)
     ELSE UNCHANGED ctl /\ BypassAgain(l)
  /\ UNCHANGED <<tableVars, fieldVars, countVars>>

-----------------------------------------------------------------------------
(* Retiring an entry: the lcore whose swap to DEAD succeeds deletes the key, *)
(* counts, advances the generation, frees the slot and the reservation.      *)

RetiresUnchecked(l) == TRUE
Retires(l) ==
  /\ SameEntry(ctl[slot[l]], word[l])
  /\ Live(ctl[slot[l]]) /\ ~ctl[slot[l]].busy

\* Where a retired entry's lcore goes on: the cleanup's batch, the SYN that
\* replaces a closed connection, or the end of the packet.
Afterwards(l) ==
  /\ Goto(l, IF seg[l] = "clean" THEN "clean" ELSE IF seg[l] = "syn" THEN "challenge" ELSE "idle")
  /\ Drop(l)

\* free_connection: while the same entry only changed, try again; BUSY or
\* retired by another lcore, give up.
Free(l) ==
  /\ pc[l] = "free"
  /\ IF ~word[l].busy /\ Retires(l)
     THEN /\ ctl' = [ctl EXCEPT ![slot[l]] = DeadWord(@)]
          /\ word' = [word EXCEPT ![l] = ctl[slot[l]]]
          /\ Goto(l, "dead_delete")
          /\ UNCHANGED <<slot, seen, tries, cand>>
     ELSE UNCHANGED ctl /\ Afterwards(l)
  /\ UNCHANGED <<tableVars, fieldVars, countVars>>

\* (A key that does not map to the entry would leave it DEAD.)
DeadDelete(l) ==
  /\ pc[l] = "dead_delete"
  /\ conn_hash' = [conn_hash EXCEPT ![key[l]] = None]
  /\ IF conn_hash[key[l]] = slot[l] THEN Goto(l, "dead_count") /\ Keep(l) ELSE Afterwards(l)
  /\ UNCHANGED <<free_slots, slot_key, ctl, fieldVars, countVars>>

\* A CLOSED entry was counted when its close completed; the cleanup counts
\* neither that nor a CLOSING one.
CountsEndAlways(l) == TRUE
CountsEnd(l) ==
  word[l].st # "CLOSED" /\ ~(seg[l] = "clean" /\ word[l].st = "CLOSING")

DeadCount(l) ==
  /\ pc[l] = "dead_count"
  /\ half_open' = IF word[l].st = "CONNECTING" THEN HalfOpenReleased(SourceOf[key[l]])
                  ELSE half_open
  /\ endings' = [endings EXCEPT ![slot[l]] = IF CountsEnd(l) THEN @ + 1 ELSE @]
  /\ connections_active' = connections_active - 1
  /\ Goto(l, "dead_none") /\ Keep(l)
  /\ UNCHANGED <<tableVars, ctl, fieldVars, entries_used>>

NextGenKept(c) == c.gen
NextGen(c) == c.gen + 1

DeadNone(l) ==
  /\ pc[l] = "dead_none"
  /\ ctl' = [ctl EXCEPT ![slot[l]] = FreeWord(NextGen(word[l]))]
  /\ Goto(l, "dead_free") /\ Keep(l)
  /\ UNCHANGED <<tableVars, fieldVars, countVars>>

DeadFree(l) ==
  /\ pc[l] = "dead_free"
  /\ free_slots' = free_slots \cup {slot[l]}
  /\ Goto(l, "dead_unreserve") /\ Keep(l)
  /\ UNCHANGED <<conn_hash, slot_key, ctl, fieldVars, countVars>>

DeadUnreserve(l) ==
  /\ pc[l] = "dead_unreserve"
  /\ entries_used' = entries_used - 1
  /\ Afterwards(l)
  /\ UNCHANGED <<tableVars, ctl, fieldVars, connections_active, half_open, endings>>

-----------------------------------------------------------------------------
(* syn_proxy_admits_segment, for a bypassed connection whose handshake is    *)
(* not acknowledged yet: the ISN, then the word again.                       *)

AdmitIsn(l) ==
  /\ pc[l] = "admit_isn"
  /\ IF server_isn[slot[l]].n = num[l]
     THEN /\ seen' = [seen EXCEPT ![l] = server_isn[slot[l]]]
          /\ Goto(l, "admit_again")
          /\ UNCHANGED <<slot, word, tries, cand>>
     ELSE Finish(l)
  /\ UNCHANGED <<tableVars, ctl, fieldVars, countVars>>

AdmitUnchecked(l) ==
  /\ pc[l] = "admit_again"
  /\ Goto(l, "admitted") /\ Keep(l)
  /\ UNCHANGED <<tableVars, ctl, fieldVars, countVars>>

AdmitAgain(l) ==
  /\ pc[l] = "admit_again"
  /\ IF SameEntry(ctl[slot[l]], word[l]) THEN Goto(l, "admitted") /\ Keep(l) ELSE Finish(l)
  /\ UNCHANGED <<tableVars, ctl, fieldVars, countVars>>

\* The answer TRUE has been returned.
Admitted(l) ==
  /\ pc[l] = "admitted"
  /\ Finish(l)
  /\ UNCHANGED <<tableVars, ctl, fieldVars, countVars>>

-----------------------------------------------------------------------------
(* syn_proxy_cleanup_connections                                             *)

CleanStart(l) ==
  /\ l = Maint /\ "cleanup" \in Work
  /\ pc[l] = "idle"
  /\ pc' = [pc EXCEPT ![l] = "scan"]
  /\ seg' = [seg EXCEPT ![l] = "clean"]
  /\ UNCHANGED <<tableVars, ctl, fieldVars, countVars, key, num, slot, word, seen, tries, cand>>

\* The iterator returns a position of the hash.
Scan(l, k) ==
  /\ pc[l] = "scan"
  /\ conn_hash[k] # None
  /\ slot' = [slot EXCEPT ![l] = conn_hash[k]]
  /\ Goto(l, "scan_word")
  /\ UNCHANGED <<tableVars, ctl, fieldVars, countVars, word, seen, tries, cand>>

MayBeDueAnswered(c) == Live(c) /\ ~c.busy /\ c.st # "CONNECTING"
MayBeDue(c) == Live(c) /\ ~c.busy

\* The word is read; whether a live entry is due depends on its times.
ScanDue(l, s) ==
  /\ pc[l] = "scan_word" /\ slot[l] = s
  /\ MayBeDue(ctl[s])
  /\ word' = [word EXCEPT ![l] = ctl[s]]
  /\ Goto(l, "scan_key")
  /\ UNCHANGED <<tableVars, ctl, fieldVars, countVars, slot, seen, tries, cand>>

ScanSkip(l) ==
  /\ pc[l] = "scan_word"
  /\ Goto(l, "scan") /\ Drop(l)
  /\ UNCHANGED <<tableVars, ctl, fieldVars, countVars>>

\* The key is copied from the hash after the word was read.
ScanKey(l) ==
  /\ pc[l] = "scan_key"
  /\ cand' = cand \cup {[key |-> slot_key[slot[l]], slot |-> slot[l], word |-> word[l]]}
  /\ Goto(l, IF Cardinality(cand') = CleanupBatch THEN "clean" ELSE "scan")
  /\ slot' = [slot EXCEPT ![l] = None]
  /\ word' = [word EXCEPT ![l] = FreeWord(0)]
  /\ UNCHANGED <<tableVars, ctl, fieldVars, countVars, seen, tries>>

ScanEnd(l) ==
  /\ pc[l] = "scan"
  /\ Goto(l, "clean")
  /\ UNCHANGED <<tableVars, ctl, fieldVars, countVars, slot, word, seen, tries, cand>>

\* Each candidate is checked again, still the same entry and still due, ...
CleanDue(l, s) ==
  /\ pc[l] = "clean"
  /\ \E x \in cand :
       /\ x.slot = s
       /\ SameEntry(ctl[s], x.word) /\ MayBeDue(ctl[s])
       /\ cand' = cand \ {x}
       /\ key' = [key EXCEPT ![l] = x.key]
  /\ slot' = [slot EXCEPT ![l] = s]
  /\ word' = [word EXCEPT ![l] = ctl[s]]
  /\ pc' = [pc EXCEPT ![l] = "clean_retire"]
  /\ UNCHANGED <<tableVars, ctl, fieldVars, countVars, seg, num, seen, tries>>

CleanSkip(l) ==
  /\ pc[l] = "clean"
  /\ \E x \in cand : cand' = cand \ {x}
  /\ UNCHANGED <<tableVars, ctl, fieldVars, countVars, pc, packetVars, slot, word, seen, tries>>

\* ... and retired by a swap against the word just read.
CleanRetire(l) ==
  /\ pc[l] = "clean_retire"
  /\ IF SwapSucceeds(slot[l], word[l])
     THEN /\ ctl' = [ctl EXCEPT ![slot[l]] = DeadWord(word[l])]
          /\ Goto(l, "dead_delete") /\ Keep(l)
     ELSE UNCHANGED ctl /\ Afterwards(l)
  /\ UNCHANGED <<tableVars, fieldVars, countVars>>

CleanEnd(l) ==
  /\ pc[l] = "clean" /\ cand = {}
  /\ Finish(l)
  /\ UNCHANGED <<tableVars, ctl, fieldVars, countVars>>

-----------------------------------------------------------------------------
Step(l) ==   \* an operation in progress goes on
  \/ ReadWord(l) \/ Decide(l) \/ ValidateCookie(l) \/ Challenge(l) \/ HalfBack(l)
  \/ Reserve(l) \/ Add(l) \/ Load(l) \/ Mapped(l) \/ Claim(l) \/ Unreserve(l)
  \/ Fill(l) \/ Publish(l) \/ Connecting(l)
  \/ SynAck(l) \/ SynAckHalf(l) \/ SynAckWrite(l) \/ SynAckPublish(l) \/ SynAckReply(l)
  \/ StoreFinEnd(l) \/ Close(l) \/ CloseSwap(l)
  \/ Bypass(l) \/ BypassSwap(l) \/ Record(l) \/ Recorded(l) \/ BypassRetire(l)
  \/ Free(l) \/ DeadDelete(l) \/ DeadCount(l) \/ DeadNone(l) \/ DeadFree(l) \/ DeadUnreserve(l)
  \/ AdmitIsn(l) \/ AdmitAgain(l) \/ Admitted(l)
  \/ ScanSkip(l) \/ ScanKey(l) \/ ScanEnd(l) \/ CleanSkip(l) \/ CleanRetire(l) \/ CleanEnd(l)
  \/ \E s \in Slots : ScanDue(l, s) \/ CleanDue(l, s)

Arrive(l) == \E k \in Keys, sg \in Segments : \E n \in Numbers(sg) : Lookup(l, k, sg, n)

Next == \E l \in Lcores :
  \/ Arrive(l) \/ CleanStart(l)
  \/ \E k \in Keys : Scan(l, k)
  \/ Step(l)

Spec == Init /\ [][Next]_vars

-----------------------------------------------------------------------------
(* Properties                                                                *)

NumberTags == [gen : Nat, n : ISNs \cup {FinEnd, None}]

\* Types of the state.
TypeOK ==
  /\ conn_hash \in [Keys -> Slots \cup {None}]
  /\ free_slots \subseteq Slots
  /\ slot_key \in [Slots -> Keys \cup {None}]
  /\ ctl \in [Slots -> Words]
  /\ conn_key \in [Slots -> Keys \cup {None}]
  /\ server_isn \in [Slots -> NumberTags]
  /\ client_fin_end \in [Slots -> NumberTags]
  /\ server_fin_end \in [Slots -> NumberTags]
  /\ seq_delta \in [Slots -> {None} \cup Nat]
  /\ entries_used \in Nat /\ connections_active \in Nat
  /\ half_open.n \in Nat
  /\ endings \in [Slots -> Nat]
  /\ pc \in [Lcores -> PCs]
  /\ key \in [Lcores -> Keys \cup {None}]
  /\ seg \in [Lcores -> Segments \cup {None, "clean"}]
  /\ num \in [Lcores -> ISNs \cup {FinEnd, None}]
  /\ slot \in [Lcores -> Slots \cup {None}]
  /\ word \in [Lcores -> Words]
  /\ seen \in [Lcores -> NumberTags]
  /\ tries \in [Lcores -> 0..2]
  /\ cand \subseteq [key : Keys, slot : Slots, word : Words]

\* Where an lcore owns the entry in its slot.
AtOwner == {"fill", "publish", "synack_half", "synack_write", "synack_publish",
            "record", "recorded", "dead_delete", "dead_count", "dead_none"}

Owners(s) == {l \in Lcores : slot[l] = s /\ pc[l] \in AtOwner}

\* An entry that is being filled in, retired or written (INIT, DEAD, BUSY) has
\* exactly one owner, any other has none: two lcores never fill in or retire
\* one entry, and no entry is left behind in such a state.
OneOwner ==
  \A s \in Slots : Cardinality(Owners(s)) =
    IF ctl[s].st \in {"INIT", "DEAD"} \/ ctl[s].busy THEN 1 ELSE 0

\* "Claiming the NONE slot then would publish an entry that the hash does not
\* map" (alloc_connection_with_hash): a claimed or published entry is the one
\* its 4-tuple maps to, until its key is deleted; a slot the hash may hand out
\* is not in use.  "Cannot happen: only the lcore that marked the entry DEAD
\* deletes its key" (retire_entry): the key it deletes is still there.
FoundByKey ==
  /\ \A s \in Slots :
       /\ ctl[s].st # "NONE" => \/ conn_hash[ctl[s].of] = s
                               \/ (ctl[s].st = "DEAD" /\ \E l \in Owners(s) : pc[l] # "dead_delete")
       /\ Live(ctl[s]) => conn_key[s] = ctl[s].of
       /\ s \in free_slots => ctl[s].st = "NONE" /\ \A k \in Keys : conn_hash[k] # s
  /\ \A k, j \in Keys : conn_hash[k] = conn_hash[j] /\ conn_hash[k] # None => k = j
  /\ \A l \in Lcores : pc[l] = "dead_delete" => conn_hash[key[l]] = slot[l]

AtReserved == {"add", "load", "mapped", "claim", "unreserve", "dead_free", "dead_unreserve"}

\* Reservations and the active count balance with the entries, on every path,
\* and the maximum is kept.
EntriesBalanced ==
  /\ entries_used <= MaxConnections
  /\ entries_used = Cardinality({s \in Slots : ctl[s].st # "NONE"})
                     + Cardinality({l \in Lcores : pc[l] \in AtReserved})
  /\ connections_active = Cardinality({s \in Slots : ctl[s].st \notin {"NONE", "INIT"}})
                           + Cardinality({l \in Lcores : pc[l] = "publish"})
                           - Cardinality({l \in Lcores : pc[l] = "dead_none"})

HoldsHalfOpen(l) ==
  \/ seg[l] = "ack" /\ pc[l] \in {"reserve", "add", "load", "mapped", "claim", "unreserve",
                                  "fill", "publish", "half_back"}
  \/ pc[l] = "synack_half"
  \/ pc[l] \in {"dead_delete", "dead_count"} /\ word[l].st = "CONNECTING"

HalfOpen(ip) ==
  Cardinality({s \in Slots : ctl[s].st = "CONNECTING" /\ SourceOf[ctl[s].of] = ip})
  + Cardinality({l \in Lcores : HoldsHalfOpen(l) /\ SourceOf[key[l]] = ip})

\* A source is never charged for half-open connections it does not have, so it
\* is never locked out; without a colliding source the count is exact.
HalfOpenBalanced ==
  /\ half_open.n <= MaxHalfOpen
  /\ half_open.n > 0 => half_open.n <= HalfOpen(half_open.ip)
  /\ \A ip \in {SourceOf[k] : k \in Keys} :
       {SourceOf[k] : k \in Keys} = {ip} => half_open.n = HalfOpen(ip)

\* Every count of the connection table is given back exactly once, whichever
\* path ends a connection or gives one up halfway, and both maxima are kept.
CountsBalanced == EntriesBalanced /\ HalfOpenBalanced

\* A connection is counted as ended at most once, whoever ends it: the close,
\* an RST, a timeout or an error path.
CountedOnce ==
  \A s \in Slots : /\ endings[s] <= 1
                   /\ Live(ctl[s]) => endings[s] = IF ctl[s].st = "CLOSED" THEN 1 ELSE 0

\* "server_isn belongs to the entry read above only while its generation is
\* unchanged" (syn_proxy_admits_segment): the ISN is read after the word, and
\* the slot may pass to another connection in between.  An admission, and a
\* handshake found acknowledged, rest on the ISN that the segment's own
\* connection recorded, never on that of the slot's next one.
OwnIsn ==
  \A l \in Lcores :
    /\ pc[l] = "admitted" /\ seen[l].n # None =>
         seen[l].gen = word[l].gen /\ word[l].of = key[l]
    /\ pc[l] = "bypass_swap" /\ AcksIsn(l) /\ ctl[slot[l]] = word[l] =>
         seen[l].gen = word[l].gen

FactHolds(c, f) ==
  IF c.st = "BYPASSED" THEN (f = "isn" /\ c.isn) \/ (f = "handshake" /\ c.hs)
  ELSE /\ c.st \in Proxied
       /\ \/ c.st = "CLOSED"
          \/ (f = "client fin" /\ ClientFin(c)) \/ (f = "server fin" /\ ServerFin(c))
          \/ (f = "client fin acked" /\ c.fc) \/ (f = "server fin acked" /\ c.fs)

Facts(c) == {f \in {"client fin", "server fin", "client fin acked", "server fin acked",
                     "isn", "handshake"} : FactHolds(c, f)}

\* What one lcore recorded of a connection no other lcore undoes: FINs, their
\* acknowledgements, the ISN and the acknowledged handshake stay for its life.
FactsKept ==
  [][\A s \in Slots : SameEntry(ctl[s], ctl'[s]) /\ Live(ctl[s]) /\ Live(ctl'[s])
        => Facts(ctl[s]) \subseteq Facts(ctl'[s])]_vars

Phase(k) ==
  LET s == conn_hash[k]
      c == ctl[s] IN
  IF s = None \/ ~Live(c) \/ conn_key[s] # k THEN "none"
  ELSE CASE c.st = "BYPASSED"   -> IF c.hs THEN "verified" ELSE "bypassed"
         [] c.st = "CONNECTING" -> "connecting" [] c.st = "ESTABLISHED" -> "established"
         [] c.st = "CLIENT_FIN" -> "client_fin" [] c.st = "SERVER_FIN"  -> "server_fin"
         [] c.st = "CLOSING"    -> "closing"    [] c.st = "CLOSED"      -> "closed"

Connections == INSTANCE SynConnections WITH phase <- [k \in Keys |-> Phase(k)]

\* The table implements one connection per 4-tuple, each with the life cycle
\* of SynConnections.
ImplementsConnections == Connections!CSpec

-----------------------------------------------------------------------------
(* Progress: an operation goes on, and the cleanup comes back to every entry *)
(* and finds it due once its time is over.                                   *)

Fairness ==
  /\ \A l \in Lcores : WF_vars(Step(l))
  /\ SF_vars(CleanStart(Maint)) /\ \A k \in Keys : SF_vars(Scan(Maint, k))
  /\ \A s \in Slots : SF_vars(ScanDue(Maint, s)) /\ SF_vars(CleanDue(Maint, s))

FairSpec == Spec /\ Fairness

\* A half-open connection ends, established, reset or timed out, and with it
\* the charge on its source.
HalfOpenEnds == \A k \in Keys : (Phase(k) = "connecting") ~> (Phase(k) # "connecting")
=============================================================================
