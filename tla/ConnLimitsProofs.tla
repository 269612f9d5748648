--------------------------- MODULE ConnLimitsProofs ---------------------------
(***************************************************************************)
(* Proofs about ConnLimits, for any sources, positions, lcores and limits. *)
(*                                                                         *)
(* The inductive invariant says what an lcore's registers hold at each pc  *)
(* (Registers), where each position is (Places), what an lcore that counts *)
(* on a tracker knows of it (UsersSafe), and how far the counts are from   *)
(* the limit (Bounded).  WInv adds to it how many connections each window  *)
(* has admitted, by how many of its clears are still to come.              *)
(***************************************************************************)
EXTENDS ConnLimitsHistory, FiniteSetTheorems, TLAPS

\* The clock a check has read, and the start it saw in a window it will end.
Registers ==
    \A l \in Lcores :
       /\ pc[l] # "idle" => ip[l] \in IPs
       /\ pc[l] \in {"missed", "open", "hit", "swap"} => clock[l] > 0
       /\ pc[l] = "swap" => clock[l] > seen_start[l]

\* A position is free, mapped, with the cleanup or in the limbo; what the
\* cleanup is about to delete is mapped, as it holds the lock.
Places ==
    /\ \A i, j \in IPs : conn_hash[i] = conn_hash[j] /\ conn_hash[i] # None => i = j
    /\ \A i \in IPs : conn_hash[i] \notin free_slots \cup limbo \cup retired
    /\ free_slots \cap (limbo \cup retired) = {} /\ limbo \cap retired = {}
    /\ \A p \in free_slots : tracker[p] = Clear
    /\ checked # None => conn_hash[checked[1]] = checked[2]

UserSafe(l) ==
    \/ conn_hash[ip[l]] = pos[l]
    \/ pos[l] \in retired
    \/ pos[l] \in limbo /\ l \in waits[pos[l]]
UsersSafe == \A l \in Lcores : Uses(l) => UserSafe(l)

\* The count and those that have passed the test, or add the source without
\* one, stay together below the limit and the other lcores: no count wraps.
Bounded ==
    \A p \in Positions : tracker[p].conns + Cardinality(Passed(p)) < Max + Cardinality(Lcores)

IInv == TypeOK /\ Registers /\ Places /\ UsersSafe /\ Bounded

LEMMA Constants ==
    /\ None \notin Positions /\ None \notin Lcores /\ None # Maint /\ Maint \notin Lcores
    /\ None \notin Keys
    /\ Max \in Nat /\ Max > 0 /\ CountMod \in Nat /\ CountMod > 0
    /\ Cardinality(Lcores) \in Nat /\ CountMod > Max + Cardinality(Lcores) + 1
    /\ Start \in Nat /\ Start > 0 /\ MaxTime \in Nat /\ Start <= MaxTime
    /\ ClockMod \in Nat /\ Window \in Nat
<1>1. Cardinality(Lcores) \in Nat
  BY ConnLimitsAssumption, FS_CardinalityType
<1>2. QED BY <1>1, ConnLimitsAssumption DEF Keys

-----------------------------------------------------------------------------
(* Counting.                                                               *)

LEMMA PassedFinite ==
    ASSUME NEW p
    PROVE  /\ IsFiniteSet(Passed(p)) /\ Cardinality(Passed(p)) \in Nat
           /\ Cardinality(Passed(p)) <= Cardinality(Lcores)
<1>1. Passed(p) \subseteq Lcores /\ IsFiniteSet(Lcores)
  BY ConnLimitsAssumption DEF Passed
<1>2. QED BY <1>1, FS_Subset, FS_CardinalityType

LEMMA PassedFiniteNext ==
    ASSUME NEW p
    PROVE  /\ IsFiniteSet(Passed(p)') /\ Cardinality(Passed(p)') \in Nat
           /\ Cardinality(Passed(p)') <= Cardinality(Lcores)
<1>1. Passed(p)' \subseteq Lcores /\ IsFiniteSet(Lcores)
  BY ConnLimitsAssumption DEF Passed
<1>2. QED BY <1>1, FS_Subset, FS_CardinalityType

\* A count stays below the bound when it does not grow and nobody joins those
\* about to count, and whenever it is below the limit.
LEMMA BoundKept ==
    ASSUME IInv, tracker' \in [Positions -> Trackers],
           \A p \in Positions :
              \/ tracker'[p].conns <= tracker[p].conns /\ Passed(p)' \subseteq Passed(p)
              \/ tracker'[p].conns < Max
    PROVE  Bounded'
<1> SUFFICES ASSUME NEW p \in Positions
             PROVE  tracker'[p].conns + Cardinality(Passed(p)') < Max + Cardinality(Lcores)
  BY DEF Bounded
<1>1. /\ tracker'[p].conns \in Nat /\ tracker[p].conns \in Nat
  BY DEF IInv, TypeOK, Trackers
<1>2. tracker[p].conns + Cardinality(Passed(p)) < Max + Cardinality(Lcores)
  BY DEF IInv, Bounded
<1>3. CASE tracker'[p].conns <= tracker[p].conns /\ Passed(p)' \subseteq Passed(p)
  <2>1. Cardinality(Passed(p)') <= Cardinality(Passed(p))
    BY <1>3, PassedFinite, FS_Subset
  <2>2. QED BY <1>1, <1>2, <1>3, <2>1, Constants, PassedFinite, PassedFiniteNext
<1>4. CASE tracker'[p].conns < Max
  BY <1>1, <1>4, Constants, PassedFiniteNext
<1>5. QED BY <1>3, <1>4

\* A lcore counts: it is one less about to.
LEMMA BoundCount ==
    ASSUME IInv, NEW l \in Lcores, pc[l] = "count", Count(l)
    PROVE  /\ \A p \in Positions : tracker'[p].conns = IF p = pos[l] THEN tracker[p].conns + 1
                                                       ELSE tracker[p].conns
           /\ Bounded'
<1>1. /\ pos[l] \in Positions
      /\ \A p \in Positions : tracker[p] \in Trackers
  BY DEF IInv, TypeOK, Uses
<1>2. l \in Passed(pos[l])
  BY DEF Passed
<1>3. Cardinality(Passed(pos[l])) > 0
  BY <1>2, PassedFinite, FS_EmptySet
<1>4. tracker[pos[l]].conns \in Nat /\ tracker[pos[l]].conns + 1 < CountMod
  BY <1>1, <1>3, Constants, PassedFinite DEF IInv, Bounded, Trackers
<1>5. (tracker[pos[l]].conns + 1) % CountMod = tracker[pos[l]].conns + 1
  BY <1>4, Constants
<1>6. tracker' = [tracker EXCEPT ![pos[l]] = Counted(tracker[pos[l]])]
  BY DEF Count
<1>7. \A p \in Positions : tracker'[p].conns = IF p = pos[l] THEN tracker[p].conns + 1
                                               ELSE tracker[p].conns
  <2>1. ASSUME NEW p \in Positions, p = pos[l] PROVE tracker'[p].conns = tracker[p].conns + 1
    <3>1. tracker'[p] = Counted(tracker[p])
      BY <1>1, <1>6, <2>1 DEF IInv, TypeOK
    <3>2. tracker'[p].conns = (tracker[p].conns + 1) % CountMod
      BY <3>1 DEF Counted
    <3>3. QED BY <1>5, <2>1, <3>2
  <2>2. ASSUME NEW p \in Positions, p # pos[l] PROVE tracker'[p].conns = tracker[p].conns
    BY <1>6, <2>2 DEF IInv, TypeOK
  <2>3. QED BY <2>1, <2>2
<1>8. ASSUME NEW p \in Positions
      PROVE  tracker'[p].conns + Cardinality(Passed(p)') < Max + Cardinality(Lcores)
  <2>1. /\ tracker[p].conns \in Nat
        /\ tracker[p].conns + Cardinality(Passed(p)) < Max + Cardinality(Lcores)
    BY <1>1 DEF IInv, Bounded, Trackers
  <2>2. CASE p = pos[l]
    <3>1. Passed(p)' = Passed(p) \ {l}
      BY <2>2 DEF Passed, Count, Goto, IInv, TypeOK
    <3>2. Cardinality(Passed(p)') = Cardinality(Passed(p)) - 1
      BY <1>2, <2>2, <3>1, PassedFinite, FS_RemoveElement
    <3>3. QED BY <1>7, <2>1, <2>2, <3>2, PassedFinite, Constants
  <2>3. CASE p # pos[l]
    <3>1. Passed(p)' = Passed(p)
      BY <2>3 DEF Passed, Count, Goto, IInv, TypeOK
    <3>2. QED BY <1>7, <2>1, <2>3, <3>1
  <2>4. QED BY <2>2, <2>3
<1>9. QED BY <1>7, <1>8 DEF Bounded

-----------------------------------------------------------------------------
(* What the steps have in common.                                          *)

\* A tracker in use is not one the hash may hand out.
LEMMA UserPlace ==
    ASSUME IInv, NEW l \in Lcores, Uses(l)
    PROVE  /\ pos[l] \in Positions \ free_slots /\ ip[l] \in IPs
           /\ tracker[pos[l]] \in Trackers
<1>1. pos[l] \in Positions /\ ip[l] \in IPs
  BY DEF IInv, TypeOK, Registers, Uses
<1>2. UserSafe(l)
  BY DEF IInv, UsersSafe
<1>3. pos[l] \notin free_slots
  BY <1>1, <1>2 DEF UserSafe, IInv, Places
<1>4. QED BY <1>1, <1>3 DEF IInv, TypeOK

\* A step on the tracker an lcore uses leaves every place as it was.
LEMMA OneTracker ==
    ASSUME IInv, NEW l \in Lcores, Uses(l), NEW t \in Trackers,
           tracker' = [tracker EXCEPT ![pos[l]] = t], UNCHANGED <<tableVars, cleanupVars>>
    PROVE  /\ tracker' \in [Positions -> Trackers]
           /\ \A p \in Positions : tracker'[p] = IF p = pos[l] THEN t ELSE tracker[p]
           /\ Places'
<1>1. pos[l] \in Positions /\ pos[l] \notin free_slots
  BY UserPlace
<1>2. tracker \in [Positions -> Trackers] /\ free_slots \subseteq Positions
  BY DEF IInv, TypeOK
<1>3. \A p \in Positions : tracker'[p] = IF p = pos[l] THEN t ELSE tracker[p]
  BY <1>1, <1>2
<1>4. Places'
  BY <1>1, <1>2, <1>3 DEF IInv, Places, tableVars, cleanupVars
<1>5. QED BY <1>2, <1>3, <1>4

LEMMA SamePlaces ==
    ASSUME IInv, UNCHANGED <<tableVars, tracker, cleanupVars>>
    PROVE  tracker' \in [Positions -> Trackers] /\ Places'
BY DEF IInv, TypeOK, Places, tableVars, cleanupVars

LEMMA SameUsers ==
    ASSUME IInv, UNCHANGED <<tableVars, cleanupVars>>,
           \A l \in Lcores : Uses(l)' => Uses(l) /\ pos'[l] = pos[l] /\ ip'[l] = ip[l]
    PROVE  UsersSafe'
BY DEF IInv, UsersSafe, UserSafe, tableVars, cleanupVars
-----------------------------------------------------------------------------
(* The steps of a check.                                                   *)

LEMMA CheckKeeps ==
    ASSUME IInv, NEW l \in Lcores, NEW i \in IPs, Check(l, i)
    PROVE  IInv'
<1> USE DEF Check, Goto
<1>1. tracker' \in [Positions -> Trackers] /\ Places'
  BY SamePlaces
<1>2. TypeOK'
  BY <1>1, Constants DEF IInv, TypeOK, Uses, Labels, Times, tableVars, cleanupVars
<1>3. Registers'
  BY Constants DEF IInv, TypeOK, Registers
<1>4. UsersSafe'
  BY DEF IInv, TypeOK, UsersSafe, UserSafe, Uses, tableVars, cleanupVars
<1>5. Bounded'
  <2>1. \A p \in Positions : Passed(p)' \subseteq Passed(p)
    BY DEF IInv, TypeOK, Passed
  <2>2. QED BY <1>1, <2>1, BoundKept DEF IInv, TypeOK, Trackers
<1>6. QED BY <1>1, <1>2, <1>3, <1>4, <1>5 DEF IInv

LEMMA AddedByAnotherKeeps ==
    ASSUME IInv, NEW l \in Lcores, AddedByAnother(l)
    PROVE  IInv'
<1> USE DEF AddedByAnother, Goto
<1>1. tracker' \in [Positions -> Trackers] /\ Places'
  BY SamePlaces
<1>2. TypeOK'
  BY <1>1, Constants DEF IInv, TypeOK, Registers, Uses, Labels, Times, tableVars, cleanupVars
<1>3. Registers'
  BY Constants DEF IInv, TypeOK, Registers
<1>4. UsersSafe'
  BY DEF IInv, TypeOK, UsersSafe, UserSafe, Uses, tableVars, cleanupVars
<1>5. Bounded'
  <2>1. \A p \in Positions : Passed(p)' \subseteq Passed(p)
    BY DEF IInv, TypeOK, Passed
  <2>2. QED BY <1>1, <2>1, BoundKept DEF IInv, TypeOK, Trackers
<1>6. QED BY <1>1, <1>2, <1>3, <1>4, <1>5 DEF IInv

LEMMA OpenWindowKeeps ==
    ASSUME IInv, NEW l \in Lcores, OpenWindow(l)
    PROVE  IInv'
<1> DEFINE t == [tracker[pos[l]] EXCEPT !.start = IF @ = 0 THEN clock[l] ELSE @]
<1>1. Uses(l) /\ clock[l] \in Times /\ tracker[pos[l]] \in Trackers
  BY UserPlace DEF OpenWindow, Uses, IInv, TypeOK
<1>2. t \in Trackers /\ t.conns = tracker[pos[l]].conns
  BY <1>1 DEF Trackers
<1>3. tracker' = [tracker EXCEPT ![pos[l]] = t] /\ UNCHANGED <<tableVars, cleanupVars>>
  BY <1>1, UserPlace DEF OpenWindow, IInv, TypeOK
<1> HIDE DEF t
<1>4. /\ tracker' \in [Positions -> Trackers] /\ Places'
      /\ \A p \in Positions : tracker'[p] = IF p = pos[l] THEN t ELSE tracker[p]
  BY <1>1, <1>2, <1>3, OneTracker
<1>5. TypeOK'
  BY <1>4, Constants DEF OpenWindow, Goto, IInv, TypeOK, Uses, Labels, tableVars, cleanupVars
<1>6. Registers'
  BY DEF OpenWindow, Goto, IInv, TypeOK, Registers
<1>7. UsersSafe'
  BY <1>1, <1>3, SameUsers DEF OpenWindow, Goto, Uses, IInv, TypeOK
<1>8. Bounded'
  <2>1. \A p \in Positions : Passed(p)' \subseteq Passed(p)
    BY DEF IInv, TypeOK, Passed, OpenWindow, Goto
  <2>2. \A p \in Positions : tracker'[p].conns = tracker[p].conns
    BY <1>2, <1>4
  <2>3. QED BY <1>4, <2>1, <2>2, BoundKept DEF IInv, TypeOK, Trackers
<1>9. QED BY <1>4, <1>5, <1>6, <1>7, <1>8 DEF IInv

LEMMA LoadStartKeeps ==
    ASSUME IInv, NEW l \in Lcores, LoadStart(l)
    PROVE  IInv'
<1> USE DEF LoadStart, Goto
<1>1. tracker' \in [Positions -> Trackers] /\ Places'
  BY SamePlaces
<1>2. Uses(l) /\ tracker[pos[l]].start \in Times /\ clock[l] \in Times
  BY UserPlace DEF Uses, Trackers, IInv, TypeOK
<1>3. TypeOK'
  BY <1>1, <1>2, Constants DEF IInv, TypeOK, Uses, Labels, tableVars, cleanupVars
<1>4. Registers'
  BY <1>2, Constants DEF IInv, TypeOK, Registers, WindowOver
<1>5. UsersSafe'
  BY <1>2, SameUsers DEF Uses, IInv, TypeOK
<1>6. Bounded'
  <2>1. \A p \in Positions : Passed(p)' \subseteq Passed(p)
    BY DEF IInv, TypeOK, Passed
  <2>2. QED BY <1>1, <2>1, BoundKept DEF IInv, TypeOK, Trackers
<1>7. QED BY <1>1, <1>3, <1>4, <1>5, <1>6 DEF IInv

LEMMA SwapStartKeeps ==
    ASSUME IInv, NEW l \in Lcores, SwapStart(l)
    PROVE  IInv'
<1>1. Uses(l) /\ clock[l] \in Times /\ tracker[pos[l]] \in Trackers
  BY UserPlace DEF SwapStart, Uses, IInv, TypeOK
<1>2. PICK t \in Trackers : /\ t.conns = tracker[pos[l]].conns
                            /\ tracker' = [tracker EXCEPT ![pos[l]] = t]
  <2>1. CASE tracker[pos[l]].start = seen_start[l]
    <3>1. [tracker[pos[l]] EXCEPT !.start = clock[l]] \in Trackers
      BY <1>1 DEF Trackers
    <3>2. [tracker[pos[l]] EXCEPT !.start = clock[l]].conns = tracker[pos[l]].conns
      BY <1>1 DEF Trackers
    <3>3. tracker' = [tracker EXCEPT ![pos[l]] = [tracker[pos[l]] EXCEPT !.start = clock[l]]]
      BY <1>1, <2>1, UserPlace DEF SwapStart, IInv, TypeOK
    <3>4. QED BY <3>1, <3>2, <3>3
  <2>2. CASE tracker[pos[l]].start # seen_start[l]
    BY <1>1, <2>2, UserPlace DEF SwapStart, IInv, TypeOK
  <2>3. QED BY <2>1, <2>2
<1>3. UNCHANGED <<tableVars, cleanupVars>>
  BY DEF SwapStart
<1>4. /\ tracker' \in [Positions -> Trackers] /\ Places'
      /\ \A p \in Positions : tracker'[p] = IF p = pos[l] THEN t ELSE tracker[p]
  BY <1>1, <1>2, <1>3, OneTracker
<1>5. TypeOK'
  BY <1>1, <1>4, Constants
     DEF SwapStart, Goto, IInv, TypeOK, Uses, Labels, Times, tableVars, cleanupVars
<1>6. Registers'
  BY DEF SwapStart, Goto, IInv, TypeOK, Registers
<1>7. UsersSafe'
  BY <1>1, <1>3, SameUsers DEF SwapStart, Goto, Uses, IInv, TypeOK
<1>8. Bounded'
  <2>1. \A p \in Positions : Passed(p)' \subseteq Passed(p)
    BY DEF IInv, TypeOK, Passed, SwapStart, Goto
  <2>2. \A p \in Positions : tracker'[p].conns = tracker[p].conns
    BY <1>2, <1>4
  <2>3. QED BY <1>4, <2>1, <2>2, BoundKept DEF IInv, TypeOK, Trackers
<1>9. QED BY <1>4, <1>5, <1>6, <1>7, <1>8 DEF IInv

LEMMA ZeroWindowKeeps ==
    ASSUME IInv, NEW l \in Lcores, ZeroWindow(l)
    PROVE  IInv'
<1> DEFINE t == [tracker[pos[l]] EXCEPT !.conns = 0]
<1>1. Uses(l) /\ tracker[pos[l]] \in Trackers
  BY UserPlace DEF ZeroWindow, Uses, IInv, TypeOK
<1>2. t \in Trackers /\ t.conns = 0
  BY <1>1, Constants DEF Trackers
<1>3. tracker' = [tracker EXCEPT ![pos[l]] = t] /\ UNCHANGED <<tableVars, cleanupVars>>
  BY <1>1, UserPlace DEF ZeroWindow, IInv, TypeOK
<1> HIDE DEF t
<1>4. /\ tracker' \in [Positions -> Trackers] /\ Places'
      /\ \A p \in Positions : tracker'[p] = IF p = pos[l] THEN t ELSE tracker[p]
  BY <1>1, <1>2, <1>3, OneTracker
<1>5. TypeOK'
  BY <1>4, Constants DEF ZeroWindow, Goto, IInv, TypeOK, Uses, Labels, tableVars, cleanupVars
<1>6. Registers'
  BY DEF ZeroWindow, Goto, IInv, TypeOK, Registers
<1>7. UsersSafe'
  BY <1>1, <1>3, SameUsers DEF ZeroWindow, Goto, Uses, IInv, TypeOK
<1>8. Bounded'
  <2>1. \A p \in Positions : Passed(p)' \subseteq Passed(p)
    BY DEF IInv, TypeOK, Passed, ZeroWindow, Goto
  <2>2. \A p \in Positions : tracker'[p].conns <= tracker[p].conns
    BY <1>2, <1>4 DEF IInv, TypeOK, Trackers
  <2>3. QED BY <1>4, <2>1, <2>2, BoundKept
<1>9. QED BY <1>4, <1>5, <1>6, <1>7, <1>8 DEF IInv

LEMMA TestLimitKeeps ==
    ASSUME IInv, NEW l \in Lcores, TestLimit(l)
    PROVE  IInv'
<1>1. tracker' \in [Positions -> Trackers] /\ Places'
  BY SamePlaces DEF TestLimit
<1>2. Uses(l) /\ tracker[pos[l]] \in Trackers
  BY UserPlace DEF TestLimit, Uses
<1>3. TypeOK'
  BY <1>1, <1>2, Constants
     DEF TestLimit, Return, Goto, IInv, TypeOK, Uses, Labels, Times, tableVars, cleanupVars
<1>4. Registers'
  BY Constants DEF TestLimit, Return, Goto, IInv, TypeOK, Registers
<1>5. UsersSafe'
  BY <1>2, SameUsers DEF TestLimit, Return, Goto, Uses, IInv, TypeOK
<1>6. Bounded'
  <2>1. ASSUME NEW p \in Positions
        PROVE  \/ tracker'[p].conns <= tracker[p].conns /\ Passed(p)' \subseteq Passed(p)
               \/ tracker'[p].conns < Max
    <3>1. tracker'[p] = tracker[p] /\ tracker[p].conns \in Nat
      BY DEF TestLimit, IInv, TypeOK, Trackers
    <3>2. CASE AtLimit(tracker[pos[l]].conns) \/ p # pos[l]
      BY <3>1, <3>2 DEF TestLimit, Return, Goto, Passed, IInv, TypeOK
    <3>3. CASE ~AtLimit(tracker[pos[l]].conns) /\ p = pos[l]
      BY <3>1, <3>3, Constants DEF AtLimit
    <3>4. QED BY <3>2, <3>3
  <2>2. QED BY <1>1, <2>1, BoundKept
<1>7. QED BY <1>1, <1>3, <1>4, <1>5, <1>6 DEF IInv

LEMMA CountKeeps ==
    ASSUME IInv, NEW l \in Lcores, Count(l)
    PROVE  IInv'
<1>1. Uses(l) /\ tracker[pos[l]] \in Trackers
  BY UserPlace DEF Count, Uses
<1>2. Counted(tracker[pos[l]]) \in Trackers
  BY <1>1, Constants DEF Counted, Trackers
<1>3. /\ tracker' = [tracker EXCEPT ![pos[l]] = Counted(tracker[pos[l]])]
      /\ UNCHANGED <<tableVars, cleanupVars>>
  BY DEF Count
<1>4. tracker' \in [Positions -> Trackers] /\ Places'
  BY <1>1, <1>2, <1>3, OneTracker
<1>5. TypeOK'
  BY <1>4, Constants DEF Count, Goto, IInv, TypeOK, Uses, Labels, tableVars, cleanupVars
<1>6. Registers'
  BY DEF Count, Goto, IInv, TypeOK, Registers
<1>7. UsersSafe'
  BY <1>1, <1>3, SameUsers DEF Count, Goto, Uses, IInv, TypeOK
<1>8. Bounded'
  BY BoundCount DEF Count
<1>9. QED BY <1>4, <1>5, <1>6, <1>7, <1>8 DEF IInv

LEMMA StampKeeps ==
    ASSUME IInv, NEW l \in Lcores, Stamp(l)
    PROVE  IInv'
<1> DEFINE t == [tracker[pos[l]] EXCEPT !.update = clock[l]]
<1>1. Uses(l) /\ clock[l] \in Times /\ tracker[pos[l]] \in Trackers
  BY UserPlace DEF Stamp, Uses, IInv, TypeOK
<1>2. t \in Trackers /\ t.conns = tracker[pos[l]].conns
  BY <1>1 DEF Trackers
<1>3. tracker' = [tracker EXCEPT ![pos[l]] = t] /\ UNCHANGED <<tableVars, cleanupVars>>
  BY <1>1, UserPlace DEF Stamp, IInv, TypeOK
<1> HIDE DEF t
<1>4. /\ tracker' \in [Positions -> Trackers] /\ Places'
      /\ \A p \in Positions : tracker'[p] = IF p = pos[l] THEN t ELSE tracker[p]
  BY <1>1, <1>2, <1>3, OneTracker
<1>5. TypeOK'
  BY <1>4, Constants
     DEF Stamp, Return, Goto, IInv, TypeOK, Uses, Labels, Times, tableVars, cleanupVars
<1>6. Registers'
  BY DEF Stamp, Return, Goto, IInv, TypeOK, Registers
<1>7. UsersSafe'
  BY <1>1, <1>3, SameUsers DEF Stamp, Return, Goto, Uses, IInv, TypeOK
<1>8. Bounded'
  <2>1. \A p \in Positions : Passed(p)' \subseteq Passed(p)
    BY DEF IInv, TypeOK, Passed, Stamp, Return, Goto
  <2>2. \A p \in Positions : tracker'[p].conns = tracker[p].conns
    BY <1>2, <1>4
  <2>3. QED BY <1>4, <2>1, <2>2, BoundKept DEF IInv, TypeOK, Trackers
<1>9. QED BY <1>4, <1>5, <1>6, <1>7, <1>8 DEF IInv
-----------------------------------------------------------------------------
(* Adding a source.                                                        *)

\* The positions a reclamation takes back are used by no lcore, and it leaves
\* every position the hash may hand out with a clear tracker.
LEMMA Reclaims ==
    ASSUME IInv, NEW P \in SUBSET Ready, NEW f, Reclaimed(P, f, limbo', tracker')
    PROVE  /\ f = free_slots \cup P /\ limbo' = limbo \ P /\ P \subseteq limbo
           /\ tracker' \in [Positions -> Trackers]
           /\ \A p \in Positions : tracker'[p] = IF p \in P THEN Clear ELSE tracker[p]
           /\ \A p \in f : p \in Positions /\ tracker'[p] = Clear
           /\ \A l \in Lcores : Uses(l) =>
                 /\ pos[l] \notin f
                 /\ \/ conn_hash[ip[l]] = pos[l]
                    \/ pos[l] \in retired
                    \/ pos[l] \in limbo' /\ l \in waits[pos[l]]
<1>1. f = free_slots \cup P /\ limbo' = limbo \ P /\ P \subseteq limbo
  BY DEF Reclaimed, Ready
<1>2. Clear \in Trackers
  BY Constants DEF Clear, Trackers, Times
<1>3. /\ tracker' \in [Positions -> Trackers]
      /\ \A p \in Positions : tracker'[p] = IF p \in P THEN Clear ELSE tracker[p]
  BY <1>2 DEF Reclaimed, IInv, TypeOK
<1>4. \A p \in f : p \in Positions /\ tracker'[p] = Clear
  BY <1>1, <1>3 DEF IInv, TypeOK, Places
<1>5. ASSUME NEW l \in Lcores, Uses(l)
      PROVE  /\ pos[l] \notin f
             /\ \/ conn_hash[ip[l]] = pos[l]
                \/ pos[l] \in retired
                \/ pos[l] \in limbo' /\ l \in waits[pos[l]]
  <2>1. pos[l] \in Positions \ free_slots /\ ip[l] \in IPs /\ UserSafe(l)
    BY <1>5, UserPlace DEF IInv, UsersSafe
  <2>2. CASE conn_hash[ip[l]] = pos[l]
    BY <1>1, <2>1, <2>2 DEF IInv, Places
  <2>3. CASE pos[l] \in retired
    BY <1>1, <2>1, <2>3 DEF IInv, Places
  <2>4. CASE pos[l] \in limbo /\ l \in waits[pos[l]]
    BY <1>1, <2>1, <2>4 DEF Ready
  <2>5. QED BY <2>1, <2>2, <2>3, <2>4 DEF UserSafe
<1>6. QED BY <1>1, <1>3, <1>4, <1>5

\* Taken back positions P, the add takes its position from f, or fails.
LEMMA AddKeySteps ==
    ASSUME IInv, NEW l \in Lcores, AddKey(l)
    PROVE  \E P \in SUBSET Ready, f \in {free_slots \cup Q : Q \in SUBSET Ready} :
            /\ Reclaimed(P, f, limbo', tracker')
            /\ \/ AddAt(l, f)
               \/ /\ Return(l) /\ free_slots' = f
                  /\ UNCHANGED <<conn_hash, waits, conn_wlock, cleanupVars, now>>
<1>1. CASE AddAt(l, free_slots) /\ UNCHANGED <<limbo, tracker>>
  <2>1. Reclaimed({}, free_slots, limbo', tracker')
    BY <1>1 DEF Reclaimed, IInv, TypeOK
  <2>2. free_slots \in {free_slots \cup Q : Q \in SUBSET Ready}
    BY free_slots \cup {} = free_slots, {} \in SUBSET Ready
  <2>3. QED BY <1>1, <2>1, <2>2
<1>2. CASE \E P \in Batches(ReclaimAddMax) \ {{}} :
              \E f \in {free_slots \cup P} :
                 /\ Reclaimed(P, f, limbo', tracker')
                 /\ \/ AddAt(l, f)
                    \/ /\ Return(l) /\ free_slots' = f
                       /\ UNCHANGED <<conn_hash, waits, conn_wlock, cleanupVars, now>>
  BY <1>2 DEF Batches
<1>3. CASE /\ Ready = {} /\ Return(l)
           /\ UNCHANGED <<tableVars, tracker, conn_wlock, cleanupVars, now>>
  <2>1. Reclaimed({}, free_slots, limbo', tracker')
    BY <1>3 DEF Reclaimed, IInv, TypeOK, tableVars
  <2>2. free_slots \in {free_slots \cup Q : Q \in SUBSET Ready}
    BY free_slots \cup {} = free_slots, {} \in SUBSET Ready
  <2>3. QED BY <1>3, <2>1, <2>2 DEF tableVars
<1>4. QED BY <1>1, <1>2, <1>3 DEF AddKey

LEMMA AddKeyKeeps ==
    ASSUME IInv, NEW l \in Lcores, AddKey(l)
    PROVE  IInv'
<1>1. PICK P \in SUBSET Ready, f \in {free_slots \cup Q : Q \in SUBSET Ready} :
        /\ Reclaimed(P, f, limbo', tracker')
        /\ \/ AddAt(l, f)
           \/ /\ Return(l) /\ free_slots' = f
              /\ UNCHANGED <<conn_hash, waits, conn_wlock, cleanupVars, now>>
  BY AddKeySteps
<1>2. /\ f = free_slots \cup P /\ limbo' = limbo \ P /\ P \subseteq limbo
      /\ tracker' \in [Positions -> Trackers]
      /\ \A p \in Positions : tracker'[p] = IF p \in P THEN Clear ELSE tracker[p]
      /\ \A p \in f : p \in Positions /\ tracker'[p] = Clear
  BY <1>1, Reclaims
<1>3. ASSUME NEW m \in Lcores, Uses(m)
      PROVE  /\ pos[m] \notin f
             /\ \/ conn_hash[ip[m]] = pos[m]
                \/ pos[m] \in retired
                \/ pos[m] \in limbo' /\ m \in waits[pos[m]]
  BY <1>1, <1>3, Reclaims
<1>4. /\ pc[l] = "missed" /\ conn_wlock = None /\ conn_hash[ip[l]] = None
      /\ ip[l] \in IPs /\ pos[l] = None /\ checked = None
  BY Constants DEF AddKey, IInv, TypeOK, Registers, Uses
<1>5. \A p \in Positions : tracker'[p].conns <= tracker[p].conns
  BY <1>2, Constants DEF IInv, TypeOK, Trackers, Clear
<1>6. CASE AddAt(l, f)
  <2>1. PICK p \in f :
          /\ conn_hash' = [conn_hash EXCEPT ![ip[l]] = p] /\ free_slots' = f \ {p}
          /\ pos' = [pos EXCEPT ![l] = p] /\ conn_wlock' = l /\ Goto(l, "open")
          /\ UNCHANGED <<waits, ip, clock, seen_start, cleanupVars, now>>
    BY <1>6 DEF AddAt
  <2>2. p \in Positions /\ p # None /\ tracker'[p] = Clear
    BY <1>2, <2>1, Constants
  <2>3. TypeOK'
    BY <1>2, <1>4, <2>1, <2>2, Constants
       DEF Goto, IInv, TypeOK, Uses, Labels, Times, cleanupVars
  <2>4. Registers'
    BY <1>4, <2>1 DEF Goto, IInv, TypeOK, Registers
  <2>5. Places'
    BY <1>2, <1>4, <2>1, <2>2 DEF IInv, TypeOK, Places, cleanupVars
  <2>6. UsersSafe'
    <3>1. ASSUME NEW m \in Lcores, Uses(m)' PROVE UserSafe(m)'
      <4>1. CASE m = l
        BY <1>4, <2>1, <4>1 DEF UserSafe, IInv, TypeOK
      <4>2. CASE m # l
        <5>1. Uses(m) /\ pos'[m] = pos[m] /\ ip'[m] = ip[m]
          BY <2>1, <3>1, <4>2 DEF Goto, Uses, IInv, TypeOK
        <5>2. pos[m] # None /\ ip[m] \in IPs
          BY <5>1, UserPlace, Constants
        <5>3. conn_hash[ip[m]] = pos[m] => conn_hash'[ip[m]] = pos[m]
          BY <1>4, <2>1, <5>2 DEF IInv, TypeOK
        <5>4. QED BY <1>3, <2>1, <5>1, <5>3 DEF UserSafe, cleanupVars
      <4>3. QED BY <4>1, <4>2
    <3>2. QED BY <3>1 DEF UsersSafe
  <2>7. Bounded'
    <3>1. ASSUME NEW q \in Positions, q # p PROVE Passed(q)' \subseteq Passed(q)
      BY <2>1, <3>1 DEF Goto, Passed, IInv, TypeOK
    <3>2. tracker'[p].conns < Max
      BY <2>2, Constants DEF Clear
    <3>3. QED BY <1>2, <1>5, <3>1, <3>2, BoundKept
  <2>8. QED BY <2>3, <2>4, <2>5, <2>6, <2>7 DEF IInv
<1>7. CASE /\ Return(l) /\ free_slots' = f
           /\ UNCHANGED <<conn_hash, waits, conn_wlock, cleanupVars, now>>
  <2>1. TypeOK'
    BY <1>2, <1>4, <1>7, Constants
       DEF Return, Goto, IInv, TypeOK, Uses, Labels, Times, cleanupVars
  <2>2. Registers'
    BY <1>4, <1>7 DEF Return, Goto, IInv, TypeOK, Registers
  <2>3. Places'
    BY <1>2, <1>4, <1>7 DEF IInv, TypeOK, Places, cleanupVars
  <2>4. UsersSafe'
    <3>1. ASSUME NEW m \in Lcores, Uses(m)' PROVE UserSafe(m)'
      <4>1. Uses(m) /\ pos'[m] = pos[m] /\ ip'[m] = ip[m]
        BY <1>7, <3>1 DEF Return, Goto, Uses, IInv, TypeOK
      <4>2. QED BY <1>3, <1>7, <4>1 DEF UserSafe, cleanupVars
    <3>2. QED BY <3>1 DEF UsersSafe
  <2>5. Bounded'
    <3>1. \A q \in Positions : Passed(q)' \subseteq Passed(q)
      BY <1>7 DEF Return, Goto, Passed, IInv, TypeOK
    <3>2. QED BY <1>2, <1>5, <3>1, BoundKept
  <2>6. QED BY <2>1, <2>2, <2>3, <2>4, <2>5 DEF IInv
<1>8. QED BY <1>1, <1>6, <1>7
-----------------------------------------------------------------------------
(* The other steps of an lcore, and the clock.                             *)

LEMMA ReportKeeps ==
    ASSUME IInv, NEW l \in Lcores, NEW i \in IPs, Report(l, i)
    PROVE  IInv'
<1> USE DEF Report, Goto
<1>1. tracker' \in [Positions -> Trackers] /\ Places'
  BY SamePlaces
<1>2. TypeOK'
  BY <1>1, Constants DEF IInv, TypeOK, Uses, Labels, Times, tableVars, cleanupVars
<1>3. Registers'
  BY DEF IInv, TypeOK, Registers
<1>4. UsersSafe'
  BY DEF IInv, TypeOK, UsersSafe, UserSafe, Uses, tableVars, cleanupVars
<1>5. Bounded'
  <2>1. \A p \in Positions : Passed(p)' \subseteq Passed(p)
    BY DEF IInv, TypeOK, Passed
  <2>2. QED BY <1>1, <2>1, BoundKept DEF IInv, TypeOK, Trackers
<1>6. QED BY <1>1, <1>2, <1>3, <1>4, <1>5 DEF IInv

LEMMA CloseActiveKeeps ==
    ASSUME IInv, NEW l \in Lcores, CloseActive(l)
    PROVE  IInv'
<1> DEFINE t == [tracker[pos[l]] EXCEPT !.active = (@ - 1) % CountMod]
<1>1. Uses(l) /\ tracker[pos[l]] \in Trackers
  BY UserPlace DEF CloseActive, Uses
<1>2. t \in Trackers /\ t.conns = tracker[pos[l]].conns
  <2>1. (tracker[pos[l]].active - 1) % CountMod \in 0 .. CountMod - 1
    BY <1>1, Constants DEF Trackers
  <2>2. QED BY <1>1, <2>1 DEF Trackers
<1>3. tracker' = [tracker EXCEPT ![pos[l]] = t] /\ UNCHANGED <<tableVars, cleanupVars>>
  BY <1>1, UserPlace DEF CloseActive, IInv, TypeOK
<1> HIDE DEF t
<1>4. /\ tracker' \in [Positions -> Trackers] /\ Places'
      /\ \A p \in Positions : tracker'[p] = IF p = pos[l] THEN t ELSE tracker[p]
  BY <1>1, <1>2, <1>3, OneTracker
<1>5. TypeOK'
  BY <1>4, Constants DEF CloseActive, Goto, IInv, TypeOK, Uses, Labels, tableVars, cleanupVars
<1>6. Registers'
  BY DEF CloseActive, Goto, IInv, TypeOK, Registers
<1>7. UsersSafe'
  BY <1>1, <1>3, SameUsers DEF CloseActive, Goto, Uses, IInv, TypeOK
<1>8. Bounded'
  <2>1. \A p \in Positions : Passed(p)' \subseteq Passed(p)
    BY DEF IInv, TypeOK, Passed, CloseActive, Goto
  <2>2. \A p \in Positions : tracker'[p].conns = tracker[p].conns
    BY <1>2, <1>4
  <2>3. QED BY <1>4, <2>1, <2>2, BoundKept DEF IInv, TypeOK, Trackers
<1>9. QED BY <1>4, <1>5, <1>6, <1>7, <1>8 DEF IInv

LEMMA TouchKeeps ==
    ASSUME IInv, NEW l \in Lcores, Touch(l)
    PROVE  IInv'
<1> DEFINE t == [tracker[pos[l]] EXCEPT !.update = now]
<1>1. Uses(l) /\ now \in Times /\ tracker[pos[l]] \in Trackers
  BY UserPlace, Constants DEF Touch, Uses, IInv, TypeOK, Times
<1>2. t \in Trackers /\ t.conns = tracker[pos[l]].conns
  BY <1>1 DEF Trackers
<1>3. tracker' = [tracker EXCEPT ![pos[l]] = t] /\ UNCHANGED <<tableVars, cleanupVars>>
  BY <1>1, UserPlace DEF Touch, IInv, TypeOK
<1> HIDE DEF t
<1>4. /\ tracker' \in [Positions -> Trackers] /\ Places'
      /\ \A p \in Positions : tracker'[p] = IF p = pos[l] THEN t ELSE tracker[p]
  BY <1>1, <1>2, <1>3, OneTracker
<1>5. TypeOK'
  BY <1>4, Constants
     DEF Touch, Return, Goto, IInv, TypeOK, Uses, Labels, Times, tableVars, cleanupVars
<1>6. Registers'
  BY DEF Touch, Return, Goto, IInv, TypeOK, Registers
<1>7. UsersSafe'
  BY <1>1, <1>3, SameUsers DEF Touch, Return, Goto, Uses, IInv, TypeOK
<1>8. Bounded'
  <2>1. \A p \in Positions : Passed(p)' \subseteq Passed(p)
    BY DEF IInv, TypeOK, Passed, Touch, Return, Goto
  <2>2. \A p \in Positions : tracker'[p].conns = tracker[p].conns
    BY <1>2, <1>4
  <2>3. QED BY <1>4, <2>1, <2>2, BoundKept DEF IInv, TypeOK, Trackers
<1>9. QED BY <1>4, <1>5, <1>6, <1>7, <1>8 DEF IInv

\* An lcore that reports holds no tracker: nobody else's grace ends early.
LEMMA QuiesceKeeps ==
    ASSUME IInv, NEW l \in Lcores, Quiesce(l)
    PROVE  IInv'
<1> USE DEF Quiesce
<1>1. TypeOK'
  BY DEF IInv, TypeOK, Uses, checkVars, cleanupVars
<1>2. Registers' /\ Places'
  BY DEF IInv, Registers, Places, checkVars, cleanupVars
<1>3. UsersSafe'
  <2>1. ASSUME NEW m \in Lcores, Uses(m)' PROVE UserSafe(m)'
    <3>1. Uses(m) /\ m # l
      BY <2>1 DEF Uses, checkVars
    <3>2. pos[m] \in Positions
      BY <3>1, UserPlace
    <3>3. m \in waits[pos[m]] => m \in waits'[pos[m]]
      BY <3>1, <3>2
    <3>4. UserSafe(m)
      BY <3>1 DEF IInv, UsersSafe
    <3>5. QED BY <3>3, <3>4 DEF UserSafe, checkVars, cleanupVars
  <2>2. QED BY <2>1 DEF UsersSafe
<1>4. Bounded'
  BY DEF IInv, Bounded, Passed, checkVars
<1>5. QED BY <1>1, <1>2, <1>3, <1>4 DEF IInv

LEMMA StutterKeeps ==
    ASSUME IInv, now' \in Start .. MaxTime,
           UNCHANGED <<tableVars, tracker, conn_wlock, checkVars, cleanupVars>>
    PROVE  IInv'
BY DEF IInv, TypeOK, Registers, Places, UsersSafe, UserSafe, Uses, Bounded, Passed,
       tableVars, checkVars, cleanupVars

-----------------------------------------------------------------------------
(* The steps of the cleanup.                                               *)

\* A reclamation that hands nothing out.
LEMMA ReclaimKeeps ==
    ASSUME IInv, Reclaimed(Ready, free_slots', limbo', tracker'), conn_wlock = None,
           UNCHANGED <<conn_hash, waits, conn_wlock, checkVars, checked, retired>>
    PROVE  /\ tracker' \in [Positions -> Trackers] /\ free_slots' \subseteq Positions
           /\ limbo' \subseteq Positions
           /\ Registers' /\ Places' /\ UsersSafe' /\ Bounded'
<1>1. /\ free_slots' = free_slots \cup Ready /\ limbo' = limbo \ Ready /\ Ready \subseteq limbo
      /\ tracker' \in [Positions -> Trackers]
      /\ \A p \in Positions : tracker'[p] = IF p \in Ready THEN Clear ELSE tracker[p]
      /\ \A p \in free_slots' : p \in Positions /\ tracker'[p] = Clear
  BY Reclaims
<1>2. ASSUME NEW l \in Lcores, Uses(l)
      PROVE  \/ conn_hash[ip[l]] = pos[l]
             \/ pos[l] \in retired
             \/ pos[l] \in limbo' /\ l \in waits[pos[l]]
  BY <1>2, Reclaims
<1>3. Registers'
  BY DEF IInv, Registers, checkVars
<1>4. Places'
  BY <1>1 DEF IInv, TypeOK, Places
<1>5. UsersSafe'
  BY <1>2 DEF UsersSafe, UserSafe, Uses, checkVars
<1>6. Bounded'
  <2>1. \A p \in Positions : Passed(p)' \subseteq Passed(p)
    BY DEF Passed, checkVars
  <2>2. \A p \in Positions : tracker'[p].conns <= tracker[p].conns
    BY <1>1, Constants DEF IInv, TypeOK, Trackers, Clear
  <2>3. QED BY <1>1, <2>1, <2>2, BoundKept
<1>7. QED BY <1>1, <1>3, <1>4, <1>5, <1>6 DEF IInv, TypeOK

LEMMA CleanupScanKeeps ==
    ASSUME IInv, CleanupScan
    PROVE  IInv'
<1>1. /\ tracker' \in [Positions -> Trackers] /\ free_slots' \subseteq Positions
      /\ limbo' \subseteq Positions
      /\ Registers' /\ Places' /\ UsersSafe' /\ Bounded'
  BY ReclaimKeeps DEF CleanupScan
<1>2. to_delete' \subseteq Keys
  BY DEF CleanupScan, Keys, IInv, TypeOK
<1>3. cleanup_clock' \in Times /\ cleanup' \in {"idle", "deletes", "reclaim"}
  BY Constants DEF CleanupScan, IInv, TypeOK, Times
<1>4. TypeOK'
  BY <1>1, <1>2, <1>3 DEF CleanupScan, IInv, TypeOK, Uses, checkVars
<1>5. QED BY <1>1, <1>4 DEF IInv

LEMMA ReclaimAllKeeps ==
    ASSUME IInv, ReclaimAll
    PROVE  IInv'
<1>1. /\ tracker' \in [Positions -> Trackers] /\ free_slots' \subseteq Positions
      /\ limbo' \subseteq Positions
      /\ Registers' /\ Places' /\ UsersSafe' /\ Bounded'
  BY ReclaimKeeps DEF ReclaimAll
<1>2. cleanup_clock' \in Times /\ cleanup' \in {"idle", "deletes", "reclaim"}
  BY Constants DEF ReclaimAll, Times
<1>3. TypeOK'
  BY <1>1, <1>2 DEF ReclaimAll, IInv, TypeOK, Uses, checkVars
<1>4. QED BY <1>1, <1>3 DEF IInv

LEMMA RecheckKeeps ==
    ASSUME IInv, NEW k \in Keys, Recheck(k)
    PROVE  IInv'
<1> USE DEF Recheck
<1>1. TypeOK'
  BY Constants DEF IInv, TypeOK, Uses, tableVars, checkVars
<1>2. Registers' /\ Bounded'
  BY DEF IInv, Registers, Bounded, Passed, checkVars
<1>3. Places'
  BY DEF IInv, Places, StillThere, tableVars
<1>4. UsersSafe'
  BY DEF IInv, UsersSafe, UserSafe, Uses, tableVars, checkVars
<1>5. QED BY <1>1, <1>2, <1>3, <1>4 DEF IInv

LEMMA DeleteKeeps ==
    ASSUME IInv, Delete
    PROVE  IInv'
<1> USE DEF Delete
<1>1. /\ checked \in Keys /\ checked[1] \in IPs /\ checked[2] \in Positions
      /\ conn_hash[checked[1]] = checked[2]
  BY DEF IInv, TypeOK, Keys, Places
<1>2. \A i \in IPs : conn_hash'[i] = IF i = checked[1] THEN None ELSE conn_hash[i]
  BY DEF IInv, TypeOK
<1>3. TypeOK'
  BY <1>1, Constants DEF IInv, TypeOK, Uses, checkVars
<1>4. Registers' /\ Bounded'
  BY DEF IInv, Registers, Bounded, Passed, checkVars
<1>5. Places'
  <2>1. \A i \in IPs : conn_hash'[i] \notin free_slots \cup limbo \cup retired'
    BY <1>1, <1>2, Constants DEF IInv, TypeOK, Places
  <2>2. \A i, j \in IPs : conn_hash'[i] = conn_hash'[j] /\ conn_hash'[i] # None => i = j
    BY <1>2 DEF IInv, Places
  <2>3. free_slots \cap (limbo \cup retired') = {} /\ limbo \cap retired' = {}
    BY <1>1 DEF IInv, Places
  <2>4. QED BY <2>1, <2>2, <2>3 DEF IInv, Places
<1>6. UsersSafe'
  <2>1. ASSUME NEW l \in Lcores, Uses(l)' PROVE UserSafe(l)'
    <3>1. Uses(l) /\ UserSafe(l) /\ ip[l] \in IPs
      BY <2>1, UserPlace DEF Uses, checkVars, IInv, UsersSafe
    <3>2. QED BY <1>1, <1>2, <3>1 DEF UserSafe, checkVars
  <2>2. QED BY <2>1 DEF UsersSafe
<1>7. QED BY <1>3, <1>4, <1>5, <1>6 DEF IInv

\* Every lcore that counts on a position retired now is waited for.
LEMMA RetireKeeps ==
    ASSUME IInv, Retire
    PROVE  IInv'
<1> USE DEF Retire
<1>1. TypeOK'
  BY DEF IInv, TypeOK, WaitsFor, Uses, checkVars
<1>2. Registers' /\ Bounded'
  BY DEF IInv, Registers, Bounded, Passed, checkVars
<1>3. Places'
  BY DEF IInv, Places
<1>4. UsersSafe'
  <2>1. ASSUME NEW l \in Lcores, Uses(l)' PROVE UserSafe(l)'
    <3>1. Uses(l) /\ UserSafe(l) /\ pos[l] \in Positions
      BY <2>1, UserPlace DEF Uses, checkVars, IInv, UsersSafe
    <3>2. QED BY <3>1 DEF UserSafe, WaitsFor, checkVars
  <2>2. QED BY <2>1 DEF UsersSafe
<1>5. QED BY <1>1, <1>2, <1>3, <1>4 DEF IInv
-----------------------------------------------------------------------------
(* The theorems.                                                           *)

LEMMA InitInv == Init => IInv
<1> SUFFICES ASSUME Init PROVE IInv
  OBVIOUS
<1> USE DEF Init
<1>1. Clear \in Trackers /\ Clear.conns = 0
  BY Constants DEF Clear, Trackers, Times
<1>2. TypeOK
  BY <1>1, Constants DEF TypeOK, Uses, Labels, Times
<1>3. Registers /\ Places /\ UsersSafe
  BY Constants DEF Registers, Places, UsersSafe, Uses
<1>4. Bounded
  <2>1. \A p \in Positions : Passed(p) = {}
    BY DEF Passed
  <2>2. Cardinality({}) = 0
    BY FS_EmptySet
  <2>3. \A p \in Positions : tracker[p].conns = 0
    BY <1>1
  <2>4. \A p \in Positions : tracker[p].conns + Cardinality(Passed(p)) = 0
    BY <2>1, <2>2, <2>3
  <2>5. QED BY <2>4, Constants DEF Bounded
<1>5. QED BY <1>2, <1>3, <1>4 DEF IInv

LEMMA NextInv == IInv /\ [Next]_vars => IInv'
<1> SUFFICES ASSUME IInv, [Next]_vars PROVE IInv'
  OBVIOUS
<1>1. ASSUME NEW l \in Lcores, CheckStep(l) PROVE IInv'
  BY <1>1, CheckKeeps, AddedByAnotherKeeps, AddKeyKeeps, OpenWindowKeeps, LoadStartKeeps,
     SwapStartKeeps, ZeroWindowKeeps, TestLimitKeeps, CountKeeps, StampKeeps DEF CheckStep
<1>2. ASSUME NEW l \in Lcores, ReportStep(l) PROVE IInv'
  BY <1>2, ReportKeeps, CloseActiveKeeps, TouchKeeps DEF ReportStep
<1>3. ASSUME NEW l \in Lcores, Quiesce(l) PROVE IInv'
  BY <1>3, QuiesceKeeps
<1>4. CASE CleanupStep
  BY <1>4, CleanupScanKeeps, RecheckKeeps, DeleteKeeps, RetireKeeps, ReclaimAllKeeps
     DEF CleanupStep
<1>5. CASE Tick
  <2>1. now' \in Start .. MaxTime
    BY <1>5, Constants DEF Tick, IInv, TypeOK
  <2>2. QED BY <1>5, <2>1, StutterKeeps DEF Tick
<1>6. CASE UNCHANGED vars
  <2>1. now' \in Start .. MaxTime
    BY <1>6 DEF vars, IInv, TypeOK
  <2>2. QED BY <1>6, <2>1, StutterKeeps DEF vars
<1>7. QED BY <1>1, <1>2, <1>3, <1>4, <1>5, <1>6 DEF Next

LEMMA Inductive == Spec => []IInv
BY InitInv, NextInv, PTL DEF Spec

\* Every variable keeps its type, and the writer's lock and an lcore's
\* registers hold only where the code holds them.
THEOREM TypeCorrect == Spec => []TypeOK
BY Inductive, PTL DEF IInv

\* The tracker an lcore counts on is its own source's, or one nobody has got
\* since, and a position the hash may hand out carries nothing over.
THEOREM OwnTrackerCorrect == Spec => []OwnTracker
<1>1. IInv => OwnTracker
  BY DEF IInv, TypeOK, Places, UsersSafe, UserSafe, OwnTracker, Mapped
<1>2. QED BY <1>1, Inductive, PTL

\* A window is only ever followed by a later one, until its position is taken
\* back.
THEOREM WindowForwardCorrect == Spec => WindowForward
<1> DEFINE Forward == \A p \in Positions : tracker'[p].start # tracker[p].start =>
                         \/ tracker'[p].start > tracker[p].start
                         \/ p \in limbo /\ p \notin limbo'
<1>1. ASSUME IInv, [Next]_vars PROVE Forward
  <2>1. ASSUME NEW l \in Lcores, OpenWindow(l) PROVE Forward
    <3>1. pos[l] \in Positions /\ clock[l] > 0
      BY <1>1, <2>1, UserPlace DEF OpenWindow, Uses, IInv, Registers
    <3>2. \A p \in Positions : tracker'[p].start =
             IF p = pos[l] /\ tracker[p].start = 0 THEN clock[l] ELSE tracker[p].start
      BY <1>1, <2>1, <3>1 DEF OpenWindow, IInv, TypeOK, Trackers
    <3>3. QED BY <3>1, <3>2
  <2>2. ASSUME NEW l \in Lcores, SwapStart(l) PROVE Forward
    <3>1. pos[l] \in Positions /\ clock[l] > seen_start[l]
      BY <1>1, <2>2, UserPlace DEF SwapStart, Uses, IInv, Registers
    <3>2. \A p \in Positions : \/ tracker'[p].start = tracker[p].start
                               \/ tracker[p].start = seen_start[l] /\ tracker'[p].start = clock[l]
      BY <1>1, <2>2, <3>1 DEF SwapStart, IInv, TypeOK, Trackers
    <3>3. QED BY <3>1, <3>2
  <2>3. ASSUME NEW P \in SUBSET Ready, NEW f, Reclaimed(P, f, limbo', tracker') PROVE Forward
    BY <1>1, <2>3, Reclaims
  <2>4. ASSUME NEW l \in Lcores, AddKey(l) PROVE Forward
    <3>1. \/ UNCHANGED tracker
          \/ \E P \in SUBSET Ready, f \in {free_slots \cup Q : Q \in SUBSET Ready} :
                Reclaimed(P, f, limbo', tracker')
      BY <2>4 DEF AddKey, Batches
    <3>2. QED BY <2>3, <3>1
  <2>5. ASSUME CleanupScan \/ ReclaimAll PROVE Forward
    <3>1. Reclaimed(Ready, free_slots', limbo', tracker')
      BY <2>5 DEF CleanupScan, ReclaimAll
    <3>2. QED BY <2>3, <3>1
  <2>6. ASSUME NEW l \in Lcores, ZeroWindow(l) \/ Stamp(l) \/ CloseActive(l) \/ Touch(l)
        PROVE  Forward
    <3>1. pos[l] \in Positions
      BY <1>1, <2>6, UserPlace DEF ZeroWindow, Stamp, CloseActive, Touch, Uses
    <3>2. \A p \in Positions : tracker'[p].start = tracker[p].start
      BY <1>1, <2>6, <3>1
         DEF ZeroWindow, Stamp, CloseActive, Touch, IInv, TypeOK, Trackers
    <3>3. QED BY <3>2
  <2>7. ASSUME NEW l \in Lcores, Count(l) PROVE Forward
    <3>1. pos[l] \in Positions
      BY <1>1, <2>7, UserPlace DEF Count, Uses
    <3>2. \A p \in Positions : tracker'[p].start = tracker[p].start
      BY <1>1, <2>7, <3>1 DEF Count, Counted, IInv, TypeOK, Trackers
    <3>3. QED BY <3>2
  <2>8. ASSUME UNCHANGED tracker PROVE Forward
    BY <2>8
  <2>9. ASSUME NEW l \in Lcores, CheckStep(l) PROVE Forward
    <3>1. \/ OpenWindow(l) \/ SwapStart(l) \/ AddKey(l) \/ ZeroWindow(l) \/ Stamp(l) \/ Count(l)
          \/ UNCHANGED tracker
      BY <2>9 DEF CheckStep, Check, AddedByAnother, LoadStart, TestLimit
    <3> HIDE DEF Forward
    <3>2. QED BY <3>1, <2>1, <2>2, <2>4, <2>6, <2>7, <2>8
  <2>10. ASSUME NEW l \in Lcores, ReportStep(l) \/ Quiesce(l) PROVE Forward
    <3>1. CloseActive(l) \/ Touch(l) \/ UNCHANGED tracker
      BY <2>10 DEF ReportStep, Report, Quiesce
    <3> HIDE DEF Forward
    <3>2. QED BY <3>1, <2>6, <2>8
  <2>11. CASE CleanupStep \/ Tick \/ UNCHANGED vars
    BY <2>5, <2>8, <2>11 DEF CleanupStep, Recheck, Delete, Retire, Tick, vars
  <2>12. QED BY <1>1, <2>9, <2>10, <2>11 DEF Next
<1>2. QED BY <1>1, Inductive, PTL DEF Spec, WindowForward

-----------------------------------------------------------------------------
(* The connections a window admits.                                        *)

\* The lcores that do not hold back a clear of p's window.
Others(p) == {l \in Lcores : ~(pos[l] = p /\ pc[l] = "zero")}

\* Twice what i lcores may admit: Max + (Max + 1) + ... + (Max + i - 1).
Room(i) == i * (2 * Max + i - 1)

\* While o lcores hold back no clear, a window has admitted what the count
\* shows and what o - 1 of them may have had erased; those that passed the
\* test included, no more than o of them may admit.
Admission(a, conns, passed, o) ==
    /\ a \in Nat
    /\ o > 0 => 2 * a <= Room(o - 1) + 2 * conns
    /\ 2 * (a + passed) <= Room(o)

WInv == /\ \A p \in Positions : Admission(admitted[p], tracker[p].conns,
                                   Cardinality(Passed(p)), Cardinality(Others(p)))
        /\ \A p \in free_slots : admitted[p] = 0

LEMMA RoomStep ==
    ASSUME NEW i \in Nat
    PROVE  /\ Room(0) = 0 /\ Room(i) \in Nat /\ 2 * i <= Room(i)
           /\ Room(i + 1) = Room(i) + 2 * Max + 2 * i
<1>1. Max \in Nat /\ Max >= 1
  BY Constants
<1>2. Room(0) = 0
  BY <1>1, SMTT(30) DEF Room
<1>3. Room(i) = i * i + (2 * Max - 1) * i
  BY <1>1, SMTT(30) DEF Room
<1>4. i * i \in Nat /\ (2 * Max - 1) * i \in Nat /\ (2 * Max - 1) * i >= i
  BY <1>1, SMTT(30)
<1>5. i * i >= i
  BY SMTT(30)
<1>6. Room(i + 1) = Room(i) + 2 * Max + 2 * i
  BY <1>1, SMTT(30) DEF Room
<1>7. QED BY <1>2, <1>3, <1>4, <1>5, <1>6

LEMMA RoomGrows ==
    ASSUME NEW i \in Nat, NEW j \in Nat, i <= j
    PROVE  Room(i) <= Room(j)
<1> DEFINE c == 2 * Max - 1
<1>1. Max \in Nat /\ Max >= 1
  BY Constants
<1>2. c \in Nat
  BY <1>1
<1>3. Room(i) = i * i + c * i /\ Room(j) = j * j + c * j
  BY <1>1, SMTT(30) DEF Room
<1> HIDE DEF c
<1>4. i * i <= j * j /\ c * i <= c * j
  BY <1>2, SMTT(30)
<1>5. i * i \in Nat /\ j * j \in Nat /\ c * i \in Nat /\ c * j \in Nat
  BY <1>2, SMTT(30)
<1>6. QED BY <1>3, <1>4, <1>5

LEMMA OthersFinite ==
    ASSUME NEW p
    PROVE  /\ IsFiniteSet(Others(p)) /\ Cardinality(Others(p)) \in Nat
           /\ Cardinality(Others(p)) <= Cardinality(Lcores)
           /\ Passed(p) \subseteq Others(p) /\ Cardinality(Passed(p)) <= Cardinality(Others(p))
<1>1. Others(p) \subseteq Lcores /\ IsFiniteSet(Lcores) /\ Passed(p) \subseteq Others(p)
  BY ConnLimitsAssumption DEF Others, Passed
<1>2. QED BY <1>1, FS_Subset, FS_CardinalityType

LEMMA OthersFiniteNext ==
    ASSUME NEW p
    PROVE  /\ IsFiniteSet(Others(p)') /\ Cardinality(Others(p)') \in Nat
           /\ Cardinality(Passed(p)') <= Cardinality(Others(p)')
<1>1. Others(p)' \subseteq Lcores /\ IsFiniteSet(Lcores) /\ Passed(p)' \subseteq Others(p)'
  BY ConnLimitsAssumption DEF Others, Passed
<1>2. QED BY <1>1, FS_Subset, FS_CardinalityType

\* Nothing is admitted in the present window: whoever has passed the test.
LEMMA Fresh ==
    ASSUME NEW p \in Positions, tracker'[p].conns \in Nat, admitted'[p] = 0
    PROVE  Admission(admitted'[p], tracker'[p].conns, Cardinality(Passed(p)'),
                     Cardinality(Others(p)'))
<1> DEFINE o == Cardinality(Others(p)')  n == Cardinality(Passed(p)')
<1>1. o \in Nat /\ n \in Nat /\ n <= o
  BY OthersFiniteNext, PassedFiniteNext
<1> HIDE DEF o, n
<1>2. 2 * o <= Room(o) /\ (o > 0 => Room(o - 1) \in Nat) /\ Room(o) \in Nat
  <2>1. o > 0 => o - 1 \in Nat
    BY <1>1
  <2>2. QED BY <1>1, <2>1, RoomStep
<1>3. Admission(0, tracker'[p].conns, n, o)
  BY <1>1, <1>2 DEF Admission
<1>4. QED BY <1>3 DEF o, n

\* A step that admits nothing and lets nobody pass.
LEMMA Quiet ==
    ASSUME WInv, NEW p \in Positions, tracker'[p].conns = tracker[p].conns,
           admitted'[p] = admitted[p], Passed(p)' \subseteq Passed(p), Others(p)' = Others(p)
    PROVE  Admission(admitted'[p], tracker'[p].conns, Cardinality(Passed(p)'),
                     Cardinality(Others(p)'))
<1> DEFINE o == Cardinality(Others(p))  n == Cardinality(Passed(p))  m == Cardinality(Passed(p)')
<1>1. n \in Nat /\ m \in Nat /\ m <= n /\ o \in Nat
  BY OthersFinite, PassedFinite, PassedFiniteNext, FS_Subset
<1>2. Admission(admitted[p], tracker[p].conns, n, o)
  BY DEF WInv
<1>3. Cardinality(Others(p)') = o
  OBVIOUS
<1> HIDE DEF o, n, m
<1>4. Room(o) \in Nat
  BY <1>1, RoomStep
<1>5. Admission(admitted[p], tracker[p].conns, m, o)
  BY <1>1, <1>2, <1>4 DEF Admission
<1>6. QED BY <1>3, <1>5 DEF m

\* An lcore passes the test below the limit: it is one of the others.
LEMMA Passes ==
    ASSUME WInv, NEW p \in Positions, tracker[p].conns \in Nat, tracker[p].conns < Max,
           tracker'[p].conns = tracker[p].conns, admitted'[p] = admitted[p],
           Others(p)' = Others(p), Others(p) # {}
    PROVE  Admission(admitted'[p], tracker'[p].conns, Cardinality(Passed(p)'),
                     Cardinality(Others(p)'))
<1> DEFINE o == Cardinality(Others(p))  m == Cardinality(Passed(p)')
<1>1. o \in Nat /\ o > 0
  BY OthersFinite, FS_EmptySet
<1>2. m \in Nat /\ m <= o
  BY PassedFiniteNext, OthersFiniteNext
<1>3. Admission(admitted[p], tracker[p].conns, Cardinality(Passed(p)), o)
  BY DEF WInv
<1>4. Cardinality(Others(p)') = o
  OBVIOUS
<1> HIDE DEF o, m
<1>5. o - 1 \in Nat /\ Room(o - 1) \in Nat /\ Room(o) = Room(o - 1) + 2 * Max + 2 * (o - 1)
  <2>1. o - 1 \in Nat /\ (o - 1) + 1 = o
    BY <1>1
  <2>2. QED BY <2>1, RoomStep
<1>6. admitted[p] \in Nat /\ 2 * admitted[p] <= Room(o - 1) + 2 * tracker[p].conns
  BY <1>1, <1>3 DEF Admission
<1>7. 2 * (admitted[p] + m) <= Room(o)
  BY <1>1, <1>2, <1>5, <1>6, Constants
<1>8. Admission(admitted[p], tracker[p].conns, m, o)
  BY <1>6, <1>7 DEF Admission
<1>9. QED BY <1>4, <1>8 DEF m

\* A connection of one that has passed is counted and admitted.
LEMMA Counts ==
    ASSUME WInv, NEW p \in Positions, NEW l \in Passed(p), tracker[p].conns \in Nat,
           tracker'[p].conns = tracker[p].conns + 1, admitted'[p] = admitted[p] + 1,
           Passed(p)' = Passed(p) \ {l}, Others(p)' = Others(p)
    PROVE  Admission(admitted'[p], tracker'[p].conns, Cardinality(Passed(p)'),
                     Cardinality(Others(p)'))
<1> DEFINE o == Cardinality(Others(p))  n == Cardinality(Passed(p))
<1>1. n \in Nat /\ o \in Nat
  BY OthersFinite, PassedFinite
<1>2. Cardinality(Passed(p)') = n - 1
  BY PassedFinite, FS_RemoveElement
<1>3. Admission(admitted[p], tracker[p].conns, n, o)
  BY DEF WInv
<1>4. Cardinality(Others(p)') = o
  OBVIOUS
<1> HIDE DEF o, n
<1>5. Room(o) \in Nat /\ (o > 0 => Room(o - 1) \in Nat)
  <2>1. o > 0 => o - 1 \in Nat
    BY <1>1
  <2>2. QED BY <1>1, <2>1, RoomStep
<1>6. Admission(admitted[p] + 1, tracker[p].conns + 1, n - 1, o)
  BY <1>1, <1>3, <1>5 DEF Admission
<1>7. QED BY <1>2, <1>4, <1>6

\* A late clear takes place: the lcore is one of the others again.
LEMMA Clears ==
    ASSUME WInv, NEW p \in Positions, NEW l \in Lcores, l \notin Others(p),
           tracker'[p].conns = 0, admitted'[p] = admitted[p],
           Passed(p)' = Passed(p), Others(p)' = Others(p) \cup {l}
    PROVE  Admission(admitted'[p], tracker'[p].conns, Cardinality(Passed(p)'),
                     Cardinality(Others(p)'))
<1> DEFINE o == Cardinality(Others(p))  n == Cardinality(Passed(p))
<1>1. n \in Nat /\ o \in Nat
  BY OthersFinite, PassedFinite
<1>2. Cardinality(Others(p)') = o + 1
  BY OthersFinite, FS_AddElement
<1>3. Admission(admitted[p], tracker[p].conns, n, o)
  BY DEF WInv
<1> HIDE DEF o, n
<1>4. Room(o) \in Nat /\ Room(o + 1) \in Nat /\ Room(o) <= Room(o + 1) /\ (o + 1) - 1 = o
  <2>1. Room(o) \in Nat /\ Room(o + 1) = Room(o) + 2 * Max + 2 * o
    BY <1>1, RoomStep
  <2>2. Max \in Nat /\ 2 * Max + 2 * o \in Nat
    BY <1>1, Constants
  <2>3. (o + 1) - 1 = o
    BY <1>1
  <2>4. /\ Room(o) <= Room(o) + 2 * Max + 2 * o
        /\ Room(o) + 2 * Max + 2 * o \in Nat
    BY <1>1, <2>1, <2>2
  <2>5. QED BY <2>1, <2>3, <2>4
<1>5. Admission(admitted[p], 0, n, o + 1)
  <2>1. admitted[p] \in Nat /\ 2 * (admitted[p] + n) <= Room(o)
    BY <1>3 DEF Admission
  <2>2. 2 * admitted[p] <= Room((o + 1) - 1) + 2 * 0
    BY <1>1, <1>4, <2>1
  <2>3. 2 * (admitted[p] + n) <= Room(o + 1)
    BY <1>1, <1>4, <2>1
  <2>4. QED BY <2>1, <2>2, <2>3 DEF Admission
<1>6. QED BY <1>2, <1>5 DEF n

\* What a step of one lcore does to those that count on a position.
Alone(l) == \A m \in Lcores \ {l} : pc'[m] = pc[m] /\ pos'[m] = pos[m]

LEMMA Moves ==
    ASSUME NEW l \in Lcores, NEW p \in Positions, Alone(l)
    PROVE  /\ ~(pos'[l] = p /\ pc'[l] \in {"open", "count"}) => Passed(p)' = Passed(p) \ {l}
           /\ Passed(p)' \subseteq Passed(p) \cup {l}
           /\ ~(pos'[l] = p /\ pc'[l] = "zero") => Others(p)' = Others(p) \cup {l}
           /\ Admits(p) => pos[l] = p /\ pc[l] = "count" /\ pc'[l] = "stamp"
<1>1. ~(pos'[l] = p /\ pc'[l] \in {"open", "count"}) => Passed(p)' = Passed(p) \ {l}
  BY DEF Passed, Alone
<1>2. ~(pos'[l] = p /\ pc'[l] = "zero") => Others(p)' = Others(p) \cup {l}
  BY DEF Others, Alone
<1>3. Passed(p)' \subseteq Passed(p) \cup {l}
  BY DEF Passed, Alone
<1>4. Admits(p) => pos[l] = p /\ pc[l] = "count" /\ pc'[l] = "stamp"
  BY DEF Admits, Alone
<1>5. QED BY <1>1, <1>2, <1>3, <1>4

\* A step of the cleanup, of the clock or of nothing moves no lcore.
LEMMA Still ==
    ASSUME UNCHANGED checkVars, NEW p
    PROVE  Passed(p)' = Passed(p) /\ Others(p)' = Others(p) /\ ~Admits(p) /\ ~Begins(p)
BY DEF checkVars, Passed, Others, Admits, Begins

\* A position the hash may hand out has admitted nothing.
LEMMA FreeAdmitsNothing ==
    ASSUME IInv, WInv, HistoryNext, NEW p \in free_slots'
    PROVE  p \in Positions => admitted'[p] = 0
<1>1. SUFFICES ASSUME p \in Positions PROVE admitted'[p] = 0
  OBVIOUS
<1>2. free_slots' \ free_slots \subseteq limbo \ limbo'
  <2>1. ASSUME NEW Q \in SUBSET Ready, limbo' = limbo \ Q, free_slots' \subseteq free_slots \cup Q
        PROVE  free_slots' \ free_slots \subseteq limbo \ limbo'
    BY <2>1 DEF Ready
  <2>2. ASSUME NEW l \in Lcores, AddKey(l) PROVE free_slots' \ free_slots \subseteq limbo \ limbo'
    <3>1. PICK P \in SUBSET Ready, f \in {free_slots \cup Q : Q \in SUBSET Ready} :
            /\ Reclaimed(P, f, limbo', tracker')
            /\ AddAt(l, f) \/ free_slots' = f
      BY <2>2, AddKeySteps
    <3>2. free_slots' \subseteq f
      BY <3>1 DEF AddAt
    <3>3. f = free_slots \cup P /\ limbo' = limbo \ P
      BY <3>1 DEF Reclaimed
    <3>4. QED BY <2>1, <3>2, <3>3
  <2>3. CASE CleanupScan \/ ReclaimAll
    <3>1. Ready \in SUBSET Ready /\ free_slots' = free_slots \cup Ready /\ limbo' = limbo \ Ready
      BY <2>3 DEF CleanupScan, ReclaimAll, Reclaimed
    <3>2. QED BY <2>1, <3>1
  <2>4. CASE UNCHANGED free_slots
    BY <2>4
  <2>5. ASSUME NEW l \in Lcores, CheckStep(l) PROVE AddKey(l) \/ UNCHANGED free_slots
    BY <2>5 DEF CheckStep, Check, AddedByAnother, OpenWindow, LoadStart, SwapStart, ZeroWindow,
                TestLimit, Count, Stamp, tableVars
  <2>6. ASSUME NEW l \in Lcores, ReportStep(l) \/ Quiesce(l) PROVE UNCHANGED free_slots
    BY <2>6 DEF ReportStep, Report, CloseActive, Touch, Quiesce, tableVars
  <2>7. CleanupStep \/ Tick => CleanupScan \/ ReclaimAll \/ UNCHANGED free_slots
    BY DEF CleanupStep, Recheck, Delete, Retire, Tick, tableVars
  <2>8. QED BY <2>2, <2>3, <2>4, <2>5, <2>6, <2>7 DEF HistoryNext, Next
<1>3. CASE p \in free_slots
  <2>1. ~Admits(p)
    <3>1. \A l \in Lcores : pc[l] = "count" => pos[l] # p
      BY <1>3, UserPlace DEF Uses
    <3>2. QED BY <3>1 DEF Admits
  <2>2. admitted[p] = 0
    BY <1>3 DEF WInv
  <2>3. QED BY <1>1, <2>1, <2>2 DEF HistoryNext
<1>4. CASE p \notin free_slots
  <2>1. TakenBack(p)
    BY <1>2, <1>4 DEF TakenBack
  <2>2. QED BY <1>1, <2>1 DEF HistoryNext
<1>5. QED BY <1>3, <1>4

LEMMA HistoryInitInv == HistoryInit => WInv
<1> SUFFICES ASSUME HistoryInit PROVE WInv
  OBVIOUS
<1>1. \A p \in Positions : admitted[p] = 0 /\ tracker[p].conns = 0
  BY DEF HistoryInit, Init, Clear
<1>2. free_slots = Positions
  BY DEF HistoryInit, Init
<1>3. ASSUME NEW p \in Positions
      PROVE  Admission(admitted[p], tracker[p].conns, Cardinality(Passed(p)),
                       Cardinality(Others(p)))
  <2> DEFINE o == Cardinality(Others(p))  n == Cardinality(Passed(p))
  <2>1. o \in Nat /\ n \in Nat /\ n <= o
    BY OthersFinite, PassedFinite
  <2> HIDE DEF o, n
  <2>2. 2 * o <= Room(o) /\ (o > 0 => Room(o - 1) \in Nat) /\ Room(o) \in Nat
    <3>1. o > 0 => o - 1 \in Nat
      BY <2>1
    <3>2. QED BY <2>1, <3>1, RoomStep
  <2>3. Admission(0, 0, n, o)
    BY <2>1, <2>2 DEF Admission
  <2>4. QED BY <1>1, <2>3 DEF o, n
<1>4. QED BY <1>1, <1>2, <1>3 DEF WInv

\* A step of the history at one position: it begins a window or is taken back,
\* admits, or neither.
LEMMA AdmittedStep ==
    ASSUME HistoryNext, NEW p \in Positions
    PROVE  /\ Begins(p) \/ TakenBack(p) => admitted'[p] = 0
           /\ ~Begins(p) /\ ~TakenBack(p) /\ ~Admits(p) => admitted'[p] = admitted[p]
           /\ ~Begins(p) /\ ~TakenBack(p) /\ Admits(p) => admitted'[p] = admitted[p] + 1
BY DEF HistoryNext

\* The admission of a position after the step.
Kept(p) == Admission(admitted'[p], tracker'[p].conns, Cardinality(Passed(p)'),
                     Cardinality(Others(p)'))

LEMMA CheckStepAdmits ==
    ASSUME IInv, WInv, IInv', HistoryNext, NEW l \in Lcores, CheckStep(l) \/ ReportStep(l),
           NEW p \in Positions
    PROVE  Kept(p)
<1>1. /\ tracker'[p].conns \in Nat /\ tracker[p].conns \in Nat
      /\ pc \in [Lcores -> Labels] /\ pos \in [Lcores -> Positions \cup {None}]
  BY DEF IInv, TypeOK, Trackers
<1>2. CASE Begins(p) \/ TakenBack(p)
  BY <1>1, <1>2, AdmittedStep, Fresh DEF Kept
<1>3. CASE ~Begins(p) /\ ~TakenBack(p)
  <2>1. CASE AddKey(l)
    <3>1. PICK P \in SUBSET Ready, f \in {free_slots \cup Q : Q \in SUBSET Ready} :
            /\ Reclaimed(P, f, limbo', tracker')
            /\ AddAt(l, f) \/ Return(l)
      BY <2>1, AddKeySteps
    <3>2. pc[l] = "missed" /\ p \notin P /\ tracker'[p] = tracker[p] /\ f = free_slots \cup P
      BY <1>3, <2>1, <3>1 DEF AddKey, TakenBack, Reclaimed, Ready, IInv, TypeOK
    <3>3. Alone(l) /\ (pc'[l] = "idle" \/ (pc'[l] = "open" /\ pos'[l] \in f))
      <4>1. CASE AddAt(l, f)
        BY <1>1, <4>1 DEF AddAt, Goto, Alone
      <4>2. CASE Return(l)
        BY <1>1, <4>2 DEF Return, Goto, Alone
      <4>3. QED BY <3>1, <4>1, <4>2
    <3>4. ~Admits(p) /\ l \in Others(p)
      BY <3>2, <3>3, Moves DEF Others
    <3>5. admitted'[p] = admitted[p]
      BY <1>3, <3>4, AdmittedStep
    <3>6. CASE pos'[l] = p /\ pc'[l] = "open"
      <4>1. p \in free_slots
        BY <3>2, <3>3, <3>6, Constants
      <4>2. admitted'[p] = 0
        BY <3>5, <4>1 DEF WInv
      <4>3. QED BY <1>1, <4>2, Fresh DEF Kept
    <3>7. CASE ~(pos'[l] = p /\ pc'[l] = "open")
      <4>1. Passed(p)' = Passed(p) \ {l} /\ Others(p)' = Others(p) \cup {l}
        BY <3>3, <3>7, Moves
      <4>2. Passed(p)' \subseteq Passed(p) /\ Others(p)' = Others(p)
        BY <3>4, <4>1
      <4>3. QED BY <3>2, <3>5, <4>2, Quiet DEF Kept
    <3>8. QED BY <3>6, <3>7
  <2>2. CASE Count(l) /\ pos[l] = p
    <3>1. Alone(l) /\ pc'[l] = "stamp" /\ pos'[l] = p /\ pc[l] = "count"
      BY <1>1, <2>2 DEF Count, Goto, Alone
    <3>2. /\ Passed(p)' = Passed(p) \ {l} /\ Others(p)' = Others(p) /\ Admits(p)
          /\ l \in Passed(p)
      <4>1. l \in Passed(p) /\ l \in Others(p)
        BY <2>2, <3>1 DEF Passed, Others
      <4>2. /\ Passed(p)' = Passed(p) \ {l} /\ Others(p)' = Others(p) \cup {l}
        BY <2>2, <3>1, Moves
      <4>3. Admits(p)
        BY <2>2, <3>1 DEF Admits
      <4>4. QED BY <4>1, <4>2, <4>3
    <3>3. tracker'[p].conns = tracker[p].conns + 1
      BY <2>2, <3>1, BoundCount
    <3>4. admitted'[p] = admitted[p] + 1
      BY <1>3, <3>2, AdmittedStep
    <3>5. QED BY <1>1, <3>2, <3>3, <3>4, Counts DEF Kept
  <2>3. CASE ZeroWindow(l) /\ pos[l] = p
    <3>1. Alone(l) /\ pc'[l] = "limit" /\ pos'[l] = p /\ pc[l] = "zero"
      BY <1>1, <2>3 DEF ZeroWindow, Goto, Alone
    <3>2. /\ Passed(p)' = Passed(p) /\ Others(p)' = Others(p) \cup {l} /\ ~Admits(p)
          /\ l \notin Others(p)
      <4>1. l \notin Passed(p) /\ l \notin Others(p)
        BY <2>3, <3>1 DEF Passed, Others
      <4>2. /\ Passed(p)' = Passed(p) \ {l} /\ Others(p)' = Others(p) \cup {l}
            /\ ~Admits(p)
        BY <2>3, <3>1, Moves
      <4>3. QED BY <4>1, <4>2
    <3>3. tracker'[p].conns = 0
      BY <2>3 DEF ZeroWindow, IInv, TypeOK, Trackers
    <3>4. admitted'[p] = admitted[p]
      BY <1>3, <3>2, AdmittedStep
    <3>5. QED BY <3>2, <3>3, <3>4, Clears DEF Kept
  <2>4. CASE TestLimit(l) /\ pos[l] = p /\ ~AtLimit(tracker[p].conns)
    <3>1. Alone(l) /\ pc'[l] = "count" /\ pos'[l] = p /\ pc[l] = "limit"
      BY <1>1, <2>4 DEF TestLimit, Goto, Alone
    <3>2. Others(p)' = Others(p) /\ ~Admits(p) /\ l \in Others(p)
      <4>1. l \in Others(p)
        BY <2>4, <3>1 DEF Others
      <4>2. Others(p)' = Others(p) \cup {l} /\ ~Admits(p)
        BY <2>4, <3>1, Moves
      <4>3. QED BY <4>1, <4>2
    <3>3. tracker'[p].conns = tracker[p].conns /\ tracker[p].conns < Max
      BY <1>1, <2>4, Constants DEF TestLimit, AtLimit
    <3>4. admitted'[p] = admitted[p]
      BY <1>3, <3>2, AdmittedStep
    <3>5. QED BY <1>1, <3>2, <3>3, <3>4, Passes DEF Kept
  <2>5. CASE /\ ~AddKey(l) /\ ~(Count(l) /\ pos[l] = p) /\ ~(ZeroWindow(l) /\ pos[l] = p)
             /\ ~(TestLimit(l) /\ pos[l] = p /\ ~AtLimit(tracker[p].conns))
    <3>1. /\ Alone(l)
          /\ pos'[l] = p /\ pc'[l] \in {"open", "count"} => l \in Passed(p)
          /\ pos'[l] = p /\ pc'[l] = "zero" => Begins(p)
          /\ pos[l] = p => pc[l] # "zero" /\ pc[l] # "count"
      <4>1. CASE (\E i \in IPs : Check(l, i) \/ Report(l, i)) \/ AddedByAnother(l)
        BY <1>1, <4>1 DEF Check, Report, AddedByAnother, Goto, Alone
      <4>2. CASE LoadStart(l) \/ TestLimit(l)
        BY <1>1, <2>5, <4>2 DEF LoadStart, TestLimit, Return, Goto, Alone
      <4>3. CASE OpenWindow(l) \/ CloseActive(l) \/ Touch(l) \/ Stamp(l)
        BY <1>1, <4>3 DEF OpenWindow, CloseActive, Touch, Stamp, Return, Goto, Passed, Alone
      <4>4. CASE SwapStart(l)
        BY <1>1, <4>4 DEF SwapStart, Goto, Begins, Alone
      <4>5. CASE ZeroWindow(l) \/ Count(l)
        BY <1>1, <2>5, <4>5 DEF ZeroWindow, Count, Goto, Alone
      <4>6. QED BY <2>5, <4>1, <4>2, <4>3, <4>4, <4>5 DEF CheckStep, ReportStep
    <3>2. Passed(p)' \subseteq Passed(p) /\ Others(p)' = Others(p) /\ ~Admits(p)
      <4>1. /\ ~(pos'[l] = p /\ pc'[l] \in {"open", "count"}) => Passed(p)' = Passed(p) \ {l}
            /\ Passed(p)' \subseteq Passed(p) \cup {l}
            /\ Others(p)' = Others(p) \cup {l}
        BY <1>3, <3>1, Moves
      <4>2. l \in Others(p) /\ ~Admits(p)
        BY <3>1, Moves DEF Others
      <4>3. QED BY <3>1, <4>1, <4>2
    <3>3. tracker'[p].conns = tracker[p].conns
      <4>1. CASE OpenWindow(l) \/ SwapStart(l) \/ Stamp(l) \/ CloseActive(l) \/ Touch(l)
        <5>1. pos[l] \in Positions
          BY <4>1, UserPlace DEF OpenWindow, SwapStart, Stamp, CloseActive, Touch, Uses
        <5>2. QED BY <4>1, <5>1 DEF OpenWindow, SwapStart, Stamp, CloseActive, Touch,
                                    IInv, TypeOK, Trackers
      <4>2. CASE ZeroWindow(l) \/ Count(l)
        BY <2>5, <4>2 DEF ZeroWindow, Count, IInv, TypeOK
      <4>3. CASE UNCHANGED tracker
        BY <4>3
      <4>4. QED BY <2>5, <4>1, <4>2, <4>3 DEF CheckStep, ReportStep, Check, AddedByAnother,
                                              LoadStart, TestLimit, Report
    <3>4. admitted'[p] = admitted[p]
      BY <1>3, <3>2, AdmittedStep
    <3>5. QED BY <3>2, <3>3, <3>4, Quiet DEF Kept
  <2>6. QED BY <2>1, <2>2, <2>3, <2>4, <2>5
<1>4. QED BY <1>2, <1>3

LEMMA OtherStepAdmits ==
    ASSUME IInv, WInv, IInv', HistoryNext, UNCHANGED checkVars, NEW p \in Positions,
           \/ \E l \in Lcores : Quiesce(l)
           \/ CleanupStep \/ Tick
    PROVE  Kept(p)
<1>1. tracker'[p].conns \in Nat
  BY DEF IInv, TypeOK, Trackers
<1>2. Passed(p)' = Passed(p) /\ Others(p)' = Others(p) /\ ~Admits(p) /\ ~Begins(p)
  BY Still
<1>3. CASE TakenBack(p)
  BY <1>1, <1>3, AdmittedStep, Fresh DEF Kept
<1>4. CASE ~TakenBack(p)
  <2>1. CASE CleanupScan \/ ReclaimAll
    <3>1. Reclaimed(Ready, free_slots', limbo', tracker')
      BY <2>1 DEF CleanupScan, ReclaimAll
    <3>2. tracker'[p] = tracker[p]
      BY <1>4, <3>1 DEF Reclaimed, TakenBack, Ready
    <3>3. QED BY <1>2, <1>4, <3>2, AdmittedStep, Quiet DEF Kept
  <2>2. CASE UNCHANGED tracker
    BY <1>2, <1>4, <2>2, AdmittedStep, Quiet DEF Kept
  <2>3. QED BY <2>1, <2>2 DEF Quiesce, CleanupStep, Recheck, Delete, Retire, Tick
<1>5. QED BY <1>3, <1>4

LEMMA HistoryNextInv == IInv /\ WInv /\ IInv' /\ [HistoryNext]_historyVars => WInv'
<1>1. ASSUME IInv, WInv, IInv', HistoryNext PROVE WInv'
  <2>1. ASSUME NEW p \in Positions PROVE Kept(p)
    <3>1. ASSUME NEW l \in Lcores, CheckStep(l) \/ ReportStep(l) PROVE Kept(p)
      BY <1>1, <2>1, <3>1, CheckStepAdmits
    <3>2. ASSUME (\E l \in Lcores : Quiesce(l)) \/ CleanupStep \/ Tick PROVE Kept(p)
      <4>1. UNCHANGED checkVars
        BY <3>2 DEF Quiesce, CleanupStep, CleanupScan, Recheck, Delete, Retire, ReclaimAll, Tick
      <4>2. QED BY <1>1, <2>1, <3>2, <4>1, OtherStepAdmits
    <3>3. QED BY <1>1, <3>1, <3>2 DEF HistoryNext, Next
  <2>2. \A p \in free_slots' : admitted'[p] = 0
    BY <1>1, FreeAdmitsNothing DEF IInv, TypeOK
  <2>3. QED BY <2>1, <2>2 DEF WInv, Kept
<1>2. ASSUME IInv, WInv, UNCHANGED historyVars PROVE WInv'
  BY <1>2 DEF WInv, historyVars, vars, checkVars, tableVars, Passed, Others
<1>3. QED BY <1>1, <1>2

\* However late the clears of its windows come, a window admits at most
\* Max + (Max + 1) + ... connections, one term for each lcore, and with one
\* lcore never more than Max.
THEOREM WindowBoundedCorrect == HistorySpec => []WindowBounded
<1>1. HistoryInit => IInv /\ WInv
  BY InitInv, HistoryInitInv DEF HistoryInit
<1>2. IInv /\ WInv /\ [HistoryNext]_historyVars => IInv' /\ WInv'
  <2>1. [HistoryNext]_historyVars => [Next]_vars
    BY DEF HistoryNext, historyVars
  <2>2. QED BY <2>1, NextInv, HistoryNextInv
<1>3. WInv => WindowBounded
  <2>1. ASSUME WInv, NEW p \in Positions
        PROVE  2 * (admitted[p] + Cardinality(Passed(p))) <=
                  Cardinality(Lcores) * (2 * Max + Cardinality(Lcores) - 1)
    <3> DEFINE o == Cardinality(Others(p))  L == Cardinality(Lcores)
    <3>1. /\ o \in Nat /\ L \in Nat /\ o <= L
          /\ 2 * (admitted[p] + Cardinality(Passed(p))) <= Room(o)
          /\ admitted[p] \in Nat /\ Cardinality(Passed(p)) \in Nat
      BY <2>1, OthersFinite, PassedFinite, Constants DEF WInv, Admission
    <3> HIDE DEF o, L
    <3>2. Room(o) \in Nat /\ Room(L) \in Nat /\ Room(o) <= Room(L)
      BY <3>1, RoomGrows, RoomStep
    <3>3. 2 * (admitted[p] + Cardinality(Passed(p))) <= Room(L)
      BY <3>1, <3>2
    <3>4. QED BY <3>3 DEF Room, L
  <2>2. QED BY <2>1 DEF WindowBounded
<1>4. QED BY <1>1, <1>2, <1>3, PTL DEF HistorySpec
=============================================================================
