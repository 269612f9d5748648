------------------------ MODULE SynProxyCountsProofs ------------------------
(***************************************************************************)
(* The counts of the SYN proxy's connection table: reservations, active    *)
(* connections and half-open places balance with the entries, whichever    *)
(* path ends a connection or gives one up halfway.                         *)
(***************************************************************************)
EXTENDS SynProxyProofs

-----------------------------------------------------------------------------
(* Sets that differ in one element.                                          *)

In(b) == IF b THEN 1 ELSE 0

LEMMA OneMoves ==
  ASSUME NEW S, IsFiniteSet(S), NEW x, NEW A \in SUBSET S, NEW B \in SUBSET S,
         \A y \in S : y # x => (y \in A <=> y \in B)
  PROVE  /\ Cardinality(A) \in Nat /\ Cardinality(B) \in Nat
         /\ Cardinality(B) - In(x \in B) = Cardinality(A) - In(x \in A)
<1>1. IsFiniteSet(A) /\ IsFiniteSet(B)
  BY FS_Subset
<1>2. Cardinality(A) \in Nat /\ Cardinality(B) \in Nat
  BY <1>1, FS_CardinalityType
<1>3. A \ {x} = B \ {x}
  OBVIOUS
<1>4. Cardinality(A \ {x}) = Cardinality(A) - In(x \in A)
  <2>1. Cardinality(A \ {x}) = IF x \in A THEN Cardinality(A) - 1 ELSE Cardinality(A)
    BY <1>1, FS_RemoveElement
  <2>2. QED BY <1>2, <2>1 DEF In
<1>5. Cardinality(B \ {x}) = Cardinality(B) - In(x \in B)
  <2>1. Cardinality(B \ {x}) = IF x \in B THEN Cardinality(B) - 1 ELSE Cardinality(B)
    BY <1>1, FS_RemoveElement
  <2>2. QED BY <1>2, <2>1 DEF In
<1>6. QED BY <1>2, <1>3, <1>4, <1>5

-----------------------------------------------------------------------------
(* What one entry and one lcore contribute to the counts.                    *)

Sources == {SourceOf[k] : k \in Keys}

Used(l, at) == In(at \in Slots /\ ctl[at].st # "NONE") + In(pc[l] \in AtReserved)

Active(l, at) ==
  In(at \in Slots /\ ctl[at].st \notin {"NONE", "INIT"}) + In(pc[l] = "publish") - In(pc[l] = "dead_none")

Charge(l, at, ip) ==
  In(at \in Slots /\ ctl[at].st = "CONNECTING" /\ SourceOf[ctl[at].of] = ip)
  + In(HoldsHalfOpen(l) /\ SourceOf[key[l]] = ip)

\* The half-open word is empty or names a source.
HalfOpenWord ==
  /\ half_open = [ip |-> half_open.ip, n |-> half_open.n]
  /\ half_open.n \in Nat
  /\ half_open.n = 0 => half_open.ip = None
  /\ half_open.n > 0 => half_open.ip \in Sources

Counts == EntriesBalanced /\ HalfOpenBalanced /\ HalfOpenWord

\* The other lcores' and entries' part.
Apart(l, at) ==
  /\ \A m \in Lcores : m # l => pc'[m] = pc[m] /\ key'[m] = key[m] /\ seg'[m] = seg[m] /\ word'[m] = word[m]
  /\ \A s \in Slots : s # at => ctl'[s] = ctl[s]

EntriesUsed == Cardinality({s \in Slots : ctl[s].st # "NONE"})
               + Cardinality({l \in Lcores : pc[l] \in AtReserved})

EntriesActive == Cardinality({s \in Slots : ctl[s].st \notin {"NONE", "INIT"}})
                 + Cardinality({l \in Lcores : pc[l] = "publish"})
                 - Cardinality({l \in Lcores : pc[l] = "dead_none"})

LEMMA UsedMoves ==
  ASSUME NEW l \in Lcores, NEW at, Apart(l, at)
  PROVE  /\ EntriesUsed \in Nat /\ EntriesUsed' \in Nat
         /\ EntriesUsed' - Used(l, at)' = EntriesUsed - Used(l, at)
<1> DEFINE A == {s \in Slots : ctl[s].st # "NONE"}
           B == {s \in Slots : ctl'[s].st # "NONE"}
           C == {m \in Lcores : pc[m] \in AtReserved}
           D == {m \in Lcores : pc'[m] \in AtReserved}
<1>1. IsFiniteSet(Slots) /\ IsFiniteSet(Lcores)
  BY SynProxyAssumption
<1>2. /\ Cardinality(A) \in Nat /\ Cardinality(B) \in Nat
      /\ Cardinality(B) - In(at \in B) = Cardinality(A) - In(at \in A)
  <2>1. A \in SUBSET Slots /\ B \in SUBSET Slots /\ \A s \in Slots : s # at => (s \in A <=> s \in B)
    BY DEF Apart
  <2>2. QED BY <1>1, <2>1, OneMoves
<1>3. /\ Cardinality(C) \in Nat /\ Cardinality(D) \in Nat
      /\ Cardinality(D) - In(l \in D) = Cardinality(C) - In(l \in C)
  <2>1. C \in SUBSET Lcores /\ D \in SUBSET Lcores /\ \A m \in Lcores : m # l => (m \in C <=> m \in D)
    BY DEF Apart
  <2>2. QED BY <1>1, <2>1, OneMoves
<1>4. EntriesUsed = Cardinality(A) + Cardinality(C) /\ EntriesUsed' = Cardinality(B) + Cardinality(D)
  BY DEF EntriesUsed
<1>5. Used(l, at) = In(at \in A) + In(l \in C)
  BY DEF Used
<1>6. Used(l, at)' = In(at \in B) + In(l \in D)
  BY DEF Used, In
<1>7. In(at \in A) \in Nat /\ In(at \in B) \in Nat /\ In(l \in C) \in Nat /\ In(l \in D) \in Nat
  BY DEF In
<1> HIDE DEF A, B, C, D
<1>8. QED BY <1>2, <1>3, <1>4, <1>5, <1>6, <1>7

LEMMA ActiveMoves ==
  ASSUME NEW l \in Lcores, NEW at, Apart(l, at)
  PROVE  /\ EntriesActive \in Int /\ EntriesActive' \in Int
         /\ EntriesActive' - Active(l, at)' = EntriesActive - Active(l, at)
<1> DEFINE A == {s \in Slots : ctl[s].st \notin {"NONE", "INIT"}}
           B == {s \in Slots : ctl'[s].st \notin {"NONE", "INIT"}}
           C == {m \in Lcores : pc[m] = "publish"}
           D == {m \in Lcores : pc'[m] = "publish"}
           E == {m \in Lcores : pc[m] = "dead_none"}
           F == {m \in Lcores : pc'[m] = "dead_none"}
<1>1. IsFiniteSet(Slots) /\ IsFiniteSet(Lcores)
  BY SynProxyAssumption
<1>2. /\ Cardinality(A) \in Nat /\ Cardinality(B) \in Nat
      /\ Cardinality(B) - In(at \in B) = Cardinality(A) - In(at \in A)
  <2>1. A \in SUBSET Slots /\ B \in SUBSET Slots /\ \A s \in Slots : s # at => (s \in A <=> s \in B)
    BY DEF Apart
  <2>2. QED BY <1>1, <2>1, OneMoves
<1>3. /\ Cardinality(C) \in Nat /\ Cardinality(D) \in Nat
      /\ Cardinality(D) - In(l \in D) = Cardinality(C) - In(l \in C)
  <2>1. C \in SUBSET Lcores /\ D \in SUBSET Lcores /\ \A m \in Lcores : m # l => (m \in C <=> m \in D)
    BY DEF Apart
  <2>2. QED BY <1>1, <2>1, OneMoves
<1>4. /\ Cardinality(E) \in Nat /\ Cardinality(F) \in Nat
      /\ Cardinality(F) - In(l \in F) = Cardinality(E) - In(l \in E)
  <2>1. E \in SUBSET Lcores /\ F \in SUBSET Lcores /\ \A m \in Lcores : m # l => (m \in E <=> m \in F)
    BY DEF Apart
  <2>2. QED BY <1>1, <2>1, OneMoves
<1>5. /\ EntriesActive = Cardinality(A) + Cardinality(C) - Cardinality(E)
      /\ EntriesActive' = Cardinality(B) + Cardinality(D) - Cardinality(F)
  BY DEF EntriesActive
<1>6. Active(l, at) = In(at \in A) + In(l \in C) - In(l \in E)
  BY DEF Active
<1>7. Active(l, at)' = In(at \in B) + In(l \in D) - In(l \in F)
  BY DEF Active, In
<1>8. /\ In(at \in A) \in Nat /\ In(at \in B) \in Nat /\ In(l \in C) \in Nat /\ In(l \in D) \in Nat
      /\ In(l \in E) \in Nat /\ In(l \in F) \in Nat
  BY DEF In
<1> HIDE DEF A, B, C, D, E, F
<1>9. EntriesActive \in Int /\ EntriesActive' \in Int
  BY <1>2, <1>3, <1>4, <1>5
<1>10. EntriesActive' - Active(l, at)' =
         (Cardinality(B) - In(at \in B)) + (Cardinality(D) - In(l \in D))
           - (Cardinality(F) - In(l \in F))
  BY <1>2, <1>3, <1>4, <1>5, <1>7, <1>8
<1>11. EntriesActive - Active(l, at) =
         (Cardinality(A) - In(at \in A)) + (Cardinality(C) - In(l \in C))
           - (Cardinality(E) - In(l \in E))
  BY <1>2, <1>3, <1>4, <1>5, <1>6, <1>8
<1>12. QED BY <1>2, <1>3, <1>4, <1>9, <1>10, <1>11

LEMMA ChargeMoves ==
  ASSUME NEW l \in Lcores, NEW at, Apart(l, at), NEW ip
  PROVE  /\ HalfOpen(ip) \in Nat /\ HalfOpen(ip)' \in Nat
         /\ HalfOpen(ip)' - Charge(l, at, ip)' = HalfOpen(ip) - Charge(l, at, ip)
         /\ Charge(l, at, ip) \in 0..2 /\ Charge(l, at, ip)' \in 0..2
         /\ Charge(l, at, ip) <= HalfOpen(ip)
<1> DEFINE A == {s \in Slots : ctl[s].st = "CONNECTING" /\ SourceOf[ctl[s].of] = ip}
           B == {s \in Slots : ctl'[s].st = "CONNECTING" /\ SourceOf[ctl'[s].of] = ip}
           C == {m \in Lcores : HoldsHalfOpen(m) /\ SourceOf[key[m]] = ip}
           D == {m \in Lcores : HoldsHalfOpen(m)' /\ SourceOf[key'[m]] = ip}
<1>1. IsFiniteSet(Slots) /\ IsFiniteSet(Lcores)
  BY SynProxyAssumption
<1>2. /\ Cardinality(A) \in Nat /\ Cardinality(B) \in Nat
      /\ Cardinality(B) - In(at \in B) = Cardinality(A) - In(at \in A)
  <2>1. A \in SUBSET Slots /\ B \in SUBSET Slots /\ \A s \in Slots : s # at => (s \in A <=> s \in B)
    BY DEF Apart
  <2>2. QED BY <1>1, <2>1, OneMoves
<1>3. /\ Cardinality(C) \in Nat /\ Cardinality(D) \in Nat
      /\ Cardinality(D) - In(l \in D) = Cardinality(C) - In(l \in C)
  <2>1. C \in SUBSET Lcores /\ D \in SUBSET Lcores /\ \A m \in Lcores : m # l => (m \in C <=> m \in D)
    BY DEF Apart, HoldsHalfOpen
  <2>2. QED BY <1>1, <2>1, OneMoves
<1>4. HalfOpen(ip) = Cardinality(A) + Cardinality(C) /\ HalfOpen(ip)' = Cardinality(B) + Cardinality(D)
  BY DEF HalfOpen
<1>5. Charge(l, at, ip) = In(at \in A) + In(l \in C)
  BY DEF Charge
<1>6. Charge(l, at, ip)' = In(at \in B) + In(l \in D)
  BY DEF Charge, In
<1>7. In(at \in A) \in 0..1 /\ In(at \in B) \in 0..1 /\ In(l \in C) \in 0..1 /\ In(l \in D) \in 0..1
  BY DEF In
<1>8. In(at \in A) <= Cardinality(A) /\ In(l \in C) <= Cardinality(C)
  <2>1. IsFiniteSet(A) /\ IsFiniteSet(C)
    BY <1>1, FS_Subset
  <2>2. (at \in A => Cardinality(A) # 0) /\ (l \in C => Cardinality(C) # 0)
    BY <2>1, FS_EmptySet
  <2>3. QED BY <1>2, <1>3, <2>2 DEF In
<1> HIDE DEF A, B, C, D
<1>9. /\ HalfOpen(ip) \in Nat /\ HalfOpen(ip)' \in Nat
      /\ Charge(l, at, ip) \in 0..2 /\ Charge(l, at, ip)' \in 0..2
      /\ Charge(l, at, ip) <= HalfOpen(ip)
  BY <1>2, <1>3, <1>4, <1>5, <1>6, <1>7, <1>8
<1>10. HalfOpen(ip)' - Charge(l, at, ip)' =
         (Cardinality(B) - In(at \in B)) + (Cardinality(D) - In(l \in D))
  BY <1>2, <1>3, <1>4, <1>6, <1>7
<1>11. HalfOpen(ip) - Charge(l, at, ip) =
         (Cardinality(A) - In(at \in A)) + (Cardinality(C) - In(l \in C))
  BY <1>2, <1>3, <1>4, <1>5, <1>7
<1>12. QED BY <1>2, <1>3, <1>9, <1>10, <1>11

-----------------------------------------------------------------------------
(* A step keeps the counts when it changes them by what it takes or gives.   *)

LEMMA Balanced ==
  ASSUME Counts
  PROVE  /\ entries_used = EntriesUsed /\ connections_active = EntriesActive
         /\ entries_used <= MaxConnections
         /\ half_open.n \in Nat /\ half_open.n <= MaxHalfOpen
         /\ half_open.n = 0 => half_open.ip = None
         /\ half_open.n > 0 => half_open.ip \in Sources /\ half_open.n <= HalfOpen(half_open.ip)
         /\ \A ip \in Sources : Sources = {ip} => half_open.n = HalfOpen(ip)
BY DEF Counts, EntriesBalanced, HalfOpenBalanced, HalfOpenWord, EntriesUsed, EntriesActive, Sources

Takes(l, at, ip) ==
  /\ ip \in Sources /\ ~HalfOpenFull(ip) /\ half_open' = HalfOpenTaken(ip)
  /\ Charge(l, at, ip)' = Charge(l, at, ip) + 1
  /\ \A j \in Sources \ {ip} : Charge(l, at, j)' = Charge(l, at, j)

Releases(l, at, ip) ==
  /\ ip \in Sources /\ half_open' = HalfOpenReleased(ip)
  /\ Charge(l, at, ip)' = Charge(l, at, ip) - 1
  /\ \A j \in Sources \ {ip} : Charge(l, at, j)' = Charge(l, at, j)

LEMMA TakenKeeps ==
  ASSUME Counts, NEW l \in Lcores, NEW at, Apart(l, at), NEW ip, Takes(l, at, ip)
  PROVE  HalfOpenBalanced' /\ HalfOpenWord'
<1>1. /\ half_open.n \in Nat /\ half_open.n <= MaxHalfOpen /\ MaxHalfOpen \in Nat \ {0}
      /\ half_open.n > 0 => half_open.ip \in Sources /\ half_open.n <= HalfOpen(half_open.ip)
      /\ \A j \in Sources : Sources = {j} => half_open.n = HalfOpen(j)
  BY Balanced, SynProxyAssumption
<1>2. /\ HalfOpen(ip) \in Nat /\ HalfOpen(ip)' \in Nat /\ HalfOpen(ip)' = HalfOpen(ip) + 1
  BY ChargeMoves DEF Takes
<1>3. ASSUME NEW j \in Sources, j # ip
      PROVE  HalfOpen(j)' = HalfOpen(j)
  BY <1>3, ChargeMoves DEF Takes
<1>4. ip \in Sources /\ ip # None /\ None \notin Sources
  BY SynProxyAssumption DEF Takes, Sources
<1>5. ~(half_open.ip = ip /\ half_open.n >= MaxHalfOpen)
  BY DEF Takes, HalfOpenFull
<1>6. half_open' = IF half_open.n = 0 THEN [ip |-> ip, n |-> 1]
                   ELSE IF half_open.ip = ip THEN [ip |-> ip, n |-> half_open.n + 1]
                   ELSE half_open
  BY DEF Takes, HalfOpenTaken
<1>7. CASE half_open.n = 0
  <2>1. half_open' = [ip |-> ip, n |-> 1] /\ half_open'.n = 1 /\ half_open'.ip = ip
    BY <1>6, <1>7
  <2>2. HalfOpenWord'
    BY <1>4, <2>1 DEF HalfOpenWord, Sources
  <2>3. \A j \in Sources : Sources = {j} => half_open'.n = HalfOpen(j)'
    BY <1>1, <1>2, <1>4, <1>7, <2>1
  <2>4. half_open'.n <= MaxHalfOpen /\ half_open'.n <= HalfOpen(ip)'
    BY <1>1, <1>2, <2>1
  <2>5. HalfOpenBalanced'
    BY <2>1, <2>3, <2>4 DEF HalfOpenBalanced, Sources, HalfOpen, HoldsHalfOpen
  <2>6. QED BY <2>2, <2>5
<1>8. CASE half_open.n # 0 /\ half_open.ip = ip
  <2>1. /\ half_open' = [ip |-> ip, n |-> half_open.n + 1]
        /\ half_open'.n = half_open.n + 1 /\ half_open'.ip = ip
    BY <1>6, <1>8
  <2>2. HalfOpenWord'
    BY <1>1, <1>4, <2>1 DEF HalfOpenWord, Sources
  <2>3. \A j \in Sources : Sources = {j} => half_open'.n = HalfOpen(j)'
    BY <1>1, <1>2, <1>4, <2>1
  <2>4. half_open'.n <= MaxHalfOpen /\ half_open'.n <= HalfOpen(ip)'
    BY <1>1, <1>2, <1>5, <1>8, <2>1
  <2>5. HalfOpenBalanced'
    BY <2>1, <2>3, <2>4 DEF HalfOpenBalanced, Sources, HalfOpen, HoldsHalfOpen
  <2>6. QED BY <2>2, <2>5
<1>9. CASE half_open.n # 0 /\ half_open.ip # ip
  <2>1. half_open' = half_open /\ half_open.ip \in Sources
    BY <1>1, <1>6, <1>9
  <2>2. HalfOpenWord'
    BY <2>1 DEF Counts, HalfOpenWord, Sources
  <2>3. \A j \in Sources : Sources # {j}
    BY <1>4, <1>9, <2>1
  <2>4. HalfOpen(half_open.ip)' = HalfOpen(half_open.ip)
    BY <1>3, <1>9, <2>1
  <2>5. half_open'.n <= MaxHalfOpen /\ half_open'.n <= HalfOpen(half_open.ip)'
    BY <1>1, <1>9, <2>1, <2>4
  <2>6. HalfOpenBalanced'
    BY <2>1, <2>3, <2>5 DEF HalfOpenBalanced, Sources, HalfOpen, HoldsHalfOpen
  <2>7. QED BY <2>2, <2>6
<1>10. QED BY <1>7, <1>8, <1>9

LEMMA ReleasedKeeps ==
  ASSUME Counts, NEW l \in Lcores, NEW at, Apart(l, at), NEW ip, Releases(l, at, ip)
  PROVE  HalfOpenBalanced' /\ HalfOpenWord'
<1>1. /\ half_open.n \in Nat /\ half_open.n <= MaxHalfOpen /\ MaxHalfOpen \in Nat
      /\ half_open.n > 0 => half_open.ip \in Sources /\ half_open.n <= HalfOpen(half_open.ip)
      /\ \A j \in Sources : Sources = {j} => half_open.n = HalfOpen(j)
  BY Balanced, SynProxyAssumption
<1>2. /\ HalfOpen(ip) \in Nat /\ HalfOpen(ip)' \in Nat /\ HalfOpen(ip)' = HalfOpen(ip) - 1
  BY ChargeMoves DEF Releases
<1>3. ASSUME NEW j \in Sources, j # ip
      PROVE  HalfOpen(j)' = HalfOpen(j)
  BY <1>3, ChargeMoves DEF Releases
<1>4. ip \in Sources
  BY DEF Releases
<1>5. half_open' = IF half_open.ip # ip \/ half_open.n = 0 THEN half_open
                   ELSE IF half_open.n = 1 THEN [ip |-> None, n |-> 0]
                   ELSE [ip |-> ip, n |-> half_open.n - 1]
  BY DEF Releases, HalfOpenReleased
<1>6. CASE half_open.ip # ip \/ half_open.n = 0
  <2>1. half_open' = half_open
    BY <1>5, <1>6
  <2>2. HalfOpenWord'
    BY <2>1 DEF Counts, HalfOpenWord, Sources
  <2>3. \A j \in Sources : Sources # {j}
    <3>1. SUFFICES ASSUME Sources = {ip} PROVE FALSE
      BY <1>4
    <3>2. half_open.n = HalfOpen(ip) /\ half_open.n > 0
      BY <1>1, <1>2, <1>4, <3>1
    <3>3. QED BY <1>1, <1>6, <3>1, <3>2
  <2>4. half_open.n > 0 => HalfOpen(half_open.ip)' = HalfOpen(half_open.ip)
    BY <1>1, <1>3, <1>6, <2>1
  <2>5. half_open'.n <= MaxHalfOpen /\ (half_open'.n > 0 => half_open'.n <= HalfOpen(half_open.ip)')
    BY <1>1, <2>1, <2>4
  <2>6. HalfOpenBalanced'
    BY <2>1, <2>3, <2>5 DEF HalfOpenBalanced, Sources, HalfOpen, HoldsHalfOpen
  <2>7. QED BY <2>2, <2>6
<1>7. CASE half_open.ip = ip /\ half_open.n = 1
  <2>1. half_open' = [ip |-> None, n |-> 0] /\ half_open'.n = 0
    BY <1>5, <1>7
  <2>2. HalfOpenWord'
    BY <2>1 DEF HalfOpenWord, Sources
  <2>3. \A j \in Sources : Sources = {j} => half_open'.n = HalfOpen(j)'
    BY <1>1, <1>2, <1>4, <1>7, <2>1
  <2>4. half_open'.n <= MaxHalfOpen /\ ~(half_open'.n > 0)
    BY <1>1, <2>1
  <2>5. HalfOpenBalanced'
    BY <2>3, <2>4 DEF HalfOpenBalanced, Sources, HalfOpen, HoldsHalfOpen
  <2>6. QED BY <2>2, <2>5
<1>8. CASE half_open.ip = ip /\ half_open.n > 1
  <2>1. /\ half_open' = [ip |-> ip, n |-> half_open.n - 1]
        /\ half_open'.n = half_open.n - 1 /\ half_open'.ip = ip
    BY <1>5, <1>8
  <2>2. HalfOpenWord'
    BY <1>1, <1>4, <1>8, <2>1 DEF HalfOpenWord, Sources
  <2>3. \A j \in Sources : Sources = {j} => half_open'.n = HalfOpen(j)'
    BY <1>1, <1>2, <1>4, <2>1
  <2>4. half_open'.n <= MaxHalfOpen /\ half_open'.n <= HalfOpen(ip)'
    BY <1>1, <1>2, <1>8, <2>1
  <2>5. HalfOpenBalanced'
    BY <2>1, <2>3, <2>4 DEF HalfOpenBalanced, Sources, HalfOpen, HoldsHalfOpen
  <2>6. QED BY <2>2, <2>5
<1>9. half_open.ip # ip \/ half_open.n = 0 \/ half_open.n = 1 \/ half_open.n > 1
  BY <1>1
<1>10. QED BY <1>6, <1>7, <1>8, <1>9

LEMMA UntakenKeeps ==
  ASSUME Counts, NEW l \in Lcores, NEW at, Apart(l, at), UNCHANGED half_open,
         \A j \in Sources : Charge(l, at, j)' = Charge(l, at, j)
  PROVE  HalfOpenBalanced' /\ HalfOpenWord'
<1>1. /\ half_open.n \in Nat /\ half_open.n <= MaxHalfOpen
      /\ half_open.n > 0 => half_open.ip \in Sources /\ half_open.n <= HalfOpen(half_open.ip)
      /\ \A j \in Sources : Sources = {j} => half_open.n = HalfOpen(j)
  BY Balanced
<1>2. ASSUME NEW j \in Sources
      PROVE  HalfOpen(j)' = HalfOpen(j)
  BY ChargeMoves
<1>3. HalfOpenWord'
  BY DEF Counts, HalfOpenWord, Sources
<1>4. \A j \in Sources : Sources = {j} => half_open'.n = HalfOpen(j)'
  BY <1>1, <1>2
<1>5. half_open.n > 0 => HalfOpen(half_open.ip)' = HalfOpen(half_open.ip)
  BY <1>1, <1>2
<1>6. half_open'.n <= MaxHalfOpen /\ (half_open'.n > 0 => half_open'.n <= HalfOpen(half_open.ip)')
  BY <1>1, <1>5
<1>7. HalfOpenBalanced'
  BY <1>4, <1>6 DEF HalfOpenBalanced, Sources, HalfOpen, HoldsHalfOpen
<1>8. QED BY <1>3, <1>7

\* The two parts of a step's effect on the counts.
LEMMA CountStep ==
  ASSUME Counts, NEW l \in Lcores, NEW at, Apart(l, at),
         entries_used' = entries_used + Used(l, at)' - Used(l, at),
         entries_used' <= MaxConnections,
         connections_active' = connections_active + Active(l, at)' - Active(l, at),
         \/ UNCHANGED half_open /\ \A j \in Sources : Charge(l, at, j)' = Charge(l, at, j)
         \/ \E ip \in Sources : Takes(l, at, ip) \/ Releases(l, at, ip)
  PROVE  Counts'
<1>1. HalfOpenBalanced' /\ HalfOpenWord'
  BY UntakenKeeps, TakenKeeps, ReleasedKeeps
<1>2. entries_used = EntriesUsed /\ connections_active = EntriesActive
  BY Balanced
<1>3. /\ Used(l, at) \in Int /\ Used(l, at)' \in Int
      /\ Active(l, at) \in Int /\ Active(l, at)' \in Int
  BY DEF Used, Active, In
<1>4. entries_used' = EntriesUsed'
  BY <1>2, <1>3, UsedMoves
<1>5. connections_active' = EntriesActive'
  BY <1>2, <1>3, ActiveMoves
<1>6. EntriesBalanced'
  BY <1>4, <1>5 DEF EntriesBalanced, EntriesUsed, EntriesActive
<1>7. QED BY <1>1, <1>6 DEF Counts

-----------------------------------------------------------------------------
(* A step of one lcore leaves the others' registers alone.                   *)

OthersWait(l) ==
  \A m \in Lcores : m # l => pc'[m] = pc[m] /\ key'[m] = key[m] /\ seg'[m] = seg[m] /\ word'[m] = word[m]

LEMMA OneLcore ==
  ASSUME RegisterTypes, NEW l \in Lcores,
         \/ QuietSteps(l) \/ Claim(l) \/ Publish(l) \/ SynAck(l) \/ SynAckPublish(l) \/ CloseSwap(l)
         \/ BypassSwap(l) \/ Recorded(l) \/ BypassRetire(l) \/ Free(l) \/ CleanRetire(l) \/ DeadNone(l)
  PROVE  OthersWait(l)
<1> USE DEF OthersWait
<1>1. /\ pc \in [Lcores -> PCs] /\ key \in [Lcores -> Keys \cup {None}]
      /\ seg \in [Lcores -> Segments \cup {None, "clean"}] /\ word \in [Lcores -> Words]
  BY DEF RegisterTypes
<1> DEFINE Gone(m) == pc'[m] = pc[m] /\ key'[m] = key[m] /\ seg'[m] = seg[m]
<1>2. ASSUME NEW to, Goto(l, to) PROVE \A m \in Lcores : m # l => Gone(m)
  BY <1>1, <1>2 DEF Goto, packetVars
<1>3. Keep(l) \/ Drop(l) => \A m \in Lcores : m # l => word'[m] = word[m]
  BY <1>1 DEF Keep, Drop
<1>4. Finish(l) \/ Afterwards(l) \/ AllocFails(l) => OthersWait(l)
  BY <1>2, <1>3 DEF Finish, Afterwards, AllocFails
<1>5. ASSUME NEW to, Goto(l, to), Keep(l) \/ Drop(l) PROVE OthersWait(l)
  BY <1>2, <1>3, <1>5
<1>6. ASSUME NEW to, Goto(l, to), NEW c, word' = [word EXCEPT ![l] = c] \/ UNCHANGED word
      PROVE  OthersWait(l)
  BY <1>1, <1>2, <1>6
<1> HIDE DEF Gone, OthersWait
<1>7. CASE \/ ReadWord(l) \/ Decide(l) \/ ValidateCookie(l) \/ Challenge(l) \/ HalfBack(l)
           \/ Reserve(l) \/ Add(l) \/ Load(l) \/ Mapped(l) \/ Unreserve(l) \/ Fill(l) \/ Connecting(l)
  BY <1>4, <1>5, <1>6, <1>7
     DEF ReadWord, Decide, ValidateCookie, Challenge, HalfBack, Reserve, Add, Load, Mapped,
         Unreserve, Fill, Connecting
<1>8. CASE \/ SynAckHalf(l) \/ SynAckWrite(l) \/ SynAckReply(l)
           \/ StoreFinEnd(l) \/ Close(l) \/ Bypass(l) \/ Record(l)
           \/ DeadDelete(l) \/ DeadCount(l) \/ DeadFree(l) \/ DeadUnreserve(l)
  BY <1>4, <1>5, <1>6, <1>8
     DEF SynAckHalf, SynAckWrite, SynAckReply, StoreFinEnd, Close, Bypass, Record,
         DeadDelete, DeadCount, DeadFree, DeadUnreserve
<1>9. CASE \/ AdmitIsn(l) \/ AdmitAgain(l) \/ Admitted(l)
           \/ ScanSkip(l) \/ ScanKey(l) \/ ScanEnd(l) \/ CleanSkip(l) \/ CleanEnd(l)
  <2>1. CASE CleanSkip(l)
    BY <2>1 DEF CleanSkip, OthersWait, packetVars
  <2>2. CASE ~CleanSkip(l)
    BY <1>4, <1>5, <1>6, <1>9, <2>2 DEF AdmitIsn, AdmitAgain, Admitted, ScanSkip, ScanKey, ScanEnd, CleanEnd
  <2>3. QED BY <2>1, <2>2
<1>10. CASE (\E s \in Slots : ScanDue(l, s)) \/ (\E k \in Keys : Scan(l, k))
  BY <1>6, <1>10 DEF ScanDue, Scan
<1>11. CASE (\E s \in Slots : CleanDue(l, s)) \/ Arrive(l) \/ CleanStart(l)
  BY <1>1, <1>11 DEF CleanDue, Arrive, Lookup, CleanStart, OthersWait, packetVars
<1>12. CASE \/ Claim(l) \/ Publish(l) \/ SynAck(l) \/ SynAckPublish(l) \/ CloseSwap(l)
  BY <1>4, <1>5, <1>6, <1>12 DEF Claim, Publish, SynAck, SynAckPublish, CloseSwap
<1>13. CASE \/ BypassSwap(l) \/ Recorded(l) \/ BypassRetire(l) \/ Free(l) \/ CleanRetire(l) \/ DeadNone(l)
  BY <1>4, <1>5, <1>6, <1>13 DEF BypassSwap, Recorded, BypassRetire, Free, CleanRetire, DeadNone, BypassAgain
<1>14. QED BY <1>7, <1>8, <1>9, <1>10, <1>11, <1>12, <1>13 DEF QuietSteps

\* A quiet step changes the counts by its lcore's part alone.
LEMMA QuietApart ==
  ASSUME RegisterTypes, NEW l \in Lcores, QuietSteps(l)
  PROVE  Apart(l, None)
BY OneLcore, QuietKeeps DEF OthersWait, Apart

\* Where an lcore holds nothing that is counted.
Uncounted(l) ==
  /\ pc[l] \notin AtReserved \cup {"publish", "dead_none"}
  /\ ~HoldsHalfOpen(l)

LEMMA UncountedStep ==
  ASSUME IInv, Counts, NEW l \in Lcores, QuietSteps(l), Uncounted(l), Uncounted(l)',
         UNCHANGED <<entries_used, connections_active, half_open>>
  PROVE  Counts'
<1>1. Apart(l, None)
  BY QuietApart DEF IInv, Types
<1>2. None \notin Slots
  BY SynProxyAssumption
<1>3. Used(l, None) = 0 /\ Used(l, None)' = 0
  BY <1>2 DEF Used, Uncounted, In
<1>4. Active(l, None) = 0 /\ Active(l, None)' = 0
  BY <1>2 DEF Active, Uncounted, In
<1>5. \A j \in Sources : Charge(l, None, j)' = Charge(l, None, j)
  BY <1>2 DEF Charge, Uncounted, In
<1>6. /\ entries_used \in Int /\ connections_active \in Int /\ entries_used <= MaxConnections
  BY <1>1, Balanced, UsedMoves, ActiveMoves
<1>7. QED BY <1>1, <1>3, <1>4, <1>5, <1>6, CountStep

LEMMA OwnSource ==
  ASSUME NEW l \in Lcores, key[l] \in Keys
  PROVE  SourceOf[key[l]] \in Sources
BY DEF Sources

\* A quiet step by what its lcore takes or gives back.
LEMMA QuietCounts ==
  ASSUME IInv, Counts, NEW l \in Lcores, QuietSteps(l),
         entries_used' = entries_used + In(pc'[l] \in AtReserved) - In(pc[l] \in AtReserved),
         entries_used' <= MaxConnections,
         connections_active' = connections_active
           + In(pc'[l] = "publish") - In(pc'[l] = "dead_none")
           - In(pc[l] = "publish") + In(pc[l] = "dead_none"),
         \/ /\ UNCHANGED half_open
            /\ HoldsHalfOpen(l)' <=> HoldsHalfOpen(l)
            /\ HoldsHalfOpen(l) => key'[l] = key[l]
         \/ /\ ~HoldsHalfOpen(l) /\ HoldsHalfOpen(l)' /\ key'[l] = key[l] /\ key[l] \in Keys
            /\ ~HalfOpenFull(SourceOf[key[l]]) /\ half_open' = HalfOpenTaken(SourceOf[key[l]])
         \/ /\ HoldsHalfOpen(l) /\ ~HoldsHalfOpen(l)' /\ key[l] \in Keys
            /\ half_open' = HalfOpenReleased(SourceOf[key[l]])
  PROVE  Counts'
<1>1. Apart(l, None) /\ None \notin Slots
  BY QuietApart, SynProxyAssumption DEF IInv, Types
<1>2. PICK used, used1 \in 0..1 : /\ used = In(pc[l] \in AtReserved) /\ used1 = In(pc'[l] \in AtReserved)
  BY DEF In
<1>3. Used(l, None) = used /\ Used(l, None)' = used1
  BY <1>1, <1>2 DEF Used, In
<1>4. PICK p, p1, d, d1 \in 0..1 :
        /\ p = In(pc[l] = "publish") /\ p1 = In(pc'[l] = "publish")
        /\ d = In(pc[l] = "dead_none") /\ d1 = In(pc'[l] = "dead_none")
  BY DEF In
<1>5. Active(l, None) = p - d /\ Active(l, None)' = p1 - d1
  BY <1>1, <1>4 DEF Active, In
<1>6. entries_used \in Int /\ connections_active \in Int
  BY <1>1, Balanced, UsedMoves, ActiveMoves
<1>7. /\ entries_used' = entries_used + Used(l, None)' - Used(l, None)
      /\ connections_active' = connections_active + Active(l, None)' - Active(l, None)
  BY <1>2, <1>3, <1>4, <1>5, <1>6
<1>8. /\ \A ip : Charge(l, None, ip) = In(HoldsHalfOpen(l) /\ SourceOf[key[l]] = ip)
      /\ \A ip : Charge(l, None, ip)' = In(HoldsHalfOpen(l)' /\ SourceOf[key'[l]] = ip)
  BY <1>1 DEF Charge, In
<1>9. CASE /\ UNCHANGED half_open /\ (HoldsHalfOpen(l)' <=> HoldsHalfOpen(l))
           /\ HoldsHalfOpen(l) => key'[l] = key[l]
  <2>1. \A j \in Sources : Charge(l, None, j)' = Charge(l, None, j)
    BY <1>8, <1>9 DEF In
  <2>2. QED BY <1>1, <1>7, <1>9, <2>1, CountStep
<1>10. CASE /\ ~HoldsHalfOpen(l) /\ HoldsHalfOpen(l)' /\ key'[l] = key[l] /\ key[l] \in Keys
            /\ ~HalfOpenFull(SourceOf[key[l]]) /\ half_open' = HalfOpenTaken(SourceOf[key[l]])
  <2>1. PICK ip \in Sources : ip = SourceOf[key[l]]
    BY <1>10, OwnSource
  <2>2. \A j : Charge(l, None, j) = 0 /\ Charge(l, None, j)' = In(j = ip)
    BY <1>8, <1>10, <2>1 DEF In
  <2>3. Takes(l, None, ip)
    BY <1>10, <2>1, <2>2 DEF Takes, In
  <2>4. QED BY <1>1, <1>7, <2>3, CountStep
<1>11. CASE /\ HoldsHalfOpen(l) /\ ~HoldsHalfOpen(l)' /\ key[l] \in Keys
            /\ half_open' = HalfOpenReleased(SourceOf[key[l]])
  <2>1. PICK ip \in Sources : ip = SourceOf[key[l]]
    BY <1>11, OwnSource
  <2>2. \A j : Charge(l, None, j)' = 0 /\ Charge(l, None, j) = In(j = ip)
    BY <1>8, <1>11, <2>1 DEF In
  <2>3. Releases(l, None, ip)
    BY <1>11, <2>1, <2>2 DEF Releases, In
  <2>4. QED BY <1>1, <1>7, <2>3, CountStep
<1>12. QED BY <1>9, <1>10, <1>11

\* One step that works on an entry: its control word and its lcore's part.
LEMMA WordCounts ==
  ASSUME IInv, Counts, NEW l \in Lcores, NEW at \in Slots, NEW w,
         OthersWait(l), ctl' = [ctl EXCEPT ![at] = w], UNCHANGED <<entries_used, connections_active, half_open>>,
         In(w.st # "NONE") + In(pc'[l] \in AtReserved) = In(ctl[at].st # "NONE") + In(pc[l] \in AtReserved),
         In(w.st \notin {"NONE", "INIT"}) + In(pc'[l] = "publish") - In(pc'[l] = "dead_none")
           = In(ctl[at].st \notin {"NONE", "INIT"}) + In(pc[l] = "publish") - In(pc[l] = "dead_none"),
         \A ip : In(w.st = "CONNECTING" /\ SourceOf[w.of] = ip) + In(HoldsHalfOpen(l)' /\ SourceOf[key'[l]] = ip)
                   = In(ctl[at].st = "CONNECTING" /\ SourceOf[ctl[at].of] = ip)
                       + In(HoldsHalfOpen(l) /\ SourceOf[key[l]] = ip)
  PROVE  Counts'
<1>1. ctl'[at] = w /\ \A s \in Slots : s # at => ctl'[s] = ctl[s]
  BY DEF IInv, Types, SharedTypes
<1>2. Apart(l, at)
  BY <1>1 DEF Apart, OthersWait
<1>3. Used(l, at)' = Used(l, at)
  BY <1>1 DEF Used
<1>4. Active(l, at)' = Active(l, at)
  BY <1>1 DEF Active
<1>5. \A j \in Sources : Charge(l, at, j)' = Charge(l, at, j)
  BY <1>1 DEF Charge
<1>6. /\ entries_used \in Int /\ connections_active \in Int /\ entries_used <= MaxConnections
      /\ Used(l, at) \in Int /\ Active(l, at) \in Int
  BY <1>2, Balanced, UsedMoves, ActiveMoves DEF Used, Active, In
<1>7. QED BY <1>2, <1>3, <1>4, <1>5, <1>6, CountStep

-----------------------------------------------------------------------------
(* The quiet steps.                                                          *)

\* Where nothing is counted, whatever the registers hold.
AtUncounted == {"idle", "word", "decide", "challenge", "half_open", "connecting", "bypass",
                "bypass_swap", "bypass_retire", "record", "recorded", "synack", "synack_write",
                "synack_publish", "synack_reply", "fin", "close", "close_swap", "free",
                "admit_isn", "admit_again", "admitted", "scan", "scan_word", "scan_key",
                "clean", "clean_retire"}

LEMMA UncountedPlaces ==
  ASSUME NEW l \in Lcores
  PROVE  /\ pc[l] \in AtUncounted => Uncounted(l)
         /\ pc'[l] \in AtUncounted => Uncounted(l)'
BY DEF AtUncounted, Uncounted, AtReserved, HoldsHalfOpen

IdleSteps(l) ==
  \/ ReadWord(l) \/ Decide(l) \/ Connecting(l) \/ SynAckWrite(l) \/ SynAckReply(l)
  \/ StoreFinEnd(l) \/ Close(l) \/ Bypass(l) \/ Record(l)
  \/ AdmitIsn(l) \/ AdmitAgain(l) \/ Admitted(l)
  \/ ScanSkip(l) \/ ScanKey(l) \/ ScanEnd(l) \/ CleanSkip(l) \/ CleanEnd(l)
  \/ (\E s \in Slots : ScanDue(l, s) \/ CleanDue(l, s))
  \/ Arrive(l) \/ CleanStart(l) \/ (\E k \in Keys : Scan(l, k))

LEMMA IdleStepsStay ==
  ASSUME RegisterTypes, NEW l \in Lcores, IdleSteps(l)
  PROVE  /\ pc[l] \in AtUncounted /\ pc'[l] \in AtUncounted
         /\ UNCHANGED <<entries_used, connections_active, half_open>> /\ QuietSteps(l)
<1>1. QuietSteps(l)
  BY DEF IdleSteps, QuietSteps
<1>2. pc \in [Lcores -> PCs]
  BY DEF RegisterTypes
<1>3. \A to : Goto(l, to) => pc'[l] = to
  BY <1>2 DEF Goto
<1>4. \A sg, to : Absent(sg, to) => to \in AtUncounted
  BY DEF Absent, AtUncounted
<1>5. \A c, sg, to : Route(c, sg, to) => to \in AtUncounted
  BY DEF Route, RouteAdmit, RouteProxied, AtUncounted
<1>6. CASE \/ ReadWord(l) \/ Decide(l) \/ Connecting(l) \/ SynAckWrite(l) \/ SynAckReply(l)
  BY <1>1, <1>3, <1>4, <1>5, <1>6
     DEF ReadWord, Decide, Connecting, SynAckWrite, SynAckReply, Finish, AtUncounted, countVars
<1>7. CASE \/ StoreFinEnd(l) \/ Close(l) \/ Bypass(l) \/ Record(l)
           \/ AdmitIsn(l) \/ AdmitAgain(l) \/ Admitted(l)
  BY <1>1, <1>3, <1>7
     DEF StoreFinEnd, Close, Bypass, Record, AdmitIsn, AdmitAgain, Admitted, Finish, AtUncounted, countVars
<1>8. CASE \/ ScanSkip(l) \/ ScanKey(l) \/ ScanEnd(l) \/ CleanSkip(l) \/ CleanEnd(l)
           \/ (\E s \in Slots : ScanDue(l, s)) \/ (\E k \in Keys : Scan(l, k))
  BY <1>1, <1>3, <1>8
     DEF ScanSkip, ScanKey, ScanEnd, CleanSkip, CleanEnd, ScanDue, Scan, Finish, AtUncounted, countVars
<1>9. CASE (\E s \in Slots : CleanDue(l, s)) \/ Arrive(l) \/ CleanStart(l)
  <2>1. \A to : pc' = [pc EXCEPT ![l] = to] => pc'[l] = to
    BY <1>2
  <2>2. QED
    BY <1>1, <1>4, <1>9, <2>1 DEF CleanDue, Arrive, Lookup, CleanStart, AtUncounted, countVars
<1>10. QED BY <1>6, <1>7, <1>8, <1>9 DEF IdleSteps

LEMMA IdleCounts ==
  ASSUME IInv, Counts, NEW l \in Lcores, IdleSteps(l)
  PROVE  Counts'
BY IdleStepsStay, UncountedPlaces, UncountedStep DEF IInv, Types

\* A step that goes on with its packet.
LEMMA GoesOn ==
  ASSUME IInv, NEW l \in Lcores, NEW to, Goto(l, to)
  PROVE  /\ pc'[l] = to
         /\ to # "idle" => key'[l] = key[l] /\ seg'[l] = seg[l]
         /\ Keep(l) => word'[l] = word[l]
BY DEF IInv, Types, RegisterTypes, Goto, Keep, packetVars

LEMMA KnownRegisters ==
  ASSUME IInv, NEW l \in Lcores
  PROVE  /\ Registers(l) /\ Owns(l) /\ Held(l)
         /\ pc[l] \notin AtScan \cup {"idle"} => key[l] \in Keys
         /\ pc[l] \notin AtUnset => slot[l] \in Slots
BY DEF IInv, Lcore, Registers

LEMMA CountsKnown ==
  ASSUME IInv, Counts
  PROVE  entries_used \in Int /\ connections_active \in Int /\ entries_used <= MaxConnections
<1>1. IsFiniteSet(Slots) /\ IsFiniteSet(Lcores)
  BY SynProxyAssumption
<1>2. /\ Cardinality({s \in Slots : ctl[s].st # "NONE"}) \in Nat
      /\ Cardinality({l \in Lcores : pc[l] \in AtReserved}) \in Nat
      /\ Cardinality({s \in Slots : ctl[s].st \notin {"NONE", "INIT"}}) \in Nat
      /\ Cardinality({l \in Lcores : pc[l] = "publish"}) \in Nat
      /\ Cardinality({l \in Lcores : pc[l] = "dead_none"}) \in Nat
  BY <1>1, FS_Subset, FS_CardinalityType
<1>3. QED BY <1>2 DEF Counts, EntriesBalanced

LEMMA AllocFailsCounts ==
  ASSUME IInv, NEW l \in Lcores, pc[l] \in {"reserve", "unreserve"}, AllocFails(l)
  PROVE  /\ pc'[l] \in {"idle", "half_back"}
         /\ HoldsHalfOpen(l)' <=> HoldsHalfOpen(l)
         /\ HoldsHalfOpen(l) => key'[l] = key[l]
<1>1. PICK to : to = (IF seg[l] = "ack" THEN "half_back" ELSE "idle") /\ Goto(l, to)
  BY DEF AllocFails
<1>2. pc'[l] = to /\ (to # "idle" => key'[l] = key[l] /\ seg'[l] = seg[l])
  BY <1>1, GoesOn
<1>3. QED BY <1>1, <1>2 DEF HoldsHalfOpen

LEMMA ReserveCounts ==
  ASSUME IInv, Counts, NEW l \in Lcores, Reserve(l)
  PROVE  Counts'
<1>1. /\ pc[l] = "reserve" /\ QuietSteps(l) /\ UNCHANGED <<connections_active, half_open>>
      /\ entries_used \in Int /\ connections_active \in Int /\ entries_used <= MaxConnections
      /\ MaxConnections \in Nat
  BY CountsKnown, SynProxyAssumption DEF Reserve, QuietSteps
<1>2. CASE AllocFails(l) /\ UNCHANGED entries_used
  <2>1. /\ pc'[l] \in {"idle", "half_back"} /\ (HoldsHalfOpen(l)' <=> HoldsHalfOpen(l))
        /\ HoldsHalfOpen(l) => key'[l] = key[l]
    BY <1>1, <1>2, AllocFailsCounts
  <2>2. /\ entries_used' = entries_used + In(pc'[l] \in AtReserved) - In(pc[l] \in AtReserved)
        /\ connections_active' = connections_active
             + In(pc'[l] = "publish") - In(pc'[l] = "dead_none")
             - In(pc[l] = "publish") + In(pc[l] = "dead_none")
    BY <1>1, <1>2, <2>1 DEF In, AtReserved
  <2>3. QED BY <1>1, <1>2, <2>1, <2>2, QuietCounts
<1>3. CASE Goto(l, "add") /\ entries_used' = entries_used + 1 /\ entries_used < MaxConnections
  <2>1. pc'[l] = "add" /\ key'[l] = key[l] /\ seg'[l] = seg[l]
    BY <1>3, GoesOn
  <2>2. HoldsHalfOpen(l)' <=> HoldsHalfOpen(l)
    BY <1>1, <2>1 DEF HoldsHalfOpen
  <2>3. /\ entries_used' = entries_used + In(pc'[l] \in AtReserved) - In(pc[l] \in AtReserved)
        /\ connections_active' = connections_active
             + In(pc'[l] = "publish") - In(pc'[l] = "dead_none")
             - In(pc[l] = "publish") + In(pc[l] = "dead_none")
    BY <1>1, <1>3, <2>1 DEF In, AtReserved
  <2>4. entries_used' <= MaxConnections
    BY <1>1, <1>3
  <2>5. QED BY <1>1, <2>1, <2>2, <2>3, <2>4, QuietCounts
<1>4. QED BY <1>2, <1>3 DEF Reserve, HasRoom

LEMMA UnreserveCounts ==
  ASSUME IInv, Counts, NEW l \in Lcores, Unreserve(l)
  PROVE  Counts'
<1>1. /\ pc[l] = "unreserve" /\ QuietSteps(l) /\ UNCHANGED <<connections_active, half_open>>
      /\ entries_used \in Int /\ connections_active \in Int /\ entries_used <= MaxConnections
      /\ MaxConnections \in Nat /\ entries_used' = entries_used - 1 /\ AllocFails(l)
  BY CountsKnown, SynProxyAssumption DEF Unreserve, QuietSteps
<1>2. /\ pc'[l] \in {"idle", "half_back"} /\ (HoldsHalfOpen(l)' <=> HoldsHalfOpen(l))
      /\ HoldsHalfOpen(l) => key'[l] = key[l]
  BY <1>1, AllocFailsCounts
<1>3. /\ entries_used' = entries_used + In(pc'[l] \in AtReserved) - In(pc[l] \in AtReserved)
      /\ connections_active' = connections_active
           + In(pc'[l] = "publish") - In(pc'[l] = "dead_none")
           - In(pc[l] = "publish") + In(pc[l] = "dead_none")
  BY <1>1, <1>2 DEF In, AtReserved
<1>4. entries_used' <= MaxConnections
  BY <1>1
<1>5. QED BY <1>1, <1>2, <1>3, <1>4, QuietCounts

LEMMA AddCounts ==
  ASSUME IInv, Counts, NEW l \in Lcores, Add(l) \/ Load(l) \/ Mapped(l)
  PROVE  Counts'
<1>1. /\ pc[l] \in {"add", "load", "mapped"} /\ QuietSteps(l)
      /\ UNCHANGED <<entries_used, connections_active, half_open>>
      /\ entries_used \in Int /\ connections_active \in Int /\ entries_used <= MaxConnections
  BY CountsKnown DEF Add, Load, Mapped, QuietSteps, countVars
<1>2. PICK to \in {"add", "load", "mapped", "claim", "unreserve"} : Goto(l, to)
  BY DEF Add, Load, Mapped
<1>3. pc'[l] = to /\ key'[l] = key[l] /\ seg'[l] = seg[l]
  BY <1>2, GoesOn
<1>4. HoldsHalfOpen(l)' <=> HoldsHalfOpen(l)
  BY <1>1, <1>3 DEF HoldsHalfOpen
<1>5. /\ entries_used' = entries_used + In(pc'[l] \in AtReserved) - In(pc[l] \in AtReserved)
      /\ connections_active' = connections_active
           + In(pc'[l] = "publish") - In(pc'[l] = "dead_none")
           - In(pc[l] = "publish") + In(pc[l] = "dead_none")
  BY <1>1, <1>3 DEF In, AtReserved
<1>6. QED BY <1>1, <1>3, <1>4, <1>5, QuietCounts

LEMMA ValidateCookieCounts ==
  ASSUME IInv, Counts, NEW l \in Lcores, ValidateCookie(l)
  PROVE  Counts'
<1>1. /\ pc[l] = "half_open" /\ QuietSteps(l) /\ UNCHANGED <<entries_used, connections_active>>
      /\ entries_used \in Int /\ connections_active \in Int /\ entries_used <= MaxConnections
  BY CountsKnown DEF ValidateCookie, QuietSteps
<1>2. key[l] \in Keys /\ seg[l] = "ack" /\ ~HoldsHalfOpen(l)
  BY <1>1, KnownRegisters DEF Registers, HoldsHalfOpen, AtScan
<1>3. PICK to \in {"idle", "reserve"} :
        /\ Goto(l, to)
        /\ to = "idle" => UNCHANGED half_open
        /\ to = "reserve" => /\ ~HalfOpenFull(SourceOf[key[l]])
                             /\ half_open' = HalfOpenTaken(SourceOf[key[l]])
  BY DEF ValidateCookie, Finish
<1>4. pc'[l] = to /\ (to = "reserve" => key'[l] = key[l] /\ seg'[l] = "ack")
  BY <1>2, <1>3, GoesOn
<1>5. HoldsHalfOpen(l)' <=> to = "reserve"
  BY <1>4 DEF HoldsHalfOpen
<1>6. /\ entries_used' = entries_used + In(pc'[l] \in AtReserved) - In(pc[l] \in AtReserved)
      /\ connections_active' = connections_active
           + In(pc'[l] = "publish") - In(pc'[l] = "dead_none")
           - In(pc[l] = "publish") + In(pc[l] = "dead_none")
  BY <1>1, <1>4 DEF In, AtReserved
<1>7. CASE to = "idle"
  BY <1>1, <1>2, <1>3, <1>5, <1>6, <1>7, QuietCounts
<1>8. CASE to = "reserve"
  BY <1>1, <1>2, <1>3, <1>4, <1>5, <1>6, <1>8, QuietCounts
<1>9. QED BY <1>7, <1>8

LEMMA ChallengeCounts ==
  ASSUME IInv, Counts, NEW l \in Lcores, Challenge(l)
  PROVE  Counts'
<1>1. /\ pc[l] = "challenge" /\ QuietSteps(l)
      /\ UNCHANGED <<entries_used, connections_active, half_open>>
  BY DEF Challenge, QuietSteps, countVars
<1>2. seg[l] = "syn"
  BY <1>1, KnownRegisters DEF Registers
<1>3. PICK to \in {"idle", "reserve"} : Goto(l, to)
  BY DEF Challenge, Finish
<1>4. pc'[l] = to /\ (to = "reserve" => seg'[l] = "syn")
  BY <1>2, <1>3, GoesOn
<1>5. Uncounted(l) /\ Uncounted(l)'
  BY <1>1, <1>4 DEF Uncounted, HoldsHalfOpen, AtReserved
<1>6. QED BY <1>1, <1>5, UncountedStep

LEMMA HalfBackCounts ==
  ASSUME IInv, Counts, NEW l \in Lcores, HalfBack(l) \/ SynAckHalf(l)
  PROVE  Counts'
<1>1. /\ pc[l] \in {"half_back", "synack_half"} /\ QuietSteps(l)
      /\ UNCHANGED <<entries_used, connections_active>>
      /\ half_open' = HalfOpenReleased(SourceOf[key[l]])
      /\ entries_used \in Int /\ connections_active \in Int /\ entries_used <= MaxConnections
  BY CountsKnown DEF HalfBack, SynAckHalf, QuietSteps
<1>2. key[l] \in Keys /\ HoldsHalfOpen(l)
  BY <1>1, KnownRegisters DEF Registers, HoldsHalfOpen, AtScan
<1>3. PICK to \in {"idle", "synack_write"} : Goto(l, to)
  BY DEF HalfBack, SynAckHalf, Finish
<1>4. pc'[l] = to /\ ~HoldsHalfOpen(l)'
  BY <1>3, GoesOn DEF HoldsHalfOpen
<1>5. /\ entries_used' = entries_used + In(pc'[l] \in AtReserved) - In(pc[l] \in AtReserved)
      /\ connections_active' = connections_active
           + In(pc'[l] = "publish") - In(pc'[l] = "dead_none")
           - In(pc[l] = "publish") + In(pc[l] = "dead_none")
  BY <1>1, <1>4 DEF In, AtReserved
<1>6. QED BY <1>1, <1>2, <1>4, <1>5, QuietCounts

LEMMA FillCounts ==
  ASSUME IInv, Counts, NEW l \in Lcores, Fill(l)
  PROVE  Counts'
<1>1. /\ pc[l] = "fill" /\ QuietSteps(l) /\ UNCHANGED <<entries_used, half_open>>
      /\ connections_active' = connections_active + 1 /\ Goto(l, "publish")
      /\ entries_used \in Int /\ connections_active \in Int /\ entries_used <= MaxConnections
  BY CountsKnown DEF Fill, QuietSteps
<1>2. pc'[l] = "publish" /\ key'[l] = key[l] /\ seg'[l] = seg[l]
  BY <1>1, GoesOn
<1>3. HoldsHalfOpen(l)' <=> HoldsHalfOpen(l)
  BY <1>1, <1>2 DEF HoldsHalfOpen
<1>4. /\ entries_used' = entries_used + In(pc'[l] \in AtReserved) - In(pc[l] \in AtReserved)
      /\ connections_active' = connections_active
           + In(pc'[l] = "publish") - In(pc'[l] = "dead_none")
           - In(pc[l] = "publish") + In(pc[l] = "dead_none")
  BY <1>1, <1>2 DEF In, AtReserved
<1>5. QED BY <1>1, <1>2, <1>3, <1>4, QuietCounts

LEMMA DeadDeleteCounts ==
  ASSUME IInv, Counts, NEW l \in Lcores, DeadDelete(l)
  PROVE  Counts'
<1>1. /\ pc[l] = "dead_delete" /\ QuietSteps(l)
      /\ UNCHANGED <<entries_used, connections_active, half_open>>
      /\ entries_used \in Int /\ connections_active \in Int /\ entries_used <= MaxConnections
  BY CountsKnown DEF DeadDelete, QuietSteps, countVars
<1>2. conn_hash[key[l]] = slot[l]
  BY <1>1, KnownRegisters DEF Owns
<1>3. Goto(l, "dead_count") /\ Keep(l)
  BY <1>2 DEF DeadDelete
<1>4. pc'[l] = "dead_count" /\ key'[l] = key[l] /\ word'[l] = word[l]
  BY <1>3, GoesOn
<1>5. HoldsHalfOpen(l)' <=> HoldsHalfOpen(l)
  BY <1>1, <1>4 DEF HoldsHalfOpen
<1>6. /\ entries_used' = entries_used + In(pc'[l] \in AtReserved) - In(pc[l] \in AtReserved)
      /\ connections_active' = connections_active
           + In(pc'[l] = "publish") - In(pc'[l] = "dead_none")
           - In(pc[l] = "publish") + In(pc[l] = "dead_none")
  BY <1>1, <1>4 DEF In, AtReserved
<1>7. QED BY <1>1, <1>4, <1>5, <1>6, QuietCounts

LEMMA DeadCountCounts ==
  ASSUME IInv, Counts, NEW l \in Lcores, DeadCount(l)
  PROVE  Counts'
<1>1. /\ pc[l] = "dead_count" /\ QuietSteps(l) /\ UNCHANGED entries_used
      /\ connections_active' = connections_active - 1 /\ Goto(l, "dead_none")
      /\ entries_used \in Int /\ connections_active \in Int /\ entries_used <= MaxConnections
      /\ half_open' = IF word[l].st = "CONNECTING" THEN HalfOpenReleased(SourceOf[key[l]]) ELSE half_open
  BY CountsKnown DEF DeadCount, QuietSteps
<1>2. pc'[l] = "dead_none" /\ ~HoldsHalfOpen(l)'
  BY <1>1, GoesOn DEF HoldsHalfOpen
<1>3. key[l] \in Keys /\ (HoldsHalfOpen(l) <=> word[l].st = "CONNECTING")
  BY <1>1, KnownRegisters DEF Registers, HoldsHalfOpen, AtScan
<1>4. /\ entries_used' = entries_used + In(pc'[l] \in AtReserved) - In(pc[l] \in AtReserved)
      /\ connections_active' = connections_active
           + In(pc'[l] = "publish") - In(pc'[l] = "dead_none")
           - In(pc[l] = "publish") + In(pc[l] = "dead_none")
  BY <1>1, <1>2 DEF In, AtReserved
<1>5. CASE word[l].st = "CONNECTING"
  BY <1>1, <1>2, <1>3, <1>4, <1>5, QuietCounts
<1>6. CASE word[l].st # "CONNECTING"
  BY <1>1, <1>2, <1>3, <1>4, <1>6, QuietCounts
<1>7. QED BY <1>5, <1>6

LEMMA DeadFreeCounts ==
  ASSUME IInv, Counts, NEW l \in Lcores, DeadFree(l) \/ DeadUnreserve(l)
  PROVE  Counts'
<1>1. /\ pc[l] \in {"dead_free", "dead_unreserve"} /\ QuietSteps(l)
      /\ UNCHANGED <<connections_active, half_open>>
      /\ entries_used' = IF pc[l] = "dead_free" THEN entries_used ELSE entries_used - 1
      /\ entries_used \in Int /\ connections_active \in Int /\ entries_used <= MaxConnections
      /\ MaxConnections \in Nat
  BY CountsKnown, SynProxyAssumption DEF DeadFree, DeadUnreserve, QuietSteps, countVars
<1>2. PICK to \in {"dead_unreserve", "clean", "challenge", "idle"} :
        Goto(l, to) /\ (to = "dead_unreserve" <=> pc[l] = "dead_free")
  BY DEF DeadFree, DeadUnreserve, Afterwards
<1>3. pc'[l] = to /\ ~HoldsHalfOpen(l) /\ ~HoldsHalfOpen(l)'
  BY <1>1, <1>2, GoesOn DEF HoldsHalfOpen
<1>4. /\ entries_used' = entries_used + In(pc'[l] \in AtReserved) - In(pc[l] \in AtReserved)
      /\ connections_active' = connections_active
           + In(pc'[l] = "publish") - In(pc'[l] = "dead_none")
           - In(pc[l] = "publish") + In(pc[l] = "dead_none")
  BY <1>1, <1>2, <1>3 DEF In, AtReserved
<1>5. entries_used' <= MaxConnections
  BY <1>1
<1>6. QED BY <1>1, <1>3, <1>4, <1>5, QuietCounts

LEMMA QuietStepCounts ==
  ASSUME IInv, Counts, NEW l \in Lcores, QuietSteps(l)
  PROVE  Counts'
BY IdleCounts, ReserveCounts, UnreserveCounts, AddCounts, ValidateCookieCounts, ChallengeCounts,
   HalfBackCounts, FillCounts, DeadDeleteCounts, DeadCountCounts, DeadFreeCounts
   DEF QuietSteps, IdleSteps

-----------------------------------------------------------------------------
(* The steps that set a control word.                                        *)

SwapSteps(l) ==
  \/ Claim(l) \/ Publish(l) \/ SynAck(l) \/ SynAckPublish(l) \/ CloseSwap(l)
  \/ BypassSwap(l) \/ Recorded(l) \/ BypassRetire(l) \/ Free(l) \/ CleanRetire(l) \/ DeadNone(l)

LEMMA SwapOthers ==
  ASSUME IInv, NEW l \in Lcores, SwapSteps(l)
  PROVE  /\ OthersWait(l) /\ slot[l] \in Slots /\ key[l] \in Keys \cup {None}
         /\ UNCHANGED <<entries_used, connections_active, half_open>>
<1>1. OthersWait(l)
  BY OneLcore DEF SwapSteps, IInv, Types
<1>2. slot[l] \in Slots /\ key[l] \in Keys \cup {None}
  BY KnownRegisters
     DEF IInv, Types, RegisterTypes, SwapSteps, AtUnset, Claim, Publish, SynAck, SynAckPublish, CloseSwap,
         BypassSwap, Recorded, BypassRetire, Free, CleanRetire, DeadNone
<1>3. UNCHANGED <<entries_used, connections_active, half_open>>
  BY DEF SwapSteps, Claim, Publish, SynAck, SynAckPublish, CloseSwap, BypassSwap, Recorded,
         BypassRetire, Free, CleanRetire, DeadNone, countVars
<1>4. QED BY <1>1, <1>2, <1>3

\* A swap that does not happen.
LEMMA StayCounts ==
  ASSUME IInv, Counts, NEW l \in Lcores, SwapSteps(l), UNCHANGED ctl,
         pc[l] \in AtReserved <=> pc'[l] \in AtReserved,
         pc[l] \notin {"publish", "dead_none"}, pc'[l] \notin {"publish", "dead_none"},
         HoldsHalfOpen(l)' <=> HoldsHalfOpen(l), HoldsHalfOpen(l) => key'[l] = key[l]
  PROVE  Counts'
<1>1. OthersWait(l) /\ slot[l] \in Slots /\ UNCHANGED <<entries_used, connections_active, half_open>>
  BY SwapOthers
<1>2. PICK at \in Slots : at = slot[l]
  BY <1>1
<1>3. PICK w : w = ctl[at] /\ ctl' = [ctl EXCEPT ![at] = w]
  BY DEF IInv, Types, SharedTypes
<1>4. In(w.st # "NONE") + In(pc'[l] \in AtReserved) = In(ctl[at].st # "NONE") + In(pc[l] \in AtReserved)
  BY <1>3 DEF In
<1>5. In(w.st \notin {"NONE", "INIT"}) + In(pc'[l] = "publish") - In(pc'[l] = "dead_none")
           = In(ctl[at].st \notin {"NONE", "INIT"}) + In(pc[l] = "publish") - In(pc[l] = "dead_none")
  BY <1>3 DEF In
<1>6. ASSUME NEW ip
      PROVE  In(w.st = "CONNECTING" /\ SourceOf[w.of] = ip) + In(HoldsHalfOpen(l)' /\ SourceOf[key'[l]] = ip)
                   = In(ctl[at].st = "CONNECTING" /\ SourceOf[ctl[at].of] = ip)
                       + In(HoldsHalfOpen(l) /\ SourceOf[key[l]] = ip)
  BY <1>3 DEF In
<1>7. ctl' = [ctl EXCEPT ![at] = w]
  BY <1>3
<1>8. OthersWait(l) /\ UNCHANGED <<entries_used, connections_active, half_open>>
  BY <1>1
<1>9. QED BY <1>4, <1>5, <1>6, <1>7, <1>8, WordCounts

\* A swap of an entry that is in use before and after it.
LEMMA FilledCounts ==
  ASSUME IInv, Counts, NEW l \in Lcores, SwapSteps(l), NEW at \in Slots, NEW w,
         ctl' = [ctl EXCEPT ![at] = w],
         ctl[at].st \notin {"NONE", "INIT"}, w.st \notin {"NONE", "INIT"},
         pc[l] \notin AtReserved \cup {"publish", "dead_none"},
         pc'[l] \notin AtReserved \cup {"publish", "dead_none"},
         ~HoldsHalfOpen(l),
         w.st # "CONNECTING",
         ctl[at].st = "CONNECTING" <=> HoldsHalfOpen(l)',
         HoldsHalfOpen(l)' => key'[l] = ctl[at].of
  PROVE  Counts'
<1>1. OthersWait(l) /\ UNCHANGED <<entries_used, connections_active, half_open>>
  BY SwapOthers
<1>2. In(w.st # "NONE") + In(pc'[l] \in AtReserved) = In(ctl[at].st # "NONE") + In(pc[l] \in AtReserved)
  BY DEF In
<1>3. In(w.st \notin {"NONE", "INIT"}) + In(pc'[l] = "publish") - In(pc'[l] = "dead_none")
           = In(ctl[at].st \notin {"NONE", "INIT"}) + In(pc[l] = "publish") - In(pc[l] = "dead_none")
  BY DEF In
<1>4. ASSUME NEW ip
      PROVE  In(w.st = "CONNECTING" /\ SourceOf[w.of] = ip) + In(HoldsHalfOpen(l)' /\ SourceOf[key'[l]] = ip)
                   = In(ctl[at].st = "CONNECTING" /\ SourceOf[ctl[at].of] = ip)
                       + In(HoldsHalfOpen(l) /\ SourceOf[key[l]] = ip)
  BY DEF In
<1>5. QED BY <1>1, <1>2, <1>3, <1>4, WordCounts

LEMMA ClaimCounts ==
  ASSUME IInv, Counts, NEW l \in Lcores, Claim(l)
  PROVE  Counts'
<1>1. /\ pc[l] = "claim" /\ SwapSteps(l)
  BY DEF Claim, SwapSteps
<1>2. /\ OthersWait(l) /\ slot[l] \in Slots /\ UNCHANGED <<entries_used, connections_active, half_open>>
  BY <1>1, SwapOthers
<1>3. PICK at \in Slots : at = slot[l]
  BY <1>2
<1>4. PICK w : w = InitWord(word[l].gen, key[l])
  OBVIOUS
<1>5. CASE ctl[slot[l]] = word[l]
  <2>1. ctl' = [ctl EXCEPT ![at] = w] /\ Goto(l, "fill")
    BY <1>3, <1>4, <1>5 DEF Claim
  <2>2. ctl[at].st = "NONE" /\ w.st = "INIT"
    BY <1>1, <1>3, <1>4, <1>5, KnownRegisters DEF Held, InitWord, Word
  <2>3. pc'[l] = "fill" /\ key'[l] = key[l] /\ seg'[l] = seg[l]
    BY <2>1, GoesOn
  <2>4. HoldsHalfOpen(l)' <=> HoldsHalfOpen(l)
    BY <1>1, <2>3 DEF HoldsHalfOpen
  <2>5. In(w.st # "NONE") + In(pc'[l] \in AtReserved) = In(ctl[at].st # "NONE") + In(pc[l] \in AtReserved)
    BY <1>1, <2>2, <2>3 DEF In, AtReserved
  <2>6. In(w.st \notin {"NONE", "INIT"}) + In(pc'[l] = "publish") - In(pc'[l] = "dead_none")
           = In(ctl[at].st \notin {"NONE", "INIT"}) + In(pc[l] = "publish") - In(pc[l] = "dead_none")
    BY <1>1, <2>2, <2>3 DEF In
  <2>7. \A ip : In(w.st = "CONNECTING" /\ SourceOf[w.of] = ip) + In(HoldsHalfOpen(l)' /\ SourceOf[key'[l]] = ip)
                   = In(ctl[at].st = "CONNECTING" /\ SourceOf[ctl[at].of] = ip)
                       + In(HoldsHalfOpen(l) /\ SourceOf[key[l]] = ip)
    BY <2>2, <2>3, <2>4 DEF In
  <2>8. QED BY <1>2, <2>1, <2>5, <2>6, <2>7, WordCounts
<1>6. CASE ctl[slot[l]] # word[l]
  <2>1. UNCHANGED ctl /\ Goto(l, "unreserve")
    BY <1>6 DEF Claim
  <2>2. pc'[l] = "unreserve" /\ key'[l] = key[l] /\ seg'[l] = seg[l]
    BY <2>1, GoesOn
  <2>3. HoldsHalfOpen(l)' <=> HoldsHalfOpen(l)
    BY <1>1, <2>2 DEF HoldsHalfOpen
  <2>4. QED BY <1>1, <2>1, <2>2, <2>3, StayCounts DEF AtReserved
<1>7. QED BY <1>5, <1>6

LEMMA PublishCounts ==
  ASSUME IInv, Counts, NEW l \in Lcores, Publish(l)
  PROVE  Counts'
<1>1. /\ pc[l] = "publish" /\ SwapSteps(l)
  BY DEF Publish, SwapSteps
<1>2. /\ OthersWait(l) /\ slot[l] \in Slots /\ UNCHANGED <<entries_used, connections_active, half_open>>
  BY <1>1, SwapOthers
<1>3. PICK at \in Slots : at = slot[l]
  BY <1>2
<1>4. PICK w : w = Published(word[l], IF seg[l] = "ack" THEN "CONNECTING" ELSE "BYPASSED")
  OBVIOUS
<1>5. ctl' = [ctl EXCEPT ![at] = w]
  BY <1>3, <1>4 DEF Publish
<1>6. /\ ctl[at].st = "INIT" /\ w.of = key[l]
      /\ w.st = IF seg[l] = "ack" THEN "CONNECTING" ELSE "BYPASSED"
  <2>1. ctl[at] = word[l] /\ ctl[at] = InitWord(ctl[at].gen, key[l])
    BY <1>1, <1>3, KnownRegisters DEF Owns
  <2>2. ctl[at].st = "INIT" /\ word[l].of = key[l]
    BY <2>1 DEF InitWord, Word
  <2>3. QED BY <1>4, <2>2 DEF Published, Word
<1>7. PICK to \in {"idle", "connecting"} : Goto(l, to)
  BY DEF Publish, Finish
<1>8. pc'[l] = to /\ ~HoldsHalfOpen(l)' /\ (HoldsHalfOpen(l) <=> seg[l] = "ack")
  BY <1>1, <1>7, GoesOn DEF HoldsHalfOpen
<1>9. In(w.st # "NONE") + In(pc'[l] \in AtReserved) = In(ctl[at].st # "NONE") + In(pc[l] \in AtReserved)
  BY <1>1, <1>6, <1>8 DEF In, AtReserved
<1>10. In(w.st \notin {"NONE", "INIT"}) + In(pc'[l] = "publish") - In(pc'[l] = "dead_none")
           = In(ctl[at].st \notin {"NONE", "INIT"}) + In(pc[l] = "publish") - In(pc[l] = "dead_none")
  BY <1>1, <1>6, <1>8 DEF In
<1>11. ASSUME NEW ip
       PROVE  In(w.st = "CONNECTING" /\ SourceOf[w.of] = ip) + In(HoldsHalfOpen(l)' /\ SourceOf[key'[l]] = ip)
                   = In(ctl[at].st = "CONNECTING" /\ SourceOf[ctl[at].of] = ip)
                       + In(HoldsHalfOpen(l) /\ SourceOf[key[l]] = ip)
  BY <1>6, <1>8 DEF In
<1>12. QED BY <1>2, <1>5, <1>9, <1>10, <1>11, WordCounts

LEMMA UncountedThere ==
  ASSUME NEW l \in Lcores, pc[l] \in AtUncounted, pc'[l] \in AtUncounted
  PROVE  /\ pc[l] \notin AtReserved \cup {"publish", "dead_none"}
         /\ pc'[l] \notin AtReserved \cup {"publish", "dead_none"}
         /\ ~HoldsHalfOpen(l) /\ ~HoldsHalfOpen(l)'
BY UncountedPlaces DEF Uncounted, AtUncounted, AtReserved

LEMMA StayUncounted ==
  ASSUME IInv, Counts, NEW l \in Lcores, SwapSteps(l), UNCHANGED ctl,
         pc[l] \in AtUncounted, pc'[l] \in AtUncounted
  PROVE  Counts'
BY UncountedThere, StayCounts

LEMMA SwapUncounted ==
  ASSUME IInv, Counts, NEW l \in Lcores, SwapSteps(l), NEW at \in Slots, NEW w,
         ctl' = [ctl EXCEPT ![at] = w],
         ctl[at].st \notin {"NONE", "INIT", "CONNECTING"}, w.st \notin {"NONE", "INIT", "CONNECTING"},
         pc[l] \in AtUncounted, pc'[l] \in AtUncounted
  PROVE  Counts'
<1>1. /\ pc[l] \notin AtReserved \cup {"publish", "dead_none"}
      /\ pc'[l] \notin AtReserved \cup {"publish", "dead_none"}
      /\ ~HoldsHalfOpen(l) /\ ~HoldsHalfOpen(l)'
  BY UncountedThere
<1>2. QED BY <1>1, FilledCounts

LEMMA SynAckCounts ==
  ASSUME IInv, Counts, NEW l \in Lcores, SynAck(l)
  PROVE  Counts'
<1>1. pc[l] = "synack" /\ SwapSteps(l) /\ pc[l] \in AtUncounted
  BY DEF SynAck, SwapSteps, AtUncounted
<1>2. PICK at \in Slots : at = slot[l]
  BY <1>1, SwapOthers
<1>3. CASE ctl[slot[l]] = word[l]
  <2>1. PICK c : c = word[l]
    OBVIOUS
  <2>2. PICK w : w = Word("ESTABLISHED", c.gen, TRUE, c.fc, c.fs, c.isn, c.hs, c.of)
    OBVIOUS
  <2>3. ctl' = [ctl EXCEPT ![at] = w] /\ Goto(l, "synack_half")
    BY <1>2, <1>3, <2>1, <2>2 DEF SynAck
  <2>4. ctl[at].st = "CONNECTING" /\ key[l] = ctl[at].of
    <3>1. Held(l)
      BY KnownRegisters
    <3>2. word[l].st = "CONNECTING" /\ (SameEntry(ctl[slot[l]], word[l]) => key[l] = word[l].of)
      BY <1>1, <3>1 DEF Held, AtRead
    <3>3. QED BY <1>2, <1>3, <3>2 DEF SameEntry
  <2>5. pc'[l] = "synack_half" /\ key'[l] = key[l]
    BY <2>3, GoesOn
  <2>6. HoldsHalfOpen(l)' /\ ~HoldsHalfOpen(l)
    BY <1>1, <2>5 DEF HoldsHalfOpen
  <2>7. w.st = "ESTABLISHED"
    BY <2>2 DEF Word
  <2>8. /\ pc[l] \notin AtReserved \cup {"publish", "dead_none"}
        /\ pc'[l] \notin AtReserved \cup {"publish", "dead_none"}
    BY <1>1, <2>5 DEF AtReserved
  <2>9. QED BY <1>1, <2>3, <2>4, <2>5, <2>6, <2>7, <2>8, FilledCounts
<1>4. CASE ctl[slot[l]] # word[l]
  <2>1. UNCHANGED ctl /\ Goto(l, "idle")
    BY <1>4 DEF SynAck, Finish
  <2>2. pc'[l] \in AtUncounted
    BY <2>1, GoesOn DEF AtUncounted
  <2>3. QED BY <1>1, <2>1, <2>2, StayUncounted
<1>5. QED BY <1>3, <1>4

LEMMA SynAckPublishCounts ==
  ASSUME IInv, Counts, NEW l \in Lcores, SynAckPublish(l)
  PROVE  Counts'
<1>1. pc[l] = "synack_publish" /\ SwapSteps(l) /\ pc[l] \in AtUncounted
  BY DEF SynAckPublish, SwapSteps, AtUncounted
<1>2. PICK at \in Slots : at = slot[l]
  BY <1>1, SwapOthers
<1>3. PICK c : c = word[l]
  OBVIOUS
<1>4. PICK w : w = Word("ESTABLISHED", c.gen, FALSE, c.fc, c.fs, c.isn, c.hs, c.of)
  OBVIOUS
<1>5. ctl' = [ctl EXCEPT ![at] = w] /\ Goto(l, "synack_reply")
  BY <1>2, <1>3, <1>4 DEF SynAckPublish
<1>6. ctl[at].st = "ESTABLISHED" /\ w.st = "ESTABLISHED"
  BY <1>1, <1>2, <1>4, KnownRegisters DEF Owns, Word
<1>7. pc'[l] \in AtUncounted
  BY <1>5, GoesOn DEF AtUncounted
<1>8. QED BY <1>1, <1>5, <1>6, <1>7, SwapUncounted

LEMMA CloseSwapCounts ==
  ASSUME IInv, Counts, NEW l \in Lcores, CloseSwap(l)
  PROVE  Counts'
<1>1. pc[l] = "close_swap" /\ SwapSteps(l) /\ pc[l] \in AtUncounted
  BY DEF CloseSwap, SwapSteps, AtUncounted
<1>2. PICK at \in Slots : at = slot[l]
  BY <1>1, SwapOthers
<1>3. PICK to \in {"idle", "close"} : Goto(l, to)
  BY DEF CloseSwap, Finish
<1>4. pc'[l] \in AtUncounted
  BY <1>3, GoesOn DEF AtUncounted
<1>5. CASE UNCHANGED ctl
  BY <1>1, <1>4, <1>5, StayUncounted
<1>6. CASE ~UNCHANGED ctl
  <2>1. PICK w : w = WantClose(l)
    OBVIOUS
  <2>2. ctl[at] = word[l] /\ word[l].st \in Closable /\ ctl' = [ctl EXCEPT ![at] = w]
    BY <1>1, <1>2, <1>6, <2>1, KnownRegisters DEF CloseSwap, SwapSucceeds, Held
  <2>3. w.st \in {"CLOSED", "CLOSING", "CLIENT_FIN", "SERVER_FIN", "ESTABLISHED"}
    BY <2>1 DEF WantClose, Word
  <2>4. QED BY <1>1, <1>4, <2>2, <2>3, SwapUncounted DEF Closable
<1>7. QED BY <1>5, <1>6

LEMMA BypassCounts ==
  ASSUME IInv, Counts, NEW l \in Lcores, BypassSwap(l) \/ Recorded(l)
  PROVE  Counts'
<1>1. pc[l] \in {"bypass_swap", "recorded"} /\ SwapSteps(l) /\ pc[l] \in AtUncounted
  BY DEF BypassSwap, Recorded, SwapSteps, AtUncounted
<1>2. PICK at \in Slots : at = slot[l]
  BY <1>1, SwapOthers
<1>3. PICK to \in {"idle", "bypass", "record"} : Goto(l, to)
  BY DEF BypassSwap, Recorded, BypassAgain, Finish
<1>4. pc'[l] \in AtUncounted
  BY <1>3, GoesOn DEF AtUncounted
<1>5. CASE UNCHANGED ctl
  BY <1>1, <1>4, <1>5, StayUncounted
<1>6. CASE ~UNCHANGED ctl
  <2>1. PICK c : c = ctl[at]
    OBVIOUS
  <2>2. PICK w : w = IF pc[l] = "recorded" THEN Word(c.st, c.gen, FALSE, c.fc, c.fs, TRUE, c.hs, c.of)
                     ELSE WantBypass(l)
    OBVIOUS
  <2>3. ctl' = [ctl EXCEPT ![at] = w] /\ c.st = "BYPASSED" /\ (pc[l] # "recorded" => c = word[l])
    <3>1. Held(l) /\ Owns(l)
      BY KnownRegisters
    <3>2. CASE Recorded(l)
      BY <1>2, <2>1, <2>2, <3>1, <3>2 DEF Recorded, Owns
    <3>3. CASE BypassSwap(l)
      BY <1>2, <1>6, <2>1, <2>2, <3>1, <3>3 DEF BypassSwap, SwapSucceeds, Held
    <3>4. QED BY <3>2, <3>3
  <2>4. w.st = "BYPASSED"
    BY <2>2, <2>3 DEF Word, WantBypass
  <2>5. QED BY <1>1, <1>4, <2>1, <2>3, <2>4, SwapUncounted
<1>7. QED BY <1>5, <1>6

\* The lcore whose swap retires an entry takes over its charge.
LEMMA RetireCounts ==
  ASSUME IInv, Counts, NEW l \in Lcores, BypassRetire(l) \/ Free(l) \/ CleanRetire(l)
  PROVE  Counts'
<1>1. /\ pc[l] \in {"bypass_retire", "free", "clean_retire"} /\ SwapSteps(l) /\ pc[l] \in AtUncounted
  BY DEF BypassRetire, Free, CleanRetire, SwapSteps, AtUncounted
<1>2. PICK at \in Slots : at = slot[l]
  BY <1>1, SwapOthers
<1>3. Held(l) /\ RegisterTypes
  BY KnownRegisters DEF IInv, Types
<1>4. CASE Goto(l, "dead_delete")
  <2>1. pc'[l] = "dead_delete" /\ key'[l] = key[l]
    BY <1>4, GoesOn
  <2>2. pc'[l] # pc[l] /\ pc'[l] \notin {"idle", "bypass", "clean", "challenge"}
    BY <1>1, <2>1
  <2>3. \A to : Goto(l, to) => to = "dead_delete"
    BY <2>1, GoesOn
  <2>4. /\ SameEntry(ctl[at], word[l]) /\ Live(ctl[at]) /\ word'[l] = ctl[at]
        /\ \E c : ctl' = [ctl EXCEPT ![at] = DeadWord(c)]
    <3>1. CASE Free(l)
      <4>1. Retires(l) /\ ctl' = [ctl EXCEPT ![slot[l]] = DeadWord(@)] /\ word' = [word EXCEPT ![l] = ctl[slot[l]]]
        BY <2>3, <3>1 DEF Free, Afterwards
      <4>2. QED BY <1>2, <1>3, <4>1 DEF Retires, RegisterTypes
    <3>2. CASE BypassRetire(l) \/ CleanRetire(l)
      <4>1. ctl[slot[l]] = word[l] /\ ctl' = [ctl EXCEPT ![slot[l]] = DeadWord(word[l])] /\ Keep(l)
        BY <2>3, <3>2 DEF BypassRetire, CleanRetire, SwapSucceeds, BypassAgain, Afterwards, Finish
      <4>2. Live(word[l])
        BY <1>3, <3>2 DEF Held, BypassRetire, CleanRetire, Live
      <4>3. QED BY <1>2, <4>1, <4>2 DEF Keep, SameEntry
    <3>3. QED BY <3>1, <3>2
  <2>5. PICK w : ctl' = [ctl EXCEPT ![at] = w] /\ w.st = "DEAD"
    <3>1. PICK c : ctl' = [ctl EXCEPT ![at] = DeadWord(c)]
      BY <2>4
    <3>2. DeadWord(c).st = "DEAD"
      BY DEF DeadWord, Word
    <3>3. QED BY <3>1, <3>2
  <2>6. key[l] = ctl[at].of
    <3>1. SameEntry(ctl[slot[l]], word[l]) => key[l] = word[l].of
      BY <1>1, <1>3 DEF Held, AtRead
    <3>2. ReadBefore(slot[l], word[l])
      BY <1>1, <1>3 DEF Held, AtRead
    <3>3. QED BY <1>2, <2>4, <3>1, <3>2 DEF ReadBefore
  <2>7. HoldsHalfOpen(l)' <=> ctl[at].st = "CONNECTING"
    BY <2>1, <2>4 DEF HoldsHalfOpen
  <2>8. /\ pc[l] \notin AtReserved \cup {"publish", "dead_none"} /\ ~HoldsHalfOpen(l)
        /\ pc'[l] \notin AtReserved \cup {"publish", "dead_none"}
    BY <1>1, <2>1 DEF AtReserved, HoldsHalfOpen
  <2>9. ctl[at].st \notin {"NONE", "INIT"}
    BY <2>4 DEF Live
  <2>10. QED BY <1>1, <2>1, <2>5, <2>6, <2>7, <2>8, <2>9, FilledCounts
<1>5. CASE ~Goto(l, "dead_delete")
  <2>1. PICK to \in {"idle", "bypass", "clean", "challenge"} : Goto(l, to)
    BY <1>5 DEF BypassRetire, Free, CleanRetire, BypassAgain, Afterwards, Finish
  <2>2. pc'[l] \in AtUncounted
    BY <2>1, GoesOn DEF AtUncounted
  <2>3. UNCHANGED ctl
    BY <1>5 DEF BypassRetire, Free, CleanRetire
  <2>4. QED BY <1>1, <2>2, <2>3, StayUncounted
<1>6. QED BY <1>4, <1>5

LEMMA DeadNoneCounts ==
  ASSUME IInv, Counts, NEW l \in Lcores, DeadNone(l)
  PROVE  Counts'
<1>1. /\ pc[l] = "dead_none" /\ SwapSteps(l) /\ Goto(l, "dead_free")
  BY DEF DeadNone, SwapSteps
<1>2. /\ OthersWait(l) /\ slot[l] \in Slots /\ UNCHANGED <<entries_used, connections_active, half_open>>
  BY <1>1, SwapOthers
<1>3. PICK at \in Slots : at = slot[l]
  BY <1>2
<1>4. PICK w : ctl' = [ctl EXCEPT ![at] = w] /\ w.st = "NONE"
  <2>1. ctl' = [ctl EXCEPT ![at] = FreeWord(NextGen(word[l]))]
    BY <1>3 DEF DeadNone
  <2>2. FreeWord(NextGen(word[l])).st = "NONE"
    BY DEF FreeWord, Word
  <2>3. QED BY <2>1, <2>2
<1>5. ctl[at].st = "DEAD"
  BY <1>1, <1>3, KnownRegisters DEF Owns
<1>6. pc'[l] = "dead_free" /\ ~HoldsHalfOpen(l) /\ ~HoldsHalfOpen(l)'
  BY <1>1, GoesOn DEF HoldsHalfOpen
<1>7. In(w.st # "NONE") + In(pc'[l] \in AtReserved) = In(ctl[at].st # "NONE") + In(pc[l] \in AtReserved)
  BY <1>1, <1>4, <1>5, <1>6 DEF In, AtReserved
<1>8. In(w.st \notin {"NONE", "INIT"}) + In(pc'[l] = "publish") - In(pc'[l] = "dead_none")
           = In(ctl[at].st \notin {"NONE", "INIT"}) + In(pc[l] = "publish") - In(pc[l] = "dead_none")
  BY <1>1, <1>4, <1>5, <1>6 DEF In
<1>9. ASSUME NEW ip
      PROVE  In(w.st = "CONNECTING" /\ SourceOf[w.of] = ip) + In(HoldsHalfOpen(l)' /\ SourceOf[key'[l]] = ip)
                   = In(ctl[at].st = "CONNECTING" /\ SourceOf[ctl[at].of] = ip)
                       + In(HoldsHalfOpen(l) /\ SourceOf[key[l]] = ip)
  BY <1>4, <1>5, <1>6 DEF In
<1>10. ctl' = [ctl EXCEPT ![at] = w]
  BY <1>4
<1>11. QED BY <1>2, <1>7, <1>8, <1>9, <1>10, WordCounts

-----------------------------------------------------------------------------
(* The theorems.                                                             *)

LEMMA InitCounts == Init => Counts
<1>1. SUFFICES ASSUME Init PROVE Counts
  OBVIOUS
<1>2. /\ {s \in Slots : ctl[s].st # "NONE"} = {}
      /\ {s \in Slots : ctl[s].st \notin {"NONE", "INIT"}} = {}
      /\ \A ip : {s \in Slots : ctl[s].st = "CONNECTING" /\ SourceOf[ctl[s].of] = ip} = {}
  BY <1>1 DEF Init, FreeWord, Word
<1>3. /\ {l \in Lcores : pc[l] \in AtReserved} = {}
      /\ {l \in Lcores : pc[l] = "publish"} = {} /\ {l \in Lcores : pc[l] = "dead_none"} = {}
      /\ \A ip : {l \in Lcores : HoldsHalfOpen(l) /\ SourceOf[key[l]] = ip} = {}
  BY <1>1 DEF Init, AtReserved, HoldsHalfOpen
<1>4. entries_used = 0 /\ connections_active = 0 /\ half_open = [ip |-> None, n |-> 0]
  BY <1>1 DEF Init
<1>5. MaxConnections \in Nat /\ MaxHalfOpen \in Nat /\ Cardinality({}) = 0
  BY SynProxyAssumption, FS_EmptySet
<1>6. EntriesBalanced
  <2>1. /\ Cardinality({s \in Slots : ctl[s].st # "NONE"}) = 0
        /\ Cardinality({l \in Lcores : pc[l] \in AtReserved}) = 0
    BY <1>2, <1>3, <1>5, Zenon
  <2>2. /\ Cardinality({s \in Slots : ctl[s].st \notin {"NONE", "INIT"}}) = 0
        /\ Cardinality({l \in Lcores : pc[l] = "publish"}) = 0
        /\ Cardinality({l \in Lcores : pc[l] = "dead_none"}) = 0
    BY <1>2, <1>3, <1>5, Zenon
  <2>3. QED BY <1>4, <1>5, <2>1, <2>2 DEF EntriesBalanced
<1>7. ASSUME NEW ip
      PROVE  HalfOpen(ip) = 0
  <2>1. /\ Cardinality({s \in Slots : ctl[s].st = "CONNECTING" /\ SourceOf[ctl[s].of] = ip}) = 0
        /\ Cardinality({l \in Lcores : HoldsHalfOpen(l) /\ SourceOf[key[l]] = ip}) = 0
    BY <1>2, <1>3, <1>5, Zenon
  <2>2. QED BY <2>1 DEF HalfOpen
<1>8. HalfOpenBalanced /\ HalfOpenWord
  BY <1>4, <1>5, <1>7 DEF HalfOpenBalanced, HalfOpenWord
<1>9. QED BY <1>6, <1>8 DEF Counts

LEMMA CountsInductive == IInv /\ Counts /\ [Next]_vars => Counts'
<1>1. SUFFICES ASSUME IInv, Counts, [Next]_vars PROVE Counts'
  OBVIOUS
<1>2. CASE UNCHANGED vars
  BY <1>1, <1>2
     DEF vars, tableVars, fieldVars, countVars, packetVars, Counts, EntriesBalanced, HalfOpenBalanced,
         HalfOpenWord, Sources, HalfOpen, HoldsHalfOpen
<1>3. CASE Next
  <2>1. PICK l \in Lcores : QuietSteps(l) \/ SwapSteps(l)
    BY <1>3, StepKinds DEF SwapSteps
  <2>2. CASE QuietSteps(l)
    BY <1>1, <2>1, <2>2, QuietStepCounts
  <2>3. CASE SwapSteps(l)
    BY <1>1, <2>1, <2>3, ClaimCounts, PublishCounts, SynAckCounts, SynAckPublishCounts, CloseSwapCounts,
       BypassCounts, RetireCounts, DeadNoneCounts DEF SwapSteps
  <2>4. QED BY <2>1, <2>2, <2>3
<1>4. QED BY <1>1, <1>2, <1>3

\* The counts stay Naturals: every lcore that has counted an entry off has one.
LEMMA CountsAreNatural ==
  ASSUME IInv, Counts
  PROVE  entries_used \in Nat /\ connections_active \in Nat /\ half_open.n \in Nat
<1> DEFINE A == {s \in Slots : ctl[s].st \notin {"NONE", "INIT"}}
           B == {l \in Lcores : pc[l] = "publish"}
           D == {l \in Lcores : pc[l] = "dead_none"}
           E == {s \in Slots : ctl[s].st # "NONE"}
           F == {l \in Lcores : pc[l] \in AtReserved}
           f == [l \in D |-> slot[l]]
<1>1. IsFiniteSet(A) /\ IsFiniteSet(B) /\ IsFiniteSet(D) /\ IsFiniteSet(E) /\ IsFiniteSet(F)
  BY SynProxyAssumption, FS_Subset
<1>2. /\ Cardinality(A) \in Nat /\ Cardinality(B) \in Nat /\ Cardinality(D) \in Nat
      /\ Cardinality(E) \in Nat /\ Cardinality(F) \in Nat
  BY <1>1, FS_CardinalityType
<1>3. Cardinality(D) <= Cardinality(A)
  <2>1. ASSUME NEW l \in D PROVE slot[l] \in A
    <3>1. pc[l] \in AtOwner /\ pc[l] \in AtWork
      BY <2>1 DEF AtOwner, AtWork
    <3>2. ctl[slot[l]].st = "DEAD" /\ slot[l] \in Slots
      BY <2>1, <3>1, OwnerKnows DEF Owns
    <3>3. QED BY <3>2
  <2>2. \A l, m \in D : slot[l] = slot[m] => l = m
    BY DEF IInv, Exclusive, AtWork, AtOwner
  <2>3. f \in Injection(D, A)
    BY <2>1, <2>2 DEF Injection, IsInjective
  <2>4. QED BY <1>1, <2>3, FS_Injection
<1>4. entries_used = Cardinality(E) + Cardinality(F)
  BY DEF Counts, EntriesBalanced
<1>5. connections_active = Cardinality(A) + Cardinality(B) - Cardinality(D)
  BY DEF Counts, EntriesBalanced
<1>6. half_open.n \in Nat
  BY DEF Counts, HalfOpenWord
<1> HIDE DEF A, B, D, E, F
<1>7. QED BY <1>2, <1>3, <1>4, <1>5, <1>6

LEMMA Counting == Spec => []Counts
<1>1. Init => Counts
  BY InitCounts
<1>2. IInv /\ Counts /\ [Next]_vars => Counts'
  BY CountsInductive
<1>3. QED BY <1>1, <1>2, Invariant, PTL DEF Spec

\* Reservations, active connections and half-open places balance with the
\* entries on every path, neither maximum is exceeded, and no source is charged
\* for connections it does not have.
THEOREM CountsAreBalanced == Spec => []CountsBalanced
<1>1. Counts => CountsBalanced
  BY DEF Counts, CountsBalanced
<1>2. QED BY <1>1, Counting, PTL

\* The state keeps its types; no count is ever given back below zero.
THEOREM TypesAreKept == Spec => []TypeOK
<1>1. IInv /\ Counts => TypeOK
  BY CountsAreNatural DEF IInv, Types, SharedTypes, RegisterTypes, TypeOK
<1>2. QED BY <1>1, Invariant, Counting, PTL
=============================================================================
