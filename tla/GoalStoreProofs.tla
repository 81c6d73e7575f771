--------------------------- MODULE GoalStoreProofs ---------------------------
(***************************************************************************)
(* The goal store for any number of processes, goals and revisions: what   *)
(* was acknowledged is kept, the index of an open store is whole, and the  *)
(* revisions of a goal stay linear.                                        *)
(*                                                                         *)
(* None of the three is inductive.  A record is saved under the lock but   *)
(* was loaded without it, so GoalInv says what a record in hand can be     *)
(* compared with the stored one: its next revision, or already replaced    *)
(* (Derived, Prior); and an ordinal in hand is the next one or taken       *)
(* (Fresh).  For the holder of the lock it says how far its writes have    *)
(* come (Writes), and for the disk that the entry a power cut leaves is    *)
(* never older than what a save wrote itself (Durable).  A step of the holder *)
(* moves the files forward only (Forward), which keeps what the others     *)
(* have in hand.                                                           *)
(***************************************************************************)
EXTENDS GoalStore, FiniteSetTheorems, FunctionTheorems, SequenceTheorems, TLAPS

USE DEF ackVars

Records == [Ordinals -> GoalRecord \cup {None}]
Opened == {"idle", "ordinal", "orphan", "previous", "target", "load", "save", "recover",
           "history", "repair"}
Saving == {"write", "syncRecord", "index", "syncIndex", "adopt", "syncAdopt"}
Points == {"down", "opening"} \cup Opened \cup Saving
Kinds == {"none", "start", "progress", "close", "repair", "compact"}
Predecessors == [goal : Ordinals, record : GoalRecord]

\* An index as the store writes it: no goal twice, and none above the high-water mark.
IndexOK(i) ==
    /\ i \in [goals : Seq(Ordinals), high : 0 .. MaxOrdinal]
    /\ \A j, k \in DOMAIN i.goals : i.goals[j] = i.goals[k] => j = k
    /\ \A j \in DOMAIN i.goals : i.goals[j] <= i.high

FileTypes ==
    /\ recs \in Records /\ safeRecs \in Records /\ written \in Records
    /\ IndexOK(idx) /\ IndexOK(safeIdx)

CallTypes ==
    /\ pc \in [Procs -> Points]
    /\ kind \in [Procs -> Kinds]
    /\ objective \in [Procs -> Objectives \cup {None}]
    /\ goal \in [Procs -> 0 .. MaxOrdinal]
    /\ draft \in [Procs -> GoalRecord \cup {None}]
    /\ prev \in [Procs -> Predecessors \cup {None}]
    /\ todo \in [Procs -> SUBSET Ordinals]

\* Whoever writes files holds the lock, and nobody else does.
LockHeld == \A p \in Procs : pc[p] \in Saving \cup {"opening"} <=> lock = p

\* d is the next revision of r, and closed goals stay closed.
Follows(r, d) ==
    /\ r # None /\ d.objective = r.objective /\ d.at = r.at
    /\ d.revision = r.revision + 1
    /\ r.status # "active" => d.status = r.status

\* r still stands for what was acknowledged as a.
Keeps(a, r) ==
    r # None /\ r.objective = a.objective /\ r.at = a.at /\ r.revision >= a.revision

\* Goal g is the next one or an earlier one that somebody else has indexed since.
Fresh(g) == g \in Ordinals /\ g <= idx.high + 1 /\ (g <= idx.high => g \in Indexed)

\* Record d of goal g was made from the stored one, or from one that is replaced.
Derived(g, d) == g \in Indexed /\ (recs[g].revision >= d.revision \/ Follows(recs[g], d))

\* The goal to supersede, as it is or as it was.
Prior(v) ==
    /\ v.goal \in Indexed /\ v.record.status = "active"
    /\ recs[v.goal] = v.record \/ recs[v.goal].revision > v.record.revision

\* What a call has in hand when it is at l: k the call, o its objective, g the goal,
\* d the record, v the goal to supersede and t the goals left to repair.
Serves(l, k, o, g, d, v, t) ==
    /\ k = "start" => o \in Objectives
    /\ l \in {"ordinal", "orphan", "previous", "recover", "history"} => k = "start"
    /\ l = "target" => k \in {"progress", "close"}
    /\ l = "repair" => k = "repair"
    /\ l \in {"load", "save"} => k \notin {"none", "compact"}
    /\ l = "load" => g \in Indexed
    /\ l \in {"orphan", "previous"} => Fresh(g)
    /\ l = "previous" => d \in GoalRecord /\ d.revision = 1
    /\ l = "save" => /\ d \in GoalRecord
                     /\ (k = "start" /\ d.revision = 1 /\ Fresh(g)) \/ Derived(g, d)
    /\ v # None => Prior(v)
    /\ t \subseteq Indexed
    /\ l = "down" => v = None /\ t = {}

\* How far the holder of the lock has written record d of goal g.
Writes(l, g, d) ==
    /\ l \in Saving => g \in Ordinals /\ d \in GoalRecord
    /\ l = "write" => \/ g = idx.high + 1 /\ recs[g] = None
                      \/ g \in Indexed /\ Follows(recs[g], d)
    /\ l \in {"syncRecord", "index", "syncIndex", "adopt", "syncAdopt"} => recs[g] = d
    /\ l = "syncRecord" => g = idx.high + 1 \/ g \in Indexed
    /\ l \in {"index", "adopt"} => g = idx.high + 1
    /\ l \in {"index", "syncIndex"} => safeRecs[g] = d
    /\ l \in {"syncIndex", "syncAdopt"} => g \in Indexed

Serving(p) == Serves(pc[p], kind[p], objective[p], goal[p], draft[p], prev[p], todo[p])
Writing(p) == Writes(pc[p], goal[p], draft[p])

Awake == \E p \in Procs : pc[p] # "down"

\* Recovered, and kept so by every save.
Listed ==
    Awake => /\ \A g \in Indexed : recs[g] # None
             /\ Orphans \subseteq {idx.high + 1}
             /\ \A g \in Ordinals : written[g] # None => g \in Indexed

\* What was acknowledged is in the file, and in the entry a power cut leaves.
Durable ==
    \A g \in Ordinals : written[g] # None => Keeps(written[g], recs[g]) /\ Keeps(written[g], safeRecs[g])

GoalInv ==
    /\ FileTypes /\ CallTypes /\ LockHeld
    /\ \A p \in Procs : Serving(p) /\ Writing(p)
    /\ Listed /\ Durable

---------------------------------------------------------------------------
(* Facts about finite sets, by the smallest counterexample.                *)

\* A set of finite sets that is not empty has a member none of whose proper
\* subsets is in it.
LEMMA SmallestSet ==
    ASSUME NEW B, NEW X, B \subseteq FiniteSubsetsOf(X), B # {}
    PROVE  \E S \in B : \A T \in B : ~(T \subseteq S /\ T # S)
<1>1. PICK S \in B : \A T \in B : <<T, S>> \notin StrictSubsetOrdering(X)
  BY FS_StrictSubsetOrderingWellFounded, WFMin
<1>2. ASSUME NEW T \in B, T \subseteq S, T # S
      PROVE  FALSE
  BY <1>1, <1>2 DEF StrictSubsetOrdering, FiniteSubsetsOf
<1> QED
  BY <1>2

\* A finite set of numbers has a greatest and a least one.
LEMMA Extremes ==
    ASSUME NEW X \in SUBSET Nat, IsFiniteSet(X), X # {}
    PROVE  /\ MaxOf(X) \in X /\ \A x \in X : x <= MaxOf(X)
           /\ MinOf(X) \in X /\ \A x \in X : MinOf(X) <= x
<1> DEFINE HasBoth(S) == /\ \E n \in S : \A m \in S : m <= n
                         /\ \E n \in S : \A m \in S : n <= m
           B == {S \in FiniteSubsetsOf(X) : S # {} /\ ~HasBoth(S)}
<1>1. ASSUME B # {} PROVE FALSE
  <2>1. PICK S \in B : \A T \in B : ~(T \subseteq S /\ T # S)
    <3>1. B \subseteq FiniteSubsetsOf(X)
      OBVIOUS
    <3> HIDE DEF B
    <3> QED
      BY <1>1, <3>1, SmallestSet
  <2>2. PICK x : x \in S
    BY <2>1
  <2>3. S \in SUBSET X /\ IsFiniteSet(S) /\ x \in Nat
    BY <2>1, <2>2 DEF FiniteSubsetsOf
  <2>4. IsFiniteSet(S \ {x})
    BY <2>3, FS_RemoveElement
  <2>5. S \ {x} \notin B /\ S \ {x} \in FiniteSubsetsOf(X)
    BY <2>1, <2>2, <2>3, <2>4 DEF FiniteSubsetsOf
  <2>6. CASE S \ {x} = {}
    <3>1. S = {x}
      BY <2>2, <2>6
    <3> QED
      BY <2>1, <2>3, <3>1
  <2>7. CASE HasBoth(S \ {x})
    <3>1. PICK n \in S \ {x} : \A m \in S \ {x} : m <= n
      BY <2>7
    <3>2. PICK k \in S \ {x} : \A m \in S \ {x} : k <= m
      BY <2>7
    <3>3. n \in Nat /\ k \in Nat /\ S \subseteq Nat
      BY <2>3, <3>1, <3>2
    <3>4. \A m \in S : m <= (IF x <= n THEN n ELSE x)
      BY <2>3, <3>1, <3>3
    <3>5. \A m \in S : (IF k <= x THEN k ELSE x) <= m
      BY <2>3, <3>2, <3>3
    <3>6. HasBoth(S)
      BY <2>2, <3>1, <3>2, <3>4, <3>5
    <3> QED
      BY <2>1, <3>6
  <2> QED
    BY <2>5, <2>6, <2>7
<1>2. HasBoth(X)
  BY <1>1 DEF FiniteSubsetsOf
<1> QED
  BY <1>2 DEF MaxOf, MinOf

\* The members of a finite set can be numbered along a strict total order.
LEMMA Numbered ==
    ASSUME NEW X, IsFiniteSet(X), NEW R,
           \A x, y, z \in X : <<x, y>> \in R /\ <<y, z>> \in R => <<x, z>> \in R,
           \A x, y \in X : x # y => <<x, y>> \in R \/ <<y, x>> \in R
    PROVE  \E s \in [1 .. Cardinality(X) -> X] :
              \A i, j \in 1 .. Cardinality(X) : i < j => <<s[i], s[j]>> \in R
<1> DEFINE Sorts(s, S) == \A i, j \in 1 .. Cardinality(S) : i < j => <<s[i], s[j]>> \in R
           Last(S) == {x \in S : \A y \in S : y # x => <<y, x>> \in R}
           E == {S \in FiniteSubsetsOf(X) : S # {} /\ Last(S) = {}}
           B == {S \in FiniteSubsetsOf(X) : ~ \E s \in [1 .. Cardinality(S) -> S] : Sorts(s, S)}
<1>1. ASSUME E # {} PROVE FALSE
  <2>1. PICK S \in E : \A T \in E : ~(T \subseteq S /\ T # S)
    <3>1. E \subseteq FiniteSubsetsOf(X)
      OBVIOUS
    <3> HIDE DEF E
    <3> QED
      BY <1>1, <3>1, SmallestSet
  <2>2. PICK x : x \in S
    BY <2>1
  <2>3. S \in SUBSET X /\ IsFiniteSet(S)
    BY <2>1 DEF FiniteSubsetsOf
  <2>4. IsFiniteSet(S \ {x})
    BY <2>3, FS_RemoveElement
  <2>5. S \ {x} \notin E /\ S \ {x} \in FiniteSubsetsOf(X)
    <3>1. S \ {x} \subseteq S /\ S \ {x} # S
      BY <2>2
    <3>2. S \ {x} \notin E
      <4> HIDE DEF E
      <4> QED
        BY <2>1, <3>1
    <3>3. S \ {x} \in FiniteSubsetsOf(X)
      BY <2>3, <2>4 DEF FiniteSubsetsOf
    <3> QED
      BY <3>2, <3>3
  <2>6. CASE S \ {x} = {}
    BY <2>1, <2>2, <2>6
  <2>7. CASE Last(S \ {x}) # {}
    <3>1. PICK l \in S \ {x} : \A y \in S \ {x} : y # l => <<y, l>> \in R
      BY <2>7
    <3>2. CASE <<x, l>> \in R
      <4>1. l \in Last(S)
        BY <3>1, <3>2
      <4> QED
        BY <2>1, <4>1
    <3>3. CASE <<l, x>> \in R
      <4>1. x \in Last(S)
        BY <2>2, <2>3, <3>1, <3>3
      <4> QED
        BY <2>1, <4>1
    <3> QED
      BY <2>2, <2>3, <3>1, <3>2, <3>3
  <2> QED
    BY <2>5, <2>6, <2>7
<1>2. ASSUME B # {} PROVE FALSE
  <2>1. PICK S \in B : \A T \in B : ~(T \subseteq S /\ T # S)
    <3>1. B \subseteq FiniteSubsetsOf(X)
      OBVIOUS
    <3> HIDE DEF B
    <3> QED
      BY <1>2, <3>1, SmallestSet
  <2>2. S \in SUBSET X /\ IsFiniteSet(S) /\ ~ \E s \in [1 .. Cardinality(S) -> S] : Sorts(s, S)
    BY <2>1 DEF FiniteSubsetsOf
  <2>3. S # {}
    <3>1. SUFFICES ASSUME S = {} PROVE FALSE
      OBVIOUS
    <3>2. Cardinality(S) = 0
      BY <3>1, FS_EmptySet
    <3>3. [i \in 1 .. Cardinality(S) |-> i] \in [1 .. Cardinality(S) -> S]
      BY <3>2
    <3>4. \A s : Sorts(s, S)
      BY <3>2
    <3> QED
      BY <2>2, <3>3, <3>4
  <2>4. PICK l \in S : \A y \in S : y # l => <<y, l>> \in R
    BY <1>1, <2>2, <2>3 DEF FiniteSubsetsOf
  <2> DEFINE T == S \ {l}
             n == Cardinality(T)
  <2>5. IsFiniteSet(T) /\ n \in Nat /\ Cardinality(S) = n + 1
    <3>1. Cardinality(S) \in Nat
      BY <2>2, FS_CardinalityType
    <3>2. IsFiniteSet(T) /\ n = Cardinality(S) - 1
      BY <2>2, <2>4, FS_RemoveElement
    <3>3. n \in Nat
      BY <3>2, FS_CardinalityType
    <3> QED
      BY <3>1, <3>2, <3>3
  <2>6. PICK s \in [1 .. n -> T] : Sorts(s, T)
    <3>1. T \subseteq S /\ T # S
      BY <2>4
    <3>2. T \notin B
      <4> HIDE DEF B
      <4> QED
        BY <2>1, <3>1
    <3>3. T \in FiniteSubsetsOf(X)
      BY <2>2, <2>5 DEF FiniteSubsetsOf
    <3> QED
      BY <3>2, <3>3
  <2> HIDE DEF n
  <2> DEFINE r == [i \in 1 .. n + 1 |-> IF i = n + 1 THEN l ELSE s[i]]
  <2>7. r \in [1 .. n + 1 -> S]
    BY <2>4, <2>5, <2>6
  <2>8. ASSUME NEW i \in 1 .. n + 1, NEW j \in 1 .. n + 1, i < j
        PROVE  <<r[i], r[j]>> \in R
    <3>1. i \in 1 .. n /\ r[i] = s[i] /\ s[i] \in T
      BY <2>5, <2>6, <2>8
    <3>2. CASE j = n + 1
      BY <2>4, <3>1, <3>2
    <3>3. CASE j # n + 1
      <4>1. j \in 1 .. n /\ r[j] = s[j]
        BY <2>5, <3>3
      <4> QED
        BY <2>6, <2>8, <3>1, <4>1 DEF n
    <3> QED
      BY <3>2, <3>3
  <2> QED
    BY <2>2, <2>5, <2>7, <2>8
<1>3. X \in FiniteSubsetsOf(X)
  BY DEF FiniteSubsetsOf
<1> QED
  BY <1>2, <1>3

---------------------------------------------------------------------------
(* The operators of the store.                                             *)

\* The goals of an index.
LEMMA IndexedFacts ==
    ASSUME FileTypes
    PROVE  /\ idx.goals \in Seq(Ordinals) /\ idx.high \in 0 .. MaxOrdinal
           /\ DOMAIN idx.goals = 1 .. Len(idx.goals) /\ Len(idx.goals) \in Nat
           /\ Indexed \subseteq Ordinals /\ Recorded \subseteq Ordinals
           /\ \A g \in Indexed : g <= idx.high
           /\ Ordinals \subseteq Nat /\ IsFiniteSet(Ordinals)
<1>1. idx.goals \in Seq(Ordinals) /\ idx.high \in 0 .. MaxOrdinal
  BY DEF FileTypes, IndexOK
<1>2. DOMAIN idx.goals = 1 .. Len(idx.goals) /\ Len(idx.goals) \in Nat
  BY <1>1
<1>3. \A j \in DOMAIN idx.goals : idx.goals[j] \in Ordinals /\ idx.goals[j] <= idx.high
  BY <1>1, <1>2 DEF FileTypes, IndexOK
<1>4. Ordinals \subseteq Nat /\ IsFiniteSet(Ordinals)
  BY FS_Interval, LimitsAssumption DEF Ordinals
<1> QED
  BY <1>1, <1>2, <1>3, <1>4 DEF Indexed, Recorded

\* An index that names no goal twice is as long as it has goals.
LEMMA IndexCounts ==
    ASSUME FileTypes
    PROVE  Cardinality(Indexed) = Len(idx.goals)
<1> DEFINE n == Len(idx.goals)
<1>1. n \in Nat /\ DOMAIN idx.goals = 1 .. n /\ idx.goals \in [1 .. n -> Indexed]
  BY IndexedFacts DEF Indexed
<1>2. idx.goals \in Bijection(1 .. n, Indexed)
  BY <1>1 DEF FileTypes, IndexOK, Indexed, Bijection, Injection, Surjection, IsInjective
<1> QED
  BY <1>1, <1>2, FS_CountingElements DEF ExistsBijection

\* active() and history() return goals of the index.
LEMMA NewestIsMember ==
    ASSUME FileTypes, NEW S, S \cap Indexed # {}
    PROVE  Newest(S) \in S \cap Indexed
<1> DEFINE P == {j \in DOMAIN idx.goals : idx.goals[j] \in S}
<1>1. P \in SUBSET Nat /\ P \subseteq 1 .. Len(idx.goals) /\ P # {}
  BY IndexedFacts DEF Indexed
<1>2. IsFiniteSet(P)
  <2>1. IsFiniteSet(1 .. Len(idx.goals))
    BY IndexedFacts, FS_Interval
  <2> HIDE DEF P
  <2> QED
    BY <1>1, <2>1, FS_Subset
<1>3. MaxOf(P) \in P
  BY <1>1, <1>2, Extremes
<1> QED
  BY <1>3 DEF Newest, Indexed

\* The place of a goal in an index.
LEMMA PlaceOf ==
    ASSUME FileTypes, NEW g \in Indexed
    PROVE  Place(g) \in Nat /\ idx.goals[Place(g)] = g
<1>1. \E i \in DOMAIN idx.goals : idx.goals[i] = g
  BY DEF Indexed
<1> QED
  BY <1>1, IndexedFacts DEF Place

\* Precedes orders the goals with a record.
LEMMA PrecedesOrders ==
    ASSUME FileTypes
    PROVE  /\ \A g, h, k \in Recorded : Precedes(g, h) /\ Precedes(h, k) => Precedes(g, k)
           /\ \A g, h \in Recorded : g # h => Precedes(g, h) \/ Precedes(h, g)
           /\ \A g \in Recorded : ~Precedes(g, g)
<1>1. \A g \in Recorded : g \in Nat /\ recs[g].at \in Nat
  BY IndexedFacts, LimitsAssumption DEF FileTypes, Records, Recorded, GoalRecord
<1>2. \A g \in Indexed : Place(g) \in Nat
  BY PlaceOf
<1>3. \A g, h \in Indexed : Place(g) = Place(h) => g = h
  BY PlaceOf
<1> HIDE DEF Place
<1> QED
  BY <1>1, <1>2, <1>3 DEF Precedes, OlderOrphan

\* Recovery lists the goals with a record, each once.
LEMMA InOrderLists ==
    ASSUME FileTypes
    PROVE  /\ InOrder(Recorded) \in Seq(Ordinals)
           /\ \A i, j \in DOMAIN InOrder(Recorded) :
                 InOrder(Recorded)[i] = InOrder(Recorded)[j] => i = j
           /\ {InOrder(Recorded)[i] : i \in DOMAIN InOrder(Recorded)} = Recorded
<1> DEFINE n == Cardinality(Recorded)
           R == {gh \in Recorded \X Recorded : Precedes(gh[1], gh[2])}
           s == InOrder(Recorded)
<1>1. IsFiniteSet(Recorded) /\ n \in Nat
  BY IndexedFacts, FS_Subset, FS_CardinalityType
<1>2. \A g, h \in Recorded : <<g, h>> \in R <=> Precedes(g, h)
  OBVIOUS
<1>3. \E t \in [1 .. n -> Recorded] : \A i, j \in 1 .. n : i < j => <<t[i], t[j]>> \in R
  <2>1. /\ \A x, y, z \in Recorded : <<x, y>> \in R /\ <<y, z>> \in R => <<x, z>> \in R
        /\ \A x, y \in Recorded : x # y => <<x, y>> \in R \/ <<y, x>> \in R
    <3> HIDE DEF R
    <3> QED
      BY <1>2, PrecedesOrders
  <2> HIDE DEF R
  <2> QED
    BY <1>1, <2>1, Numbered
<1>4. \E t \in [1 .. n -> Recorded] : \A i, j \in DOMAIN t : i < j => Precedes(t[i], t[j])
  <2>1. PICK t \in [1 .. n -> Recorded] : \A i, j \in 1 .. n : i < j => <<t[i], t[j]>> \in R
    BY <1>3
  <2> HIDE DEF R
  <2> QED
    BY <1>2, <2>1
<1>5. s \in [1 .. n -> Recorded] /\ \A i, j \in DOMAIN s : i < j => Precedes(s[i], s[j])
  BY <1>4 DEF InOrder
<1> HIDE DEF s, n
<1>6. \A i, j \in 1 .. n : s[i] = s[j] => i = j
  <2> SUFFICES ASSUME NEW i \in 1 .. n, NEW j \in 1 .. n, s[i] = s[j], i # j PROVE FALSE
    OBVIOUS
  <2>1. i < j \/ j < i
    BY <1>1
  <2> QED
    BY <1>5, <2>1, PrecedesOrders
<1>7. s \in Injection(1 .. n, Recorded)
  BY <1>5, <1>6 DEF Injection, IsInjective
<1>8. Cardinality(1 .. n) = n /\ IsFiniteSet(1 .. n)
  BY <1>1, FS_Interval
<1>9. s \in Surjection(1 .. n, Recorded)
  BY <1>1, <1>7, <1>8, FS_Injection DEF n
<1>10. {s[i] : i \in 1 .. n} = Recorded
  BY <1>5, <1>9 DEF Surjection
<1>11. s \in Seq(Ordinals)
  BY <1>1, <1>5, IndexedFacts, SeqDef
<1> QED
  BY <1>5, <1>6, <1>10, <1>11 DEF s

\* The mark recovery writes: the old one, or that of a listed goal or an orphan.
LEMMA HighWaterFacts ==
    ASSUME FileTypes
    PROVE  /\ HighWater \in 0 .. MaxOrdinal /\ HighWater \in {idx.high} \cup Indexed \cup Orphans
           /\ idx.high <= HighWater /\ \A g \in Recorded : g <= HighWater
<1> DEFINE M == {idx.high} \cup Indexed \cup Orphans
<1>1. M \subseteq 0 .. MaxOrdinal
  BY IndexedFacts, LimitsAssumption DEF Orphans, Ordinals
<1>2. IsFiniteSet(M) /\ M \in SUBSET Nat /\ M # {}
  <2>1. IsFiniteSet(0 .. MaxOrdinal) /\ 0 .. MaxOrdinal \subseteq Nat /\ idx.high \in M
    BY FS_Interval, LimitsAssumption
  <2> HIDE DEF M
  <2> QED
    BY <1>1, <2>1, FS_Subset
<1>3. MaxOf(M) \in M /\ \A x \in M : x <= MaxOf(M)
  BY <1>2, Extremes
<1>4. HighWater = MaxOf(M)
  BY DEF HighWater
<1> QED
  BY <1>1, <1>3, <1>4, IndexedFacts DEF Orphans

\* An index that recovery wrote, or found as it would write it.
LEMMA RecoveredFacts ==
    ASSUME FileTypes
    PROVE  /\ IndexOK(Recovered)
           /\ {Recovered.goals[i] : i \in DOMAIN Recovered.goals} = Recorded
           /\ Recovered.high = HighWater
<1> DEFINE s == InOrder(Recorded)
<1>1. Recovered.goals = s /\ Recovered.high = HighWater
      /\ (s \in Seq(Ordinals) /\ HighWater \in 0 .. MaxOrdinal
            => Recovered \in [goals : Seq(Ordinals), high : 0 .. MaxOrdinal])
  BY DEF Recovered
<1> HIDE DEF s
<1>2. /\ s \in Seq(Ordinals) /\ \A i, j \in DOMAIN s : s[i] = s[j] => i = j
      /\ {s[i] : i \in DOMAIN s} = Recorded
  BY InOrderLists DEF s
<1>3. \A i \in DOMAIN s : s[i] <= HighWater
  BY <1>2, HighWaterFacts
<1>4. IndexOK(Recovered)
  BY <1>1, <1>2, <1>3, HighWaterFacts DEF IndexOK
<1> QED
  BY <1>1, <1>2, <1>4

---------------------------------------------------------------------------
(* A step of a call that changes no file.                                  *)

LEMMA GoalInit == Init => GoalInv
<1> SUFFICES ASSUME Init PROVE GoalInv
  OBVIOUS
<1>0. PICK n \in 0 .. MaxOrdinal : \E left \in [1 .. n -> NotedAndClosed] :
        /\ recs = [g \in Ordinals |-> IF g <= n THEN left[g] ELSE None]
        /\ idx = [goals |-> [i \in 1 .. n |-> i], high |-> n]
  BY DEF Init
<1>1. PICK left \in [1 .. n -> NotedAndClosed] :
        /\ recs = [g \in Ordinals |-> IF g <= n THEN left[g] ELSE None]
        /\ idx = [goals |-> [i \in 1 .. n |-> i], high |-> n]
  BY <1>0
<1>2. recs \in Records /\ IndexOK(idx) /\ \A g \in Ordinals : recs[g] # None => g \in Indexed
  <2>1. /\ idx.goals = [i \in 1 .. n |-> i] /\ idx.high = n /\ n \in Nat
        /\ \A i \in 1 .. n : i \in Ordinals
        /\ \A g \in Ordinals : g <= n => g \in 1 .. n
    BY <1>1, LimitsAssumption DEF Ordinals
  <2>2. idx.goals \in Seq(Ordinals) /\ DOMAIN idx.goals = 1 .. n
    BY <2>1
  <2>3. IndexOK(idx)
    BY <1>1, <2>1, <2>2 DEF IndexOK
  <2>4. ASSUME NEW r \in NotedAndClosed PROVE r \in GoalRecord
    <3>1. PICK o \in Objectives, a \in Times :
             r = [objective |-> o, at |-> a, status |-> "closed", progress |-> TRUE, revision |-> 3]
      BY DEF NotedAndClosed
    <3> QED
      BY <3>1 DEF GoalRecord
  <2>5. recs \in Records
    BY <1>1, <2>1, <2>4 DEF Records
  <2>6. \A g \in Ordinals : recs[g] # None => g \in Indexed
    BY <1>1, <2>1, <2>2 DEF Indexed
  <2> QED
    BY <2>3, <2>5, <2>6
<1>3. FileTypes
  BY <1>2 DEF Init, FileTypes
<1>4. CallTypes
  BY LimitsAssumption DEF Init, CallTypes, Points, Kinds, Ordinals
<1>5. LockHeld
  BY LimitsAssumption DEF Init, LockHeld, Saving
<1>6. \A p \in Procs : Serving(p) /\ Writing(p)
  BY DEF Init, Serving, Serves, Writing, Writes, Saving
<1>7. Listed
  BY DEF Init, Listed, Awake
<1>8. Durable
  BY <1>2 DEF Init, Durable, Keeps, Records, GoalRecord
<1> QED
  BY <1>3, <1>4, <1>5, <1>6, <1>7, <1>8 DEF GoalInv

Holding == Saving \cup {"opening"}

\* The call of p is at l after the step, with these in hand.
Moves(p, l, k, o, g, d, v, t) ==
    /\ pc' = [pc EXCEPT ![p] = l] /\ kind' = [kind EXCEPT ![p] = k]
    /\ objective' = [objective EXCEPT ![p] = o] /\ goal' = [goal EXCEPT ![p] = g]
    /\ draft' = [draft EXCEPT ![p] = d] /\ prev' = [prev EXCEPT ![p] = v]
    /\ todo' = [todo EXCEPT ![p] = t]
    /\ l \in Holding => lock' = p /\ lock \in {None, p}
    /\ l \notin Holding => lock' = IF lock = p THEN None ELSE lock

Hands(l, k, o, g, d, v, t) ==
    /\ l \in Points /\ k \in Kinds /\ o \in Objectives \cup {None} /\ g \in 0 .. MaxOrdinal
    /\ d \in GoalRecord \cup {None} /\ v \in Predecessors \cup {None} /\ t \in SUBSET Ordinals

\* The types and the lock after such a step, and what the other calls have.
LEMMA MovesTypes ==
    ASSUME CallTypes, LockHeld, NEW p \in Procs, NEW l, NEW k, NEW o, NEW g, NEW d, NEW v, NEW t,
           Hands(l, k, o, g, d, v, t), Moves(p, l, k, o, g, d, v, t)
    PROVE  /\ CallTypes' /\ LockHeld'
           /\ pc'[p] = l /\ kind'[p] = k /\ objective'[p] = o /\ goal'[p] = g /\ draft'[p] = d
           /\ prev'[p] = v /\ todo'[p] = t
           /\ \A q \in Procs \ {p} :
                 /\ pc'[q] = pc[q] /\ kind'[q] = kind[q] /\ objective'[q] = objective[q]
                 /\ goal'[q] = goal[q] /\ draft'[q] = draft[q] /\ prev'[q] = prev[q]
                 /\ todo'[q] = todo[q]
<1>1. CallTypes'
  BY DEF CallTypes, Moves, Hands
<1>2. LockHeld'
  <2>1. pc' = [pc EXCEPT ![p] = l] /\ pc \in [Procs -> Points] /\ None \notin Procs
    BY LimitsAssumption DEF CallTypes, Moves
  <2>2. \A q \in Procs : pc[q] \in Holding <=> lock = q
    BY DEF LockHeld, Holding
  <2>3. \A q \in Procs : pc'[q] \in Holding <=> lock' = q
    <3>1. CASE l \in Holding
      <4>1. lock' = p /\ lock \in {None, p}
        BY <3>1 DEF Moves
      <4> QED
        BY <2>1, <2>2, <3>1, <4>1
    <3>2. CASE l \notin Holding
      <4>1. lock' = IF lock = p THEN None ELSE lock
        BY <3>2 DEF Moves
      <4> QED
        BY <2>1, <2>2, <3>2, <4>1
    <3> QED
      BY <3>1, <3>2
  <2> QED
    BY <2>3 DEF LockHeld, Holding
<1> QED
  BY <1>1, <1>2 DEF CallTypes, Moves

\* A step that changes no file keeps the invariant if what p has in hand is right.
LEMMA LocalKeeps ==
    ASSUME GoalInv, UNCHANGED <<fileVars, ackVars>>, NEW p \in Procs, pc[p] # "down",
           NEW l, NEW k, NEW o, NEW g, NEW d, NEW v, NEW t,
           Hands(l, k, o, g, d, v, t), Moves(p, l, k, o, g, d, v, t),
           Serves(l, k, o, g, d, v, t), Writes(l, g, d)
    PROVE  GoalInv'
<1>1. UNCHANGED <<recs, idx, safeRecs, safeIdx, written>>
  BY DEF fileVars
<1>2. CallTypes /\ LockHeld /\ FileTypes /\ Listed /\ Durable
      /\ \A q \in Procs : Serving(q) /\ Writing(q)
  BY DEF GoalInv
<1>3. FileTypes' /\ Durable'
  BY <1>1, <1>2 DEF FileTypes, Durable, Keeps
<1>4. /\ Indexed' = Indexed /\ Orphans' = Orphans
      /\ \A x : Fresh(x)' <=> Fresh(x)
  BY <1>1 DEF Indexed, Orphans, Recorded, Fresh
<1>5. /\ \A x, y : Derived(x, y)' <=> Derived(x, y)
      /\ \A x : Prior(x)' <=> Prior(x)
  BY <1>1, <1>4 DEF Derived, Prior, Follows
<1>6. Listed'
  <2>1. Awake
    BY DEF Awake
  <2> QED
    BY <1>1, <1>2, <1>4, <2>1 DEF Listed
<1>7. /\ CallTypes' /\ LockHeld'
      /\ pc'[p] = l /\ kind'[p] = k /\ objective'[p] = o /\ goal'[p] = g /\ draft'[p] = d
      /\ prev'[p] = v /\ todo'[p] = t
      /\ \A q \in Procs \ {p} :
            /\ pc'[q] = pc[q] /\ kind'[q] = kind[q] /\ objective'[q] = objective[q]
            /\ goal'[q] = goal[q] /\ draft'[q] = draft[q] /\ prev'[q] = prev[q]
            /\ todo'[q] = todo[q]
  BY <1>2, MovesTypes
<1>8. Serving(p)' /\ Writing(p)'
  BY <1>1, <1>4, <1>5, <1>7 DEF Serving, Serves, Writing, Writes, Follows
<1>9. \A q \in Procs \ {p} : Serving(q)' /\ Writing(q)'
  <2> SUFFICES ASSUME NEW q \in Procs \ {p} PROVE Serving(q)' /\ Writing(q)'
    OBVIOUS
  <2>1. Serving(q) /\ Writing(q)
    BY <1>2
  <2> QED
    BY <1>1, <1>4, <1>5, <1>7, <2>1 DEF Serving, Serves, Writing, Writes, Follows
<1> QED
  BY <1>3, <1>6, <1>7, <1>8, <1>9 DEF GoalInv

---------------------------------------------------------------------------
(* The steps of a call between its writes.                                 *)

\* A call that is over has nothing in hand.
LEMMA EndKeeps ==
    ASSUME GoalInv, UNCHANGED <<fileVars, ackVars>>, NEW p \in Procs, pc[p] # "down",
           NEW l \in {"idle", "down"}, End(p, l)
    PROVE  GoalInv'
<1>1. Hands(l, "none", None, 0, None, None, {})
  BY LimitsAssumption DEF Hands, Points, Opened, Kinds
<1>2. Moves(p, l, "none", None, 0, None, None, {})
  BY DEF Moves, End, Goto, Unlock, Forget, Holding, Saving
<1>3. Serves(l, "none", None, 0, None, None, {}) /\ Writes(l, 0, None)
  BY DEF Serves, Writes, Saving
<1> QED
  BY <1>1, <1>2, <1>3, LocalKeeps

\* What the call of p has in hand, from the invariant.
LEMMA InHand ==
    ASSUME GoalInv, NEW p \in Procs
    PROVE  /\ Hands(pc[p], kind[p], objective[p], goal[p], draft[p], prev[p], todo[p])
           /\ Serves(pc[p], kind[p], objective[p], goal[p], draft[p], prev[p], todo[p])
           /\ Writes(pc[p], goal[p], draft[p])
           /\ pc[p] \in Holding <=> lock = p
  BY DEF GoalInv, CallTypes, Hands, Serving, Writing, LockHeld, Holding

\* An awake process finds a recovered index.
LEMMA AwakeFacts ==
    ASSUME GoalInv, NEW p \in Procs, pc[p] # "down"
    PROVE  /\ FileTypes /\ Awake
           /\ \A g \in Indexed : g \in Ordinals /\ recs[g] \in GoalRecord /\ recs[g] # None
           /\ Orphans \subseteq {idx.high + 1}
           /\ \A g \in Ordinals : written[g] # None => g \in Indexed
<1>1. Awake /\ FileTypes /\ Listed
  BY DEF Awake, GoalInv
<1>2. \A g \in Indexed : g \in Ordinals /\ recs[g] # None
  BY <1>1, IndexedFacts DEF Listed
<1>3. \A g \in Ordinals : recs[g] \in GoalRecord \cup {None}
  BY <1>1 DEF FileTypes, Records
<1> QED
  BY <1>1, <1>2, <1>3 DEF Listed

\* A conflict goes back to the reading, or ends the call.
LEMMA ConflictKeeps ==
    ASSUME GoalInv, UNCHANGED <<fileVars, ackVars>>, NEW p \in Procs,
           pc[p] \in {"ordinal", "previous", "target", "save"}, Conflict(p),
           lock # p
    PROVE  GoalInv'
<1> DEFINE k == kind[p]
           o == objective[p]
<1>1. /\ Hands(pc[p], k, o, goal[p], draft[p], prev[p], todo[p])
      /\ Serves(pc[p], k, o, goal[p], draft[p], prev[p], todo[p])
      /\ CallTypes /\ pc[p] # "down"
  BY InHand DEF GoalInv
<1>2. CASE k = "start" /\ Goto(p, "recover") /\ Forget(p) /\ UNCHANGED <<lock, kind, objective, todo>>
  <2>1. Hands("recover", k, o, 0, None, None, todo[p])
    BY <1>1, LimitsAssumption DEF Hands, Points, Opened
  <2>2. Moves(p, "recover", k, o, 0, None, None, todo[p])
    BY <1>1, <1>2 DEF Moves, Goto, Forget, Holding, Saving, CallTypes
  <2>3. Serves("recover", k, o, 0, None, None, todo[p]) /\ Writes("recover", 0, None)
    BY <1>1, <1>2 DEF Serves, Writes, Saving
  <2> QED
    BY <1>1, <2>1, <2>2, <2>3, LocalKeeps
<1>3. CASE k = "repair" /\ Goto(p, "load") /\ UNCHANGED <<lock, kind, objective, todo, goal, draft, prev>>
  <2>1. pc[p] = "save" /\ goal[p] \in Indexed
    BY <1>1, <1>3 DEF Serves, Derived
  <2>2. Hands("load", k, o, goal[p], draft[p], prev[p], todo[p])
    BY <1>1 DEF Hands, Points, Opened
  <2>3. Moves(p, "load", k, o, goal[p], draft[p], prev[p], todo[p])
    BY <1>1, <1>3 DEF Moves, Goto, Holding, Saving, CallTypes
  <2>4. Serves("load", k, o, goal[p], draft[p], prev[p], todo[p]) /\ Writes("load", goal[p], draft[p])
    BY <1>1, <1>3, <2>1 DEF Serves, Writes, Saving
  <2> QED
    BY <1>1, <2>2, <2>3, <2>4, LocalKeeps
<1>4. CASE k \notin {"repair", "start"} /\ Goto(p, "target") /\ Forget(p) /\ UNCHANGED <<lock, kind, objective, todo>>
  <2>1. k \in {"progress", "close"}
    BY <1>1, <1>4 DEF Serves, Hands, Kinds
  <2>2. Hands("target", k, o, 0, None, None, todo[p])
    BY <1>1, LimitsAssumption DEF Hands, Points, Opened
  <2>3. Moves(p, "target", k, o, 0, None, None, todo[p])
    BY <1>1, <1>4 DEF Moves, Goto, Forget, Holding, Saving, CallTypes
  <2>4. Serves("target", k, o, 0, None, None, todo[p]) /\ Writes("target", 0, None)
    BY <1>1, <1>4, <2>1 DEF Serves, Writes, Saving
  <2> QED
    BY <1>1, <2>2, <2>3, <2>4, LocalKeeps
<1>5. CASE Return(p)
  BY <1>1, <1>5, EndKeeps DEF Return
<1> QED
  BY <1>2, <1>3, <1>4, <1>5 DEF Conflict

\* The calls begin.
LEMMA BeginKeeps ==
    ASSUME GoalInv, NEW p \in Procs,
           (\E o \in Objectives : Start(p, o)) \/ (\E k \in {"progress", "close"} : Update(p, k))
    PROVE  GoalInv'
<1>0. /\ Hands(pc[p], kind[p], objective[p], goal[p], draft[p], prev[p], todo[p])
      /\ Serves(pc[p], kind[p], objective[p], goal[p], draft[p], prev[p], todo[p])
      /\ pc[p] \in Holding <=> lock = p
      /\ CallTypes
  BY InHand DEF GoalInv
<1>1. ASSUME NEW o \in Objectives, Start(p, o) PROVE GoalInv'
  <2>1. /\ Hands("ordinal", "start", o, goal[p], draft[p], prev[p], todo[p])
        /\ Serves("ordinal", "start", o, goal[p], draft[p], prev[p], todo[p])
        /\ Writes("ordinal", goal[p], draft[p])
    BY <1>0 DEF Hands, Points, Opened, Kinds, Serves, Writes, Saving
  <2>2. Moves(p, "ordinal", "start", o, goal[p], draft[p], prev[p], todo[p])
    BY <1>0, <1>1 DEF Moves, Start, Goto, Holding, Saving, CallTypes
  <2> QED
    BY <1>1, <2>1, <2>2, LocalKeeps DEF Start
<1>2. ASSUME NEW k \in {"progress", "close"}, Update(p, k) PROVE GoalInv'
  <2>1. /\ Hands("target", k, objective[p], goal[p], draft[p], prev[p], todo[p])
        /\ Serves("target", k, objective[p], goal[p], draft[p], prev[p], todo[p])
        /\ Writes("target", goal[p], draft[p])
    BY <1>0 DEF Hands, Points, Opened, Kinds, Serves, Writes, Saving
  <2>2. Moves(p, "target", k, objective[p], goal[p], draft[p], prev[p], todo[p])
    BY <1>0, <1>2 DEF Moves, Update, Goto, Holding, Saving, CallTypes
  <2> QED
    BY <1>2, <2>1, <2>2, LocalKeeps DEF Update
<1> QED
  BY <1>1, <1>2

\* The next revision of a record.
LEMMA Revisions ==
    ASSUME NEW r \in GoalRecord
    PROVE  /\ r # None /\ r.revision \in Nat /\ r.revision >= 1 /\ r.revision + 1 \in Nat \ {0}
           /\ [r EXCEPT !.progress = FALSE, !.revision = @ + 1] \in GoalRecord
           /\ Superseded(r) \in GoalRecord
           /\ Superseded(r).revision = r.revision + 1
           /\ r.status = "active" => Follows(r, Superseded(r))
           /\ \A k : /\ Changed(r, k) \in GoalRecord
                     /\ r.status = "active" => Follows(r, Changed(r, k))
           /\ r.status # "active"
                 => Follows(r, [r EXCEPT !.progress = FALSE, !.revision = @ + 1])
<1>1. r # None /\ r.revision \in Nat /\ r.revision >= 1 /\ r.revision + 1 \in Nat \ {0}
  BY NoneAssumption DEF GoalRecord
<1>2. /\ [r EXCEPT !.progress = FALSE, !.revision = @ + 1] \in GoalRecord
      /\ r.status # "active"
            => Follows(r, [r EXCEPT !.progress = FALSE, !.revision = @ + 1])
  BY <1>1 DEF GoalRecord, Follows
<1>3. /\ Superseded(r) \in GoalRecord /\ Superseded(r).revision = r.revision + 1
      /\ r.status = "active" => Follows(r, Superseded(r))
  BY <1>1 DEF GoalRecord, Follows, Superseded
<1>4. ASSUME NEW k PROVE Changed(r, k) \in GoalRecord /\ (r.status = "active" => Follows(r, Changed(r, k)))
  <2>1. CASE k = "progress"
    BY <1>1, <2>1 DEF GoalRecord, Follows, Changed
  <2>2. CASE k # "progress"
    BY <1>1, <2>2 DEF GoalRecord, Follows, Changed
  <2> QED
    BY <2>1, <2>2
<1> QED
  BY <1>1, <1>2, <1>3, <1>4

\* A call reads.
LEMMA ReadKeeps ==
    ASSUME GoalInv, NEW p \in Procs,
           \/ Compact(p) \/ NextOrdinal(p) \/ LoadOrphan(p) \/ ListPrevious(p)
           \/ ListTarget(p) \/ LoadTarget(p)
    PROVE  GoalInv'
<1> DEFINE k == kind[p]
           o == objective[p]
           g == goal[p]
           d == draft[p]
           v == prev[p]
           t == todo[p]
<1>0. /\ Hands(pc[p], k, o, g, d, v, t) /\ Serves(pc[p], k, o, g, d, v, t)
      /\ pc[p] \in Holding <=> lock = p
      /\ CallTypes
  BY InHand DEF GoalInv
<1>1. pc[p] # "down" /\ UNCHANGED <<fileVars, ackVars>>
  BY DEF Compact, NextOrdinal, LoadOrphan, ListPrevious, ListTarget, LoadTarget
<1>2. /\ FileTypes /\ \A x \in Indexed : x \in Ordinals /\ recs[x] \in GoalRecord /\ recs[x] # None
      /\ idx.high \in Nat /\ Ordinals \subseteq 0 .. MaxOrdinal
  BY <1>1, AwakeFacts, IndexedFacts, LimitsAssumption DEF Ordinals
<1>3. CASE Compact(p)
  <2>1. PICK x \in Indexed :
           /\ recs[x].status # "active"
           /\ goal' = [goal EXCEPT ![p] = x]
           /\ draft' = [draft EXCEPT ![p] = [recs[x] EXCEPT !.progress = FALSE, !.revision = @ + 1]]
    BY <1>3 DEF Compact, CompactOne, ToCompact
  <2> DEFINE e == [recs[x] EXCEPT !.progress = FALSE, !.revision = @ + 1]
  <2>2. x \in Ordinals /\ e \in GoalRecord /\ Follows(recs[x], e)
    BY <1>2, <2>1, Revisions
  <2>3. draft' = [draft EXCEPT ![p] = e]
    BY <2>1
  <2> HIDE DEF e
  <2>4. Hands("write", "compact", o, x, e, v, t)
    BY <1>0, <1>2, <2>2 DEF Hands, Points, Saving, Kinds
  <2>5. Moves(p, "write", "compact", o, x, e, v, t)
    BY <1>0, <1>3, <2>1, <2>3 DEF Moves, Compact, CompactOne, Goto, Holding, Saving, CallTypes
  <2>6. Serves("write", "compact", o, x, e, v, t) /\ Writes("write", x, e)
    BY <1>0, <2>2 DEF Serves, Writes, Saving
  <2> QED
    BY <1>1, <2>4, <2>5, <2>6, LocalKeeps
<1>4. CASE NextOrdinal(p)
  <2> DEFINE x == idx.high + 1
  <2>1. x \in Ordinals /\ Fresh(x) /\ x \in 0 .. MaxOrdinal
    BY <1>2, <1>4, LimitsAssumption DEF NextOrdinal, Ordinals, Fresh
  <2>2. goal' = [goal EXCEPT ![p] = x]
    BY <1>4 DEF NextOrdinal
  <2> HIDE DEF x
  <2>3. Hands("orphan", k, o, x, d, v, t)
    BY <1>0, <2>1 DEF Hands, Points, Opened
  <2>4. Moves(p, "orphan", k, o, x, d, v, t)
    BY <1>0, <1>4, <2>2 DEF Moves, NextOrdinal, Goto, Holding, Saving, CallTypes
  <2>5. Serves("orphan", k, o, x, d, v, t) /\ Writes("orphan", x, d)
    BY <1>0, <1>4, <2>1 DEF Serves, Writes, Saving, NextOrdinal
  <2> QED
    BY <1>1, <2>3, <2>4, <2>5, LocalKeeps
<1>5. CASE LoadOrphan(p)
  <2>1. k = "start" /\ o \in Objectives /\ Fresh(g) /\ g \in Ordinals
    BY <1>0, <1>5 DEF Serves, LoadOrphan, Fresh
  <2>2. recs[g] \in GoalRecord \cup {None}
    BY <1>2, <2>1 DEF FileTypes, Records
  <2>3. PICK e \in GoalRecord : e.revision = 1 /\ draft' = [draft EXCEPT ![p] = e]
    <3>1. CASE Equivalent(recs[g], o)
      BY <1>5, <2>2, <3>1 DEF LoadOrphan, Equivalent
    <3>2. CASE ~Equivalent(recs[g], o)
      <4>1. PICK now \in Times : draft' = [draft EXCEPT ![p] =
                [objective |-> o, at |-> now, status |-> "active", progress |-> FALSE, revision |-> 1]]
        BY <1>5, <3>2 DEF LoadOrphan
      <4>2. [objective |-> o, at |-> now, status |-> "active", progress |-> FALSE, revision |-> 1]
               \in GoalRecord
        BY <2>1 DEF GoalRecord
      <4> QED
        BY <4>1, <4>2
    <3> QED
      BY <3>1, <3>2
  <2>4. Hands("previous", k, o, g, e, v, t)
    BY <1>0 DEF Hands, Points, Opened
  <2>5. Moves(p, "previous", k, o, g, e, v, t)
    BY <1>0, <1>5, <2>3 DEF Moves, LoadOrphan, Goto, Holding, Saving, CallTypes
  <2>6. Serves("previous", k, o, g, e, v, t) /\ Writes("previous", g, e)
    BY <1>0, <2>1, <2>3 DEF Serves, Writes, Saving
  <2> QED
    BY <1>1, <2>4, <2>5, <2>6, LocalKeeps
<1>6. Active \subseteq Indexed /\ (Active # {} => Newest(Active) \in Active)
  BY <1>2, NewestIsMember DEF Active
<1>7. CASE ListPrevious(p)
  <2>1. CASE Return(p)
    BY <1>1, <2>1, EndKeeps DEF Return
  <2>2. CASE ~Return(p)
    <3> DEFINE x == Newest(Active)
               w == [goal |-> x, record |-> recs[x]]
    <3>1. prev' = [prev EXCEPT ![p] = IF Active = {} THEN None ELSE w]
      BY <1>7, <2>2 DEF ListPrevious
    <3>2. Active # {} => w \in Predecessors /\ Prior(w)
      BY <1>2, <1>6 DEF Predecessors, Prior, Active
    <3> HIDE DEF x, w
    <3>3. PICK u \in Predecessors \cup {None} :
             prev' = [prev EXCEPT ![p] = u] /\ (u # None => Prior(u))
      BY <3>1, <3>2
    <3>4. Fresh(g) /\ d \in GoalRecord /\ d.revision = 1 /\ k = "start"
      BY <1>0, <1>7 DEF Serves, ListPrevious
    <3>5. Hands("save", k, o, g, d, u, t)
      BY <1>0 DEF Hands, Points, Opened
    <3>6. Moves(p, "save", k, o, g, d, u, t)
      BY <1>0, <1>7, <2>2, <3>3 DEF Moves, ListPrevious, Goto, Holding, Saving, CallTypes
    <3>7. Serves("save", k, o, g, d, u, t) /\ Writes("save", g, d)
      BY <1>0, <3>3, <3>4 DEF Serves, Writes, Saving
    <3> QED
      BY <1>1, <3>5, <3>6, <3>7, LocalKeeps
  <2> QED
    BY <2>1, <2>2
<1>8. CASE ListTarget(p)
  <2>1. CASE Return(p)
    BY <1>1, <2>1, EndKeeps DEF Return
  <2>2. CASE ~Return(p)
    <3>1. PICK x \in Indexed : goal' = [goal EXCEPT ![p] = x] /\ x \in 0 .. MaxOrdinal
      BY <1>2, <1>6, <1>8, <2>2 DEF ListTarget
    <3>2. Hands("load", k, o, x, d, v, t)
      BY <1>0, <3>1 DEF Hands, Points, Opened
    <3>3. Moves(p, "load", k, o, x, d, v, t)
      BY <1>0, <1>8, <2>2, <3>1 DEF Moves, ListTarget, Goto, Holding, Saving, CallTypes
    <3>4. Serves("load", k, o, x, d, v, t) /\ Writes("load", x, d)
      BY <1>0, <1>8, <3>1 DEF Serves, Writes, Saving, ListTarget
    <3> QED
      BY <1>1, <3>2, <3>3, <3>4, LocalKeeps
  <2> QED
    BY <2>1, <2>2
<1>9. CASE LoadTarget(p)
  <2>1. g \in Indexed /\ recs[g] \in GoalRecord /\ g \in Ordinals
    BY <1>0, <1>2, <1>9 DEF Serves, LoadTarget
  <2>2. CASE Return(p)
    BY <1>1, <2>2, EndKeeps DEF Return
  <2>3. CASE /\ recs[g].status = "active" /\ draft' = [draft EXCEPT ![p] = Changed(recs[g], k)]
             /\ Goto(p, "save") /\ UNCHANGED <<lock, kind, objective, tries, goal, prev, todo>>
    <3> DEFINE e == Changed(recs[g], k)
    <3>1. e \in GoalRecord /\ Follows(recs[g], e)
      BY <2>1, <2>3, Revisions
    <3>2. draft' = [draft EXCEPT ![p] = e]
      BY <2>3
    <3> HIDE DEF e
    <3>3. Hands("save", k, o, g, e, v, t)
      BY <1>0, <3>1 DEF Hands, Points, Opened
    <3>4. Moves(p, "save", k, o, g, e, v, t)
      BY <1>0, <1>9, <2>3, <3>2 DEF Moves, LoadTarget, Goto, Holding, Saving, CallTypes
    <3>5. Serves("save", k, o, g, e, v, t) /\ Writes("save", g, e)
      BY <1>0, <1>9, <2>1, <3>1 DEF Serves, Writes, Saving, Derived, LoadTarget
    <3> QED
      BY <1>1, <3>3, <3>4, <3>5, LocalKeeps
  <2>4. CASE /\ k = "repair" /\ todo' = [todo EXCEPT ![p] = @ \ {goal[p]}]
             /\ Goto(p, "repair") /\ Forget(p) /\ UNCHANGED <<lock, kind, objective>>
    <3>1. Hands("repair", k, o, 0, None, None, t \ {g})
      BY <1>0, LimitsAssumption DEF Hands, Points, Opened
    <3>2. Moves(p, "repair", k, o, 0, None, None, t \ {g})
      BY <1>0, <1>9, <2>4 DEF Moves, LoadTarget, Goto, Forget, Holding, Saving, CallTypes
    <3>3. Serves("repair", k, o, 0, None, None, t \ {g}) /\ Writes("repair", 0, None)
      BY <1>0, <2>4 DEF Serves, Writes, Saving
    <3> QED
      BY <1>1, <3>1, <3>2, <3>3, LocalKeeps
  <2> QED
    BY <1>9, <2>2, <2>3, <2>4 DEF LoadTarget
<1> QED
  BY <1>3, <1>4, <1>5, <1>7, <1>8, <1>9

\* save() takes the lock and checks what it is given before it writes.
LEMMA SaveKeeps ==
    ASSUME GoalInv, NEW p \in Procs, Save(p)
    PROVE  GoalInv'
<1> DEFINE k == kind[p]
           o == objective[p]
           g == goal[p]
           d == draft[p]
           v == prev[p]
           t == todo[p]
<1>0. /\ Hands(pc[p], k, o, g, d, v, t) /\ Serves(pc[p], k, o, g, d, v, t)
      /\ pc[p] = "save" /\ lock = None /\ lock # p /\ CallTypes
      /\ UNCHANGED <<fileVars, ackVars>>
  BY InHand, LimitsAssumption DEF GoalInv, Save
<1>1. /\ FileTypes /\ \A x \in Indexed : x \in Ordinals /\ recs[x] \in GoalRecord /\ recs[x] # None
      /\ Orphans \subseteq {idx.high + 1} /\ idx.high \in Nat
  BY <1>0, AwakeFacts, IndexedFacts
<1>2. CASE Conflict(p)
  BY <1>0, <1>2, ConflictKeeps
<1>3. CASE Return(p)
  BY <1>0, <1>3, EndKeeps DEF Return
<1>4. CASE /\ Adopts(p) \/ d.revision = Expected(p)
           /\ lock' = p /\ Goto(p, IF Adopts(p) THEN "adopt" ELSE "write") /\ UNCHANGED callVars
  <2> DEFINE l == IF Adopts(p) THEN "adopt" ELSE "write"
  <2>1. d \in GoalRecord /\ d # None /\ d.revision \in Nat \ {0} /\ g \in Ordinals
    BY <1>0, <1>1, Revisions DEF Serves, Fresh, Derived, GoalRecord
  <2>2. recs[g] \in GoalRecord \cup {None}
    BY <1>1, <2>1 DEF FileTypes, Records
  <2>3. Writes(l, g, d)
    <3>1. CASE Adopts(p)
      <4>1. recs[g] = d /\ g \in Orphans
        BY <2>1, <3>1 DEF Adopts, IsNew, Orphans, Recorded
      <4>2. g = idx.high + 1
        BY <1>1, <4>1
      <4> QED
        BY <2>1, <3>1, <4>1, <4>2 DEF Writes, Saving
    <3>2. CASE ~Adopts(p)
      <4>1. d.revision = Expected(p)
        BY <1>4, <3>2
      <4>2. CASE k = "start" /\ d.revision = 1 /\ Fresh(g)
        <5>1. recs[g] = None
          <6>1. recs[g] \in GoalRecord => recs[g].revision \in Nat /\ recs[g].revision >= 1
            BY Revisions
          <6> QED
            BY <2>2, <4>1, <4>2, <6>1 DEF Expected
        <5>2. g \notin Indexed /\ g = idx.high + 1
          BY <1>1, <2>1, <4>2, <5>1 DEF Fresh, Ordinals
        <5> QED
          BY <2>1, <3>2, <5>1, <5>2 DEF Writes, Saving
      <4>3. CASE Derived(g, d)
        <5>1. g \in Indexed /\ recs[g] \in GoalRecord /\ d.revision = recs[g].revision + 1
          BY <1>1, <4>1, <4>3 DEF Derived, Expected
        <5>2. Follows(recs[g], d)
          <6>1. recs[g].revision \in Nat
            BY <5>1, Revisions
          <6>2. ~(recs[g].revision >= d.revision)
            BY <5>1, <6>1
          <6> QED
            BY <4>3, <6>2 DEF Derived
        <5> QED
          BY <2>1, <3>2, <5>1, <5>2 DEF Writes, Saving
      <4> QED
        BY <1>0, <4>2, <4>3 DEF Serves
    <3> QED
      BY <3>1, <3>2
  <2>4. Hands(l, k, o, g, d, v, t)
    BY <1>0 DEF Hands, Points, Saving
  <2>5. Moves(p, l, k, o, g, d, v, t)
    BY <1>0, <1>4 DEF Moves, Goto, Holding, Saving, CallTypes, callVars
  <2>6. Serves(l, k, o, g, d, v, t)
    BY <1>0 DEF Serves
  <2> QED
    BY <1>0, <2>3, <2>4, <2>5, <2>6, LocalKeeps
<1> QED
  BY <1>2, <1>3, <1>4 DEF Save

\* The lock is refused; a start looks for its goal; older goals are repaired.
LEMMA RecoverKeeps ==
    ASSUME GoalInv, NEW p \in Procs, Busy(p) \/ RecoverStart(p) \/ ListHistory(p) \/ Repair(p)
    PROVE  GoalInv'
<1> DEFINE k == kind[p]
           o == objective[p]
           g == goal[p]
           d == draft[p]
           v == prev[p]
           t == todo[p]
<1>0. /\ Hands(pc[p], k, o, g, d, v, t) /\ Serves(pc[p], k, o, g, d, v, t)
      /\ pc[p] \in Opened /\ lock # p /\ CallTypes /\ pc[p] # "down"
      /\ UNCHANGED <<fileVars, ackVars>>
  <2>1. pc[p] \in Opened /\ UNCHANGED <<fileVars, ackVars>>
    BY DEF Busy, RecoverStart, ListHistory, Repair, Opened
  <2>2. pc[p] \notin Holding /\ pc[p] # "down"
    BY <2>1 DEF Opened, Holding, Saving
  <2> QED
    BY <2>1, <2>2, InHand DEF GoalInv
<1>1. /\ FileTypes /\ \A x \in Indexed : x \in Ordinals
      /\ Ordinals \subseteq 0 .. MaxOrdinal
      /\ Active \subseteq Indexed /\ (Active # {} => Newest(Active) \in Active)
  <2>1. FileTypes /\ \A x \in Indexed : x \in Ordinals
    BY <1>0, AwakeFacts
  <2> QED
    BY <2>1, NewestIsMember, LimitsAssumption DEF Active, Ordinals
<1>2. CASE Return(p)
  BY <1>0, <1>2, EndKeeps DEF Return
<1>3. CASE pc[p] \in {"ordinal", "previous", "target", "save"} /\ Conflict(p)
  BY <1>0, <1>3, ConflictKeeps
<1>4. CASE /\ pc[p] = "recover" /\ Goto(p, "ordinal")
           /\ UNCHANGED <<lock, kind, objective, goal, draft, prev, todo>>
  <2>1. Hands("ordinal", k, o, g, d, v, t)
    BY <1>0 DEF Hands, Points, Opened
  <2>2. Moves(p, "ordinal", k, o, g, d, v, t)
    BY <1>0, <1>4 DEF Moves, Goto, Holding, Saving, CallTypes
  <2>3. Serves("ordinal", k, o, g, d, v, t) /\ Writes("ordinal", g, d)
    BY <1>0, <1>4 DEF Serves, Writes, Saving
  <2> QED
    BY <1>0, <2>1, <2>2, <2>3, LocalKeeps
<1>5. CASE /\ pc[p] = "recover" /\ Active # {} /\ goal' = [goal EXCEPT ![p] = Newest(Active)]
           /\ Goto(p, "history") /\ UNCHANGED <<lock, kind, objective, draft, prev, todo>>
  <2>1. PICK x \in Indexed : goal' = [goal EXCEPT ![p] = x] /\ x \in 0 .. MaxOrdinal
    BY <1>1, <1>5
  <2>2. Hands("history", k, o, x, d, v, t)
    BY <1>0, <2>1 DEF Hands, Points, Opened
  <2>3. Moves(p, "history", k, o, x, d, v, t)
    BY <1>0, <1>5, <2>1 DEF Moves, Goto, Holding, Saving, CallTypes
  <2>4. Serves("history", k, o, x, d, v, t) /\ Writes("history", x, d)
    BY <1>0, <1>5 DEF Serves, Writes, Saving
  <2> QED
    BY <1>0, <2>2, <2>3, <2>4, LocalKeeps
<1>6. CASE /\ todo' = [todo EXCEPT ![p] = Active \ {goal[p]}]
           /\ kind' = [kind EXCEPT ![p] = "repair"]
           /\ objective' = [objective EXCEPT ![p] = None]
           /\ Goto(p, "repair") /\ Forget(p) /\ UNCHANGED lock
  <2> DEFINE a == Active \ {goal[p]}
  <2>1. a \subseteq Indexed /\ a \in SUBSET Ordinals /\ todo' = [todo EXCEPT ![p] = a]
    BY <1>1, <1>6
  <2> HIDE DEF a
  <2>2. Hands("repair", "repair", None, 0, None, None, a)
    BY <2>1, LimitsAssumption DEF Hands, Points, Opened, Kinds
  <2>3. Moves(p, "repair", "repair", None, 0, None, None, a)
    BY <1>0, <1>6, <2>1 DEF Moves, Goto, Forget, Holding, Saving
  <2>4. Serves("repair", "repair", None, 0, None, None, a) /\ Writes("repair", 0, None)
    BY <2>1 DEF Serves, Writes, Saving
  <2> QED
    BY <1>0, <2>2, <2>3, <2>4, LocalKeeps
<1>7. CASE /\ pc[p] = "repair" /\ todo[p] # {} /\ goal' = [goal EXCEPT ![p] = MinOf(todo[p])]
           /\ Goto(p, "load") /\ UNCHANGED <<lock, kind, objective, draft, prev, todo>>
  <2>1. t \in SUBSET Nat /\ IsFiniteSet(t) /\ t \subseteq Indexed
    BY <1>0, <1>1, IndexedFacts, FS_Subset DEF Hands, Serves
  <2>2. MinOf(t) \in t
    BY <1>7, <2>1, Extremes
  <2>3. PICK x \in Indexed : goal' = [goal EXCEPT ![p] = x] /\ x \in 0 .. MaxOrdinal
    BY <1>1, <1>7, <2>1, <2>2
  <2>4. Hands("load", k, o, x, d, v, t)
    BY <1>0, <2>3 DEF Hands, Points, Opened
  <2>5. Moves(p, "load", k, o, x, d, v, t)
    BY <1>0, <1>7, <2>3 DEF Moves, Goto, Holding, Saving, CallTypes
  <2>6. Serves("load", k, o, x, d, v, t) /\ Writes("load", x, d)
    BY <1>0, <1>7 DEF Serves, Writes, Saving
  <2> QED
    BY <1>0, <2>4, <2>5, <2>6, LocalKeeps
<1>8. CASE Busy(p)
  BY <1>2, <1>3, <1>4, <1>8 DEF Busy
<1>9. CASE RecoverStart(p)
  BY <1>2, <1>4, <1>5, <1>9 DEF RecoverStart, Committed
<1>10. CASE ListHistory(p)
  BY <1>2, <1>6, <1>10 DEF ListHistory
<1>11. CASE Repair(p)
  BY <1>2, <1>7, <1>11 DEF Repair
<1> QED
  BY <1>8, <1>9, <1>10, <1>11

\* A call fails, or its process is killed.
LEMMA FaultKeeps ==
    ASSUME GoalInv, NEW p \in Procs, IoFails(p) \/ Crash(p)
    PROVE  GoalInv'
<1>1. UNCHANGED <<fileVars, ackVars>> /\ (End(p, "idle") \/ End(p, "down"))
  BY DEF IoFails, Crash
<1>2. pc[p] # "down"
  BY InHand DEF IoFails, Crash, Holding, Saving
<1> QED
  BY <1>1, <1>2, EndKeeps

---------------------------------------------------------------------------
(* The steps that write files.                                             *)

\* Goals stay indexed, and an indexed record changes only into its next revision.
Forward ==
    /\ Indexed \subseteq Indexed'
    /\ \A g \in Indexed : \/ recs'[g] = recs[g]
                          \/ recs'[g] # None /\ recs'[g].revision = recs[g].revision + 1
    /\ \A g : Fresh(g) => Fresh(g)'

\* What a call has in hand outlives such a step of somebody else.
LEMMA ForwardServes ==
    ASSUME \A x \in Indexed : recs[x] \in GoalRecord, Forward,
           NEW l, NEW k, NEW o, NEW g, NEW d, NEW v, NEW t,
           Hands(l, k, o, g, d, v, t), Serves(l, k, o, g, d, v, t)
    PROVE  Serves(l, k, o, g, d, v, t)'
<1>1. ASSUME d \in GoalRecord, Derived(g, d) PROVE Derived(g, d)'
  <2>1. g \in Indexed' /\ recs[g].revision \in Nat /\ d.revision \in Nat
    BY <1>1, Revisions DEF Derived, Forward
  <2>2. CASE recs'[g] = recs[g]
    BY <1>1, <2>1, <2>2 DEF Derived, Follows
  <2>3. CASE recs'[g].revision = recs[g].revision + 1
    <3>1. recs[g].revision >= d.revision \/ d.revision = recs[g].revision + 1
      BY <1>1 DEF Derived, Follows
    <3>2. recs'[g].revision >= d.revision
      BY <2>1, <2>3, <3>1
    <3> QED
      BY <2>1, <3>2 DEF Derived
  <2> QED
    BY <1>1, <2>2, <2>3 DEF Forward, Derived
<1>2. ASSUME v # None, Prior(v) PROVE Prior(v)'
  <2>1. /\ v.goal \in Indexed /\ v.goal \in Indexed' /\ v.record.status = "active"
        /\ recs[v.goal].revision \in Nat /\ v.record.revision \in Nat
    BY <1>2, Revisions DEF Prior, Forward, Hands, Predecessors
  <2>2. CASE recs'[v.goal] = recs[v.goal]
    BY <1>2, <2>1, <2>2 DEF Prior
  <2>3. CASE recs'[v.goal].revision = recs[v.goal].revision + 1
    <3>1. recs'[v.goal].revision > v.record.revision
      BY <1>2, <2>1, <2>3 DEF Prior
    <3> QED
      BY <2>1, <3>1 DEF Prior
  <2> QED
    BY <2>1, <2>2, <2>3 DEF Forward
<1>3. Indexed \subseteq Indexed' /\ (Fresh(g) => Fresh(g)')
  BY DEF Forward
<1> HIDE DEF Derived, Prior, Fresh
<1> QED
  BY <1>1, <1>2, <1>3 DEF Serves

\* A step of the holder of the lock keeps the invariant if the files stay right
\* and so does what the holder has in hand.
LEMMA FileKeeps ==
    ASSUME GoalInv, NEW p \in Procs, lock \in {None, p},
           Forward \/ \A q \in Procs \ {p} : pc[q] = "down",
           FileTypes', Listed', Durable',
           NEW l, NEW k, NEW o, NEW g, NEW d, NEW v, NEW t,
           Hands(l, k, o, g, d, v, t), Moves(p, l, k, o, g, d, v, t),
           Serving(p)', Writing(p)'
    PROVE  GoalInv'
<1>1. /\ CallTypes' /\ LockHeld'
      /\ pc'[p] = l /\ kind'[p] = k /\ objective'[p] = o /\ goal'[p] = g /\ draft'[p] = d
      /\ prev'[p] = v /\ todo'[p] = t
      /\ \A q \in Procs \ {p} :
            /\ pc'[q] = pc[q] /\ kind'[q] = kind[q] /\ objective'[q] = objective[q]
            /\ goal'[q] = goal[q] /\ draft'[q] = draft[q] /\ prev'[q] = prev[q]
            /\ todo'[q] = todo[q]
  BY MovesTypes DEF GoalInv
<1>2. ASSUME NEW q \in Procs \ {p} PROVE Serving(q)' /\ Writing(q)'
  <2>1. /\ Hands(pc[q], kind[q], objective[q], goal[q], draft[q], prev[q], todo[q])
        /\ Serves(pc[q], kind[q], objective[q], goal[q], draft[q], prev[q], todo[q])
        /\ pc[q] \notin Holding
    BY InHand, LimitsAssumption
  <2>2. pc'[q] \notin Saving
    BY <1>1, <2>1 DEF Holding
  <2>3. Writing(q)'
    BY <2>2 DEF Writing, Writes, Saving
  <2>4. CASE pc[q] = "down"
    <3>1. pc'[q] = "down" /\ prev'[q] = None /\ todo'[q] = {}
          /\ (kind'[q] = "start" => objective'[q] \in Objectives)
      BY <1>1, <2>1, <2>4 DEF Serves
    <3>2. Serving(q)'
      BY <3>1 DEF Serving, Serves
    <3> QED
      BY <2>3, <3>2
  <2>5. CASE pc[q] # "down" /\ Forward
    <3>1. \A x \in Indexed : recs[x] \in GoalRecord
      BY <2>5, AwakeFacts
    <3>2. PICK l1, k1, o1, g1, d1, v1, t1 :
             /\ pc[q] = l1 /\ kind[q] = k1 /\ objective[q] = o1 /\ goal[q] = g1
             /\ draft[q] = d1 /\ prev[q] = v1 /\ todo[q] = t1
      OBVIOUS
    <3>3. Hands(l1, k1, o1, g1, d1, v1, t1) /\ Serves(l1, k1, o1, g1, d1, v1, t1)
      BY <2>1, <3>2
    <3>4. Serves(l1, k1, o1, g1, d1, v1, t1)'
      BY <2>5, <3>1, <3>3, ForwardServes
    <3>5. /\ pc'[q] = l1 /\ kind'[q] = k1 /\ objective'[q] = o1 /\ goal'[q] = g1
          /\ draft'[q] = d1 /\ prev'[q] = v1 /\ todo'[q] = t1
      BY <1>1, <3>2
    <3>6. Serving(q)'
      BY <3>4, <3>5 DEF Serving
    <3> QED
      BY <2>3, <3>6
  <2> QED
    BY <2>4, <2>5
<1> QED
  BY <1>1, <1>2 DEF GoalInv

\* open() leaves an index of exactly the goals with a record.
LEMMA OpenKeeps ==
    ASSUME GoalInv, NEW p \in Procs, Open(p)
    PROVE  GoalInv'
<1> DEFINE k == kind[p]
           o == objective[p]
           g == goal[p]
           d == draft[p]
           v == prev[p]
           t == todo[p]
<1>1. /\ Hands("down", k, o, g, d, v, t) /\ Serves("down", k, o, g, d, v, t)
      /\ pc[p] = "down" /\ lock = None /\ idx' = Recovered
      /\ UNCHANGED <<recs, safeRecs, safeIdx, written, callVars>>
      /\ FileTypes /\ Listed /\ Durable /\ CallTypes
  BY InHand DEF GoalInv, Open
<1>2. PICK l \in {"idle", "opening"} :
         Goto(p, l) /\ (l = "idle" => lock' = lock) /\ (l = "opening" => lock' = p)
  BY DEF Open
<1>3. IndexOK(idx)' /\ Indexed' = Recorded /\ idx'.high = HighWater
  BY <1>1, RecoveredFacts DEF IndexOK, Indexed
<1>4. FileTypes' /\ Durable'
  BY <1>1, <1>3 DEF FileTypes, Durable, Keeps, IndexOK
<1>5. Listed'
  <2>1. Recorded' = Recorded /\ Orphans' = {}
    BY <1>1, <1>3 DEF Orphans, Recorded
  <2>2. \A x \in Ordinals : written[x] # None => x \in Recorded
    BY <1>1 DEF Durable, Keeps, Recorded
  <2> QED
    BY <1>1, <1>3, <2>1, <2>2 DEF Listed, Recorded
<1>6. ASSUME NEW q \in Procs, pc[q] # "down" PROVE Forward
  <2>1. /\ \A x \in Indexed : x \in Ordinals /\ recs[x] # None
        /\ Orphans \subseteq {idx.high + 1}
    BY <1>6, AwakeFacts
  <2>2. Indexed \subseteq Recorded /\ Orphans \subseteq Recorded
    BY <2>1 DEF Recorded, Orphans
  <2>3. /\ idx.high \in Nat /\ HighWater \in Nat /\ idx.high <= HighWater
        /\ HighWater \in {idx.high} \cup Indexed \cup Orphans
        /\ \A x \in Indexed : x <= idx.high /\ x \in Nat
        /\ Ordinals \subseteq Nat
    BY <1>1, HighWaterFacts, IndexedFacts, LimitsAssumption
  <2>4. HighWater = idx.high \/ (HighWater = idx.high + 1 /\ idx.high + 1 \in Recorded)
    BY <2>1, <2>2, <2>3
  <2>5. ASSUME NEW x, Fresh(x) PROVE Fresh(x)'
    <3>1. x \in Ordinals /\ x \in Nat /\ x <= idx.high + 1 /\ (x <= idx.high => x \in Recorded)
      BY <2>2, <2>3, <2>5 DEF Fresh
    <3>2. x <= HighWater + 1 /\ (x <= HighWater => x \in Recorded)
      BY <2>3, <2>4, <3>1
    <3> QED
      BY <1>3, <3>1, <3>2 DEF Fresh
  <2> QED
    BY <1>1, <1>3, <2>2, <2>5 DEF Forward
<1>7. Forward \/ \A q \in Procs \ {p} : pc[q] = "down"
  BY <1>6
<1>8. Hands(l, k, o, g, d, v, t)
  BY <1>1, <1>2 DEF Hands, Points, Opened
<1>9. Moves(p, l, k, o, g, d, v, t)
  BY <1>1, <1>2, LimitsAssumption DEF Moves, Goto, Holding, Saving, CallTypes, callVars
<1>10. v = None /\ t = {} /\ (k = "start" => o \in Objectives)
  BY <1>1 DEF Serves
<1>11. pc'[p] = l /\ UNCHANGED <<k, o, g, d, v, t>>
  BY <1>1, <1>2 DEF callVars, Goto, CallTypes
<1>12. Serving(p)' /\ Writing(p)'
  BY <1>2, <1>10, <1>11 DEF Serving, Serves, Writing, Writes, Saving
<1> QED
  BY <1>1, <1>4, <1>5, <1>7, <1>8, <1>9, <1>12, FileKeeps

\* A step that leaves the records and the index as they are is no step back.
LEMMA StayForward ==
    ASSUME UNCHANGED <<recs, idx>>
    PROVE  /\ Forward /\ Indexed' = Indexed /\ Orphans' = Orphans
           /\ \A x : Fresh(x)' <=> Fresh(x)
           /\ \A x, y : Derived(x, y)' <=> Derived(x, y)
           /\ \A x : Prior(x)' <=> Prior(x)
<1>1. /\ Indexed' = Indexed /\ Orphans' = Orphans
      /\ \A x : Fresh(x)' <=> Fresh(x)
  BY DEF Indexed, Orphans, Recorded, Fresh
<1> QED
  BY <1>1 DEF Forward, Derived, Prior, Follows

\* open() returns once the index it wrote is on the disk.
LEMMA FinishOpenKeeps ==
    ASSUME GoalInv, NEW p \in Procs, FinishOpen(p)
    PROVE  GoalInv'
<1> DEFINE k == kind[p]
           o == objective[p]
           g == goal[p]
           d == draft[p]
           v == prev[p]
           t == todo[p]
<1>1. /\ Hands("opening", k, o, g, d, v, t) /\ Serves("opening", k, o, g, d, v, t)
      /\ pc[p] = "opening" /\ lock = p /\ safeIdx' = idx /\ Unlock(p) /\ Goto(p, "idle")
      /\ UNCHANGED <<recs, idx, safeRecs, written, callVars>>
      /\ FileTypes /\ Listed /\ Durable /\ CallTypes /\ Awake
  BY InHand DEF GoalInv, FinishOpen, Holding, Awake
<1>2. /\ Forward /\ Indexed' = Indexed /\ Orphans' = Orphans
      /\ \A x : Prior(x)' <=> Prior(x)
  BY <1>1, StayForward
<1>3. FileTypes' /\ Durable' /\ Listed'
  BY <1>1, <1>2 DEF FileTypes, IndexOK, Durable, Keeps, Listed
<1>4. Hands("idle", k, o, g, d, v, t)
  BY <1>1 DEF Hands, Points, Opened
<1>5. Moves(p, "idle", k, o, g, d, v, t)
  BY <1>1 DEF Moves, Goto, Unlock, Holding, Saving, CallTypes, callVars
<1>6. pc'[p] = "idle" /\ UNCHANGED <<k, o, g, d, v, t>>
  BY <1>1 DEF callVars, Goto, CallTypes
<1>7. Serving(p)' /\ Writing(p)'
  BY <1>1, <1>2, <1>6 DEF Serving, Serves, Writing, Writes, Saving
<1> QED
  BY <1>1, <1>2, <1>3, <1>4, <1>5, <1>7, FileKeeps

\* The record is renamed into place.
LEMMA PublishRecordKeeps ==
    ASSUME GoalInv, NEW p \in Procs, PublishRecord(p)
    PROVE  GoalInv'
<1> DEFINE k == kind[p]
           o == objective[p]
           g == goal[p]
           d == draft[p]
           v == prev[p]
           t == todo[p]
<1>1. /\ Hands("write", k, o, g, d, v, t) /\ Serves("write", k, o, g, d, v, t)
      /\ Writes("write", g, d) /\ pc[p] = "write" /\ lock = p
      /\ recs' = [recs EXCEPT ![g] = d] /\ Goto(p, "syncRecord")
      /\ UNCHANGED <<idx, safeRecs, safeIdx, written, lock, callVars>>
      /\ FileTypes /\ Listed /\ Durable /\ CallTypes /\ Awake
  BY InHand DEF GoalInv, PublishRecord, Holding, Saving, Awake
<1>2. /\ \A x \in Indexed : x \in Ordinals /\ recs[x] \in GoalRecord /\ x <= idx.high
      /\ Orphans \subseteq {idx.high + 1} /\ idx.high \in Nat
      /\ recs \in Records
  BY <1>1, AwakeFacts, IndexedFacts DEF FileTypes
<1>3. /\ g \in Ordinals /\ d \in GoalRecord /\ d # None
      /\ (g = idx.high + 1 /\ recs[g] = None) \/ (g \in Indexed /\ Follows(recs[g], d))
  BY <1>1, Revisions DEF Writes, Saving
<1>4. /\ recs' \in Records /\ recs'[g] = d
      /\ \A x \in Ordinals \ {g} : recs'[x] = recs[x]
  BY <1>1, <1>2, <1>3 DEF Records
<1>5. /\ Indexed' = Indexed /\ \A x : Fresh(x)' <=> Fresh(x)
  BY <1>1 DEF Indexed, Fresh
<1>6. FileTypes'
  BY <1>1, <1>4 DEF FileTypes, IndexOK
<1>7. Forward
  <2> SUFFICES ASSUME NEW x \in Indexed
               PROVE  recs'[x] = recs[x] \/ (recs'[x] # None /\ recs'[x].revision = recs[x].revision + 1)
    BY <1>5 DEF Forward
  <2> QED
    BY <1>2, <1>3, <1>4 DEF Follows
<1>8. Listed'
  <2>1. \A x \in Indexed' : recs'[x] # None
    BY <1>2, <1>3, <1>4, <1>5, NoneAssumption
  <2>2. Orphans' \subseteq {idx'.high + 1}
    BY <1>1, <1>2, <1>3, <1>4, <1>5 DEF Orphans, Recorded
  <2> QED
    BY <1>1, <1>5, <2>1, <2>2 DEF Listed
<1>9. Durable'
  <2> SUFFICES ASSUME NEW x \in Ordinals, written[x] # None
               PROVE  Keeps(written[x], recs'[x]) /\ Keeps(written[x], safeRecs[x])
    BY <1>1 DEF Durable
  <2>1. Keeps(written[x], recs[x]) /\ Keeps(written[x], safeRecs[x])
    BY <1>1 DEF Durable
  <2>2. CASE x # g
    BY <1>4, <2>1, <2>2
  <2>3. CASE x = g
    <3>1. Follows(recs[g], d)
      BY <1>3, <2>1, <2>3 DEF Keeps
    <3>2. recs[g] \in GoalRecord /\ written[g] \in GoalRecord
      BY <1>1, <1>2, <1>3, <2>1, <2>3 DEF FileTypes, Records, Keeps
    <3>3. recs[g].revision \in Nat /\ written[g].revision \in Nat
      BY <3>2, Revisions
    <3> QED
      BY <1>3, <1>4, <2>1, <2>3, <3>1, <3>3 DEF Keeps, Follows
  <2> QED
    BY <2>2, <2>3
<1>10. Hands("syncRecord", k, o, g, d, v, t)
  BY <1>1 DEF Hands, Points, Saving
<1>11. Moves(p, "syncRecord", k, o, g, d, v, t)
  BY <1>1 DEF Moves, Goto, Holding, Saving, CallTypes, callVars
<1>12. pc'[p] = "syncRecord" /\ UNCHANGED <<k, o, g, d, v, t>>
  BY <1>1 DEF callVars, Goto, CallTypes
<1>13. Serving(p)'
  <2>1. PICK v1 : v = v1
    OBVIOUS
  <2>2. v1 # None => Prior(v1)'
    <3>1. /\ Hands("write", k, o, g, d, v1, t) /\ Serves("write", k, o, g, d, v1, t)
          /\ \A x \in Indexed : recs[x] \in GoalRecord
      BY <1>1, <1>2, <2>1
    <3>2. PICK k1, o1, g1, d1, t1 : k1 = k /\ o1 = o /\ g1 = g /\ d1 = d /\ t1 = t
      OBVIOUS
    <3>3. Serves("write", k1, o1, g1, d1, v1, t1)'
      BY <1>7, <3>1, <3>2, ForwardServes
    <3> QED
      BY <3>3 DEF Serves
  <2> QED
    BY <1>1, <1>5, <1>12, <2>1, <2>2 DEF Serving, Serves
<1>14. Writing(p)'
  BY <1>1, <1>3, <1>4, <1>5, <1>12 DEF Writing, Writes, Saving
<1> QED
  BY <1>1, <1>6, <1>7, <1>8, <1>9, <1>10, <1>11, <1>13, <1>14, FileKeeps

\* The index is renamed into place: it lists the next goal now.
LEMMA PublishIndexKeeps ==
    ASSUME GoalInv, NEW p \in Procs, PublishIndex(p)
    PROVE  GoalInv'
<1> DEFINE k == kind[p]
           o == objective[p]
           g == goal[p]
           d == draft[p]
           v == prev[p]
           t == todo[p]
           l == IF pc[p] = "adopt" THEN "syncAdopt" ELSE "syncIndex"
<1>1. /\ Hands(pc[p], k, o, g, d, v, t) /\ Serves(pc[p], k, o, g, d, v, t)
      /\ Writes(pc[p], g, d) /\ pc[p] \in {"index", "adopt"} /\ lock = p
      /\ idx' = [goals |-> Append(idx.goals, g), high |-> MaxOf({idx.high, g})]
      /\ Goto(p, l)
      /\ UNCHANGED <<recs, safeRecs, safeIdx, written, lock, callVars>>
      /\ FileTypes /\ Listed /\ Durable /\ CallTypes /\ Awake
  BY InHand DEF GoalInv, PublishIndex, Holding, Saving, Awake
<1>2. /\ \A x \in Indexed : x \in Ordinals /\ recs[x] \in GoalRecord /\ x <= idx.high /\ x \in Nat
      /\ Orphans \subseteq {idx.high + 1} /\ idx.high \in Nat
      /\ idx.goals \in Seq(Ordinals) /\ Len(idx.goals) \in Nat
      /\ DOMAIN idx.goals = 1 .. Len(idx.goals)
  BY <1>1, AwakeFacts, IndexedFacts
<1>3. /\ g \in Ordinals /\ d \in GoalRecord /\ d # None /\ recs[g] = d /\ g = idx.high + 1
      /\ pc[p] = "index" => safeRecs[g] = d
  BY <1>1, Revisions DEF Writes, Saving
<1>4. MaxOf({idx.high, g}) = g
  <2>1. {idx.high, g} \in SUBSET Nat /\ {idx.high, g} # {}
    BY <1>2, <1>3
  <2>2. IsFiniteSet({idx.high, g})
    <3>1. {idx.high, g} = {idx.high} \cup {g}
      OBVIOUS
    <3>2. IsFiniteSet({idx.high})
      BY FS_Singleton
    <3> QED
      BY <3>1, <3>2, FS_AddElement
  <2>3. MaxOf({idx.high, g}) \in {idx.high, g} /\ g <= MaxOf({idx.high, g})
    BY <2>1, <2>2, Extremes
  <2> QED
    BY <1>2, <1>3, <2>3
<1> DEFINE n == Len(idx.goals)
           s == Append(idx.goals, g)
<1>5. /\ s \in Seq(Ordinals) /\ DOMAIN s = 1 .. n + 1 /\ s[n + 1] = g
      /\ \A i \in 1 .. n : s[i] = idx.goals[i]
  BY <1>2, <1>3
<1>6. idx'.goals = s /\ idx'.high = g /\ g \in 0 .. MaxOrdinal
      /\ (s \in Seq(Ordinals) => idx' \in [goals : Seq(Ordinals), high : 0 .. MaxOrdinal])
  BY <1>1, <1>3, <1>4, LimitsAssumption DEF Ordinals
<1> HIDE DEF s
<1>7. \A i \in 1 .. n : idx.goals[i] \in Indexed
  BY <1>2 DEF Indexed
<1>8. Indexed' = Indexed \cup {g}
  <2>1. Indexed' = {s[i] : i \in 1 .. n + 1}
    BY <1>5, <1>6 DEF Indexed
  <2>2. Indexed = {idx.goals[i] : i \in 1 .. n}
    BY <1>2 DEF Indexed
  <2>3. \A i \in 1 .. n + 1 : i \in 1 .. n \/ i = n + 1
    BY <1>2
  <2>4. \A i \in 1 .. n : i \in 1 .. n + 1
    BY <1>2
  <2>5. n + 1 \in 1 .. n + 1
    BY <1>2
  <2> HIDE DEF n
  <2> QED
    BY <1>5, <2>1, <2>2, <2>3, <2>4, <2>5
<1>9. IndexOK(idx)'
  <2>1. \A i \in 1 .. n + 1 : i \in 1 .. n \/ i = n + 1
    BY <1>2
  <2>2. \A i \in 1 .. n : s[i] \in Indexed /\ s[i] <= idx.high /\ s[i] # g /\ s[i] <= g
    BY <1>2, <1>3, <1>5, <1>7
  <2>3. \A i, j \in 1 .. n : s[i] = s[j] => i = j
    BY <1>1, <1>2, <1>5 DEF FileTypes, IndexOK
  <2>4. g <= g
    BY <1>2, <1>3
  <2>5. \A i, j \in DOMAIN s : s[i] = s[j] => i = j
    <3> HIDE DEF n
    <3> QED
      BY <1>5, <2>1, <2>2, <2>3
  <2>6. \A i \in DOMAIN s : s[i] <= g
    <3> HIDE DEF n
    <3> QED
      BY <1>5, <2>1, <2>2, <2>4
  <2> QED
    BY <1>5, <1>6, <2>5, <2>6 DEF IndexOK
<1>10. FileTypes'
  BY <1>1, <1>9 DEF FileTypes, IndexOK
<1>11. Forward
  <2>1. ASSUME NEW x, Fresh(x) PROVE Fresh(x)'
    <3>1. x \in Ordinals /\ x \in Nat /\ x <= idx.high + 1 /\ (x <= idx.high => x \in Indexed)
      BY <1>1, <2>1, IndexedFacts DEF Fresh
    <3>2. x <= g + 1 /\ (x <= g => x \in Indexed \cup {g})
      BY <1>2, <1>3, <3>1
    <3> QED
      BY <1>6, <1>8, <3>1, <3>2 DEF Fresh
  <2> QED
    BY <1>1, <1>8, <2>1 DEF Forward
<1>12. Listed'
  <2>1. Orphans' = Orphans \ {g}
    BY <1>1, <1>8 DEF Orphans, Recorded
  <2>2. Orphans' = {}
    BY <1>2, <1>3, <2>1
  <2>3. \A x \in Indexed' : recs'[x] # None
    BY <1>1, <1>2, <1>3, <1>8, NoneAssumption
  <2> QED
    BY <1>1, <1>8, <2>2, <2>3 DEF Listed
<1>13. Durable'
  BY <1>1 DEF Durable, Keeps
<1>14. Hands(l, k, o, g, d, v, t)
  BY <1>1 DEF Hands, Points, Saving
<1>15. Moves(p, l, k, o, g, d, v, t)
  BY <1>1 DEF Moves, Goto, Holding, Saving, CallTypes, callVars
<1>16. pc'[p] = l /\ UNCHANGED <<k, o, g, d, v, t>>
  BY <1>1 DEF callVars, Goto, CallTypes
<1>17. Serving(p)'
  <2>1. v # None => Prior(v)'
    BY <1>1, <1>8, <1>16 DEF Serves, Prior
  <2> QED
    BY <1>1, <1>8, <1>16, <2>1 DEF Serving, Serves
<1>18. Writing(p)'
  BY <1>1, <1>3, <1>8, <1>16 DEF Writing, Writes, Saving
<1> QED
  BY <1>1, <1>10, <1>11, <1>12, <1>13, <1>14, <1>15, <1>17, <1>18, FileKeeps

\* A save that is acknowledged: a start goes on to the goal it replaces, a repair
\* to the next older goal, every other call returns.
LEMMA SavedKeeps ==
    ASSUME GoalInv, NEW p \in Procs, pc[p] \in {"syncRecord", "syncIndex", "syncAdopt"}, Saved(p),
           UNCHANGED <<recs, idx>>, FileTypes', Listed', Durable'
    PROVE  GoalInv'
<1> DEFINE k == kind[p]
           o == objective[p]
           g == goal[p]
           v == prev[p]
           t == todo[p]
<1>1. /\ Hands(pc[p], k, o, g, draft[p], v, t) /\ Serves(pc[p], k, o, g, draft[p], v, t)
      /\ lock = p /\ CallTypes
  BY InHand DEF GoalInv, Holding, Saving
<1>2. /\ \A x \in Indexed : recs[x] \in GoalRecord
  BY AwakeFacts
<1>3. /\ Forward /\ Indexed' = Indexed
      /\ \A x, y : Derived(x, y)' <=> Derived(x, y)
      /\ \A x : Prior(x)' <=> Prior(x)
  BY StayForward
<1>4. CASE /\ k = "start" /\ v # None
           /\ goal' = [goal EXCEPT ![p] = v.goal]
           /\ draft' = [draft EXCEPT ![p] = Superseded(v.record)]
           /\ prev' = [prev EXCEPT ![p] = None]
           /\ Unlock(p) /\ Goto(p, "save") /\ UNCHANGED <<kind, objective, todo>>
  <2> DEFINE e == Superseded(v.record)
             x == v.goal
  <2>1. v \in Predecessors /\ Prior(v)
    BY <1>1, <1>4 DEF Hands, Serves
  <2>2. /\ v.record \in GoalRecord /\ x \in Ordinals /\ x \in Indexed /\ v.record.status = "active"
        /\ recs[x] \in GoalRecord
    BY <1>2, <2>1 DEF Predecessors, Prior
  <2>3. /\ e \in GoalRecord /\ e.revision = v.record.revision + 1 /\ Follows(v.record, e)
        /\ v.record.revision \in Nat /\ recs[x].revision \in Nat
    BY <2>2, Revisions
  <2>4. Derived(x, e)
    BY <2>1, <2>2, <2>3 DEF Derived, Prior
  <2>5. goal' = [goal EXCEPT ![p] = x] /\ draft' = [draft EXCEPT ![p] = e]
    BY <1>4
  <2>6. x \in 0 .. MaxOrdinal
    BY <2>2, LimitsAssumption DEF Ordinals
  <2> HIDE DEF e, x
  <2>7. Hands("save", k, o, x, e, None, t)
    BY <1>1, <2>3, <2>6 DEF Hands, Points, Opened
  <2>8. Moves(p, "save", k, o, x, e, None, t)
    BY <1>1, <1>4, <2>5 DEF Moves, Goto, Unlock, Holding, Saving, CallTypes
  <2>9. /\ pc'[p] = "save" /\ kind'[p] = k /\ objective'[p] = o /\ goal'[p] = x /\ draft'[p] = e
        /\ prev'[p] = None /\ todo'[p] = t
    BY <1>1, <2>7, <2>8, MovesTypes DEF GoalInv
  <2>10. Derived(goal[p], draft[p])'
    <3>1. PICK x1, e1 : x1 = x /\ e1 = e
      OBVIOUS
    <3>2. Derived(x1, e1)'
      BY <1>3, <2>4, <3>1
    <3> QED
      BY <2>9, <3>1, <3>2 DEF Derived, Follows
  <2>11. Serving(p)'
    BY <1>1, <1>3, <1>4, <2>3, <2>9, <2>10 DEF Serving, Serves
  <2>12. Writing(p)'
    BY <2>9 DEF Writing, Writes, Saving
  <2> QED
    BY <1>1, <1>3, <2>7, <2>8, <2>11, <2>12, FileKeeps
<1>5. CASE /\ k = "repair" /\ todo' = [todo EXCEPT ![p] = @ \ {goal[p]}]
           /\ Unlock(p) /\ Goto(p, "repair") /\ Forget(p) /\ UNCHANGED <<kind, objective>>
  <2>1. Hands("repair", k, o, 0, None, None, t \ {g})
    BY <1>1, LimitsAssumption DEF Hands, Points, Opened
  <2>2. Moves(p, "repair", k, o, 0, None, None, t \ {g})
    BY <1>1, <1>5 DEF Moves, Goto, Unlock, Forget, Holding, Saving, CallTypes
  <2>3. /\ pc'[p] = "repair" /\ kind'[p] = k /\ objective'[p] = o /\ goal'[p] = 0
        /\ draft'[p] = None /\ prev'[p] = None /\ todo'[p] = t \ {g}
    BY <1>1, <2>1, <2>2, MovesTypes DEF GoalInv
  <2>4. Serving(p)' /\ Writing(p)'
    BY <1>1, <1>3, <1>5, <2>3 DEF Serving, Serves, Writing, Writes, Saving
  <2> QED
    BY <1>1, <1>3, <2>1, <2>2, <2>4, FileKeeps
<1>7. CASE k = "compact" /\ CompactOne(p) /\ UNCHANGED <<lock, kind, objective, prev, todo>>
  <2>1. PICK x \in Indexed :
           /\ recs[x].status # "active"
           /\ goal' = [goal EXCEPT ![p] = x]
           /\ draft' = [draft EXCEPT ![p] = [recs[x] EXCEPT !.progress = FALSE, !.revision = @ + 1]]
           /\ Goto(p, "write")
    BY <1>7 DEF CompactOne, ToCompact
  <2> DEFINE e == [recs[x] EXCEPT !.progress = FALSE, !.revision = @ + 1]
  <2>2. x \in Ordinals /\ e \in GoalRecord /\ Follows(recs[x], e) /\ x \in 0 .. MaxOrdinal
    <3>1. recs[x] \in GoalRecord
      BY <1>2, <2>1
    <3>2. x \in Ordinals /\ x \in 0 .. MaxOrdinal
      BY <1>1, <2>1, LimitsAssumption DEF FileTypes, IndexOK, Indexed, Ordinals
    <3>3. PICK r : r = recs[x]
      OBVIOUS
    <3>4. e = [r EXCEPT !.progress = FALSE, !.revision = @ + 1]
      BY <3>3
    <3>5. r \in GoalRecord /\ r.status # "active"
      BY <2>1, <3>1, <3>3
    <3> HIDE DEF e
    <3>6. e \in GoalRecord /\ Follows(r, e)
      BY <3>4, <3>5, Revisions
    <3> QED
      BY <3>2, <3>3, <3>6
  <2>3. draft' = [draft EXCEPT ![p] = e]
    BY <2>1
  <2> HIDE DEF e
  <2>4. Hands("write", k, o, x, e, v, t)
    BY <1>1, <2>2 DEF Hands, Points, Saving
  <2>5. Moves(p, "write", k, o, x, e, v, t)
    BY <1>1, <1>7, <2>1, <2>3 DEF Moves, Goto, Holding, Saving, CallTypes
  <2>6. /\ pc'[p] = "write" /\ kind'[p] = k /\ objective'[p] = o /\ goal'[p] = x
        /\ draft'[p] = e /\ prev'[p] = v /\ todo'[p] = t
    BY <1>1, <2>4, <2>5, MovesTypes DEF GoalInv
  <2>7. (prev[p] # None => Prior(prev[p]))' /\ todo'[p] \subseteq Indexed'
    <3>1. PICK v1, t1 : v1 = v /\ t1 = t
      OBVIOUS
    <3>2. (v1 # None => Prior(v1)') /\ t1 \subseteq Indexed'
      BY <1>1, <1>3, <3>1 DEF Serves
    <3> QED
      BY <2>6, <3>1, <3>2 DEF Prior, Follows
  <2>8. Serving(p)'
    BY <1>1, <1>7, <2>6, <2>7 DEF Serving, Serves
  <2>9. Writing(p)'
    BY <1>3, <2>1, <2>2, <2>6 DEF Writing, Writes, Saving, Follows
  <2> QED
    BY <1>1, <1>3, <2>4, <2>5, <2>8, <2>9, FileKeeps
<1>6. CASE Return(p)
  <2>1. Hands("idle", "none", None, 0, None, None, {})
    BY LimitsAssumption DEF Hands, Points, Opened, Kinds
  <2>2. Moves(p, "idle", "none", None, 0, None, None, {})
    BY <1>6 DEF Moves, Return, End, Goto, Unlock, Forget, Holding, Saving
  <2>3. /\ pc'[p] = "idle" /\ kind'[p] = "none" /\ objective'[p] = None /\ goal'[p] = 0
        /\ draft'[p] = None /\ prev'[p] = None /\ todo'[p] = {}
    BY <2>1, <2>2, MovesTypes DEF GoalInv
  <2>4. Serving(p)' /\ Writing(p)'
    BY <2>3 DEF Serving, Serves, Writing, Writes, Saving
  <2> QED
    BY <1>1, <1>3, <2>1, <2>2, <2>4, FileKeeps
<1> QED
  BY <1>4, <1>5, <1>6, <1>7 DEF Saved

\* The directory of the records is synced.
LEMMA SyncRecordKeeps ==
    ASSUME GoalInv, NEW p \in Procs, SyncRecord(p)
    PROVE  GoalInv'
<1> DEFINE k == kind[p]
           o == objective[p]
           g == goal[p]
           d == draft[p]
           v == prev[p]
           t == todo[p]
<1>1. /\ Hands("syncRecord", k, o, g, d, v, t) /\ Serves("syncRecord", k, o, g, d, v, t)
      /\ Writes("syncRecord", g, d) /\ pc[p] = "syncRecord" /\ lock = p
      /\ safeRecs' = recs /\ UNCHANGED <<recs, idx, safeIdx>>
      /\ FileTypes /\ Listed /\ Durable /\ CallTypes /\ Awake
  BY InHand DEF GoalInv, SyncRecord, Holding, Saving, Awake
<1>2. /\ g \in Ordinals /\ d \in GoalRecord /\ d # None /\ recs[g] = d
      /\ g = idx.high + 1 \/ g \in Indexed
      /\ d.revision \in Nat
  BY <1>1, Revisions DEF Writes, Saving
<1>3. /\ Forward /\ Indexed' = Indexed /\ Orphans' = Orphans
      /\ \A x : Prior(x)' <=> Prior(x)
  BY <1>1, StayForward
<1>4. CASE g \notin Indexed /\ Goto(p, "index") /\ UNCHANGED <<lock, callVars, written>>
  <2>1. FileTypes' /\ Listed' /\ Durable'
    BY <1>1, <1>3, <1>4 DEF FileTypes, IndexOK, Listed, Durable, Keeps
  <2>2. Hands("index", k, o, g, d, v, t)
    BY <1>1 DEF Hands, Points, Saving
  <2>3. Moves(p, "index", k, o, g, d, v, t)
    BY <1>1, <1>4 DEF Moves, Goto, Holding, Saving, CallTypes, callVars
  <2>4. pc'[p] = "index" /\ UNCHANGED <<k, o, g, d, v, t>>
    BY <1>1, <1>4 DEF callVars, Goto, CallTypes
  <2>5. Serving(p)' /\ Writing(p)'
    BY <1>1, <1>2, <1>3, <1>4, <2>4 DEF Serving, Serves, Writing, Writes, Saving
  <2> QED
    BY <1>1, <1>3, <2>1, <2>2, <2>3, <2>5, FileKeeps
<1>5. CASE g \in Indexed /\ Saved(p) /\ written' = [written EXCEPT ![g] = d]
  <2>1. /\ written' \in Records /\ written'[g] = d
        /\ \A x \in Ordinals \ {g} : written'[x] = written[x]
    BY <1>1, <1>2, <1>5 DEF FileTypes, Records
  <2>2. FileTypes' /\ Listed'
    BY <1>1, <1>2, <1>3, <1>5, <2>1 DEF FileTypes, IndexOK, Listed
  <2>3. Durable'
    BY <1>1, <1>2, <2>1 DEF Durable, Keeps
  <2> QED
    BY <1>1, <1>5, <2>2, <2>3, SavedKeeps
<1> QED
  BY <1>4, <1>5 DEF SyncRecord, IsNew, Acknowledge

\* The directory of the index is synced.
LEMMA SyncIndexKeeps ==
    ASSUME GoalInv, NEW p \in Procs, SyncIndex(p)
    PROVE  GoalInv'
<1> DEFINE g == goal[p]
           d == draft[p]
<1>1. /\ Writes(pc[p], g, d) /\ pc[p] \in {"syncIndex", "syncAdopt"} /\ Saved(p)
      /\ safeIdx' = idx /\ UNCHANGED <<recs, idx, safeRecs>>
      /\ FileTypes /\ Listed /\ Durable /\ Awake
  BY InHand DEF GoalInv, SyncIndex, Awake
<1>2. /\ g \in Ordinals /\ d \in GoalRecord /\ d # None /\ d.revision \in Nat /\ g \in Indexed
      /\ pc[p] = "syncIndex" => recs[g] = d /\ safeRecs[g] = d
  BY <1>1, Revisions DEF Writes, Saving
<1>3. Indexed' = Indexed /\ Orphans' = Orphans
  BY <1>1, StayForward
<1>4. /\ written' \in Records /\ \A x \in Ordinals \ {g} : written'[x] = written[x]
      /\ written'[g] = written[g] \/ (written'[g] = d /\ recs[g] = d /\ safeRecs[g] = d)
  BY <1>1, <1>2 DEF SyncIndex, Acknowledge, FileTypes, Records
<1>5. FileTypes' /\ Listed'
  BY <1>1, <1>2, <1>3, <1>4 DEF FileTypes, IndexOK, Listed
<1>6. Durable'
  BY <1>1, <1>2, <1>4 DEF Durable, Keeps
<1> QED
  BY <1>1, <1>5, <1>6, SavedKeeps

\* The machine stops: every process is down, and an entry is the one in use or the safe one.
LEMMA PowerCutKeeps ==
    ASSUME GoalInv, PowerCut
    PROVE  GoalInv'
<1>1. PICK lost \in SUBSET Ordinals, i \in {idx, safeIdx} :
         recs' = [g \in Ordinals |-> IF g \in lost THEN safeRecs[g] ELSE recs[g]] /\ idx' = i
  BY DEF PowerCut
<1>2. /\ FileTypes /\ Durable /\ safeRecs' = recs' /\ safeIdx' = idx' /\ lock' = None
      /\ pc' = [p \in Procs |-> "down"] /\ written' = written
      /\ kind' = [p \in Procs |-> "none"] /\ objective' = [p \in Procs |-> None]
      /\ goal' = [p \in Procs |-> 0] /\ draft' = [p \in Procs |-> None]
      /\ prev' = [p \in Procs |-> None] /\ todo' = [p \in Procs |-> {}]
  BY DEF GoalInv, PowerCut
<1>3. recs' \in Records /\ \A g \in Ordinals : recs'[g] \in {recs[g], safeRecs[g]}
  BY <1>1, <1>2 DEF FileTypes, Records
<1>4. IndexOK(idx')
  BY <1>1, <1>2 DEF FileTypes
<1>5. FileTypes'
  BY <1>2, <1>3, <1>4 DEF FileTypes, IndexOK
<1>6. CallTypes'
  BY <1>2, LimitsAssumption DEF CallTypes, Points, Kinds
<1>7. LockHeld'
  BY <1>2, LimitsAssumption DEF LockHeld, Saving
<1>8. \A p \in Procs : Serving(p)' /\ Writing(p)'
  BY <1>2 DEF Serving, Serves, Writing, Writes, Saving
<1>9. Listed'
  BY <1>2 DEF Listed, Awake
<1>10. Durable'
  <2> SUFFICES ASSUME NEW g \in Ordinals, written[g] # None
               PROVE  Keeps(written[g], recs'[g])
    BY <1>2 DEF Durable
  <2>1. Keeps(written[g], recs[g]) /\ Keeps(written[g], safeRecs[g])
    BY <1>2 DEF Durable
  <2> QED
    BY <1>3, <2>1
<1> QED
  BY <1>5, <1>6, <1>7, <1>8, <1>9, <1>10 DEF GoalInv

\* A stuttering step.
LEMMA StutterKeeps ==
    ASSUME GoalInv, UNCHANGED vars
    PROVE  GoalInv'
<1>1. UNCHANGED <<recs, idx, safeRecs, safeIdx, lock, written, pc, kind, objective, goal, draft, prev, todo>>
  BY DEF vars, fileVars, callVars
<1>2. /\ Indexed' = Indexed /\ Orphans' = Orphans
      /\ \A x : Fresh(x)' <=> Fresh(x)
      /\ \A x, y : Derived(x, y)' <=> Derived(x, y)
      /\ \A x : Prior(x)' <=> Prior(x)
  BY <1>1, StayForward
<1>3. \A p \in Procs : Serving(p)' /\ Writing(p)'
  BY <1>1, <1>2 DEF GoalInv, Serving, Serves, Writing, Writes, Follows
<1>4. FileTypes' /\ CallTypes' /\ LockHeld'
  BY <1>1 DEF GoalInv, FileTypes, IndexOK, CallTypes, LockHeld
<1>5. Listed' /\ Durable'
  BY <1>1, <1>2 DEF GoalInv, Listed, Awake, Durable, Keeps
<1> QED
  BY <1>3, <1>4, <1>5 DEF GoalInv

---------------------------------------------------------------------------
(* The theorems.                                                           *)

\* Every step keeps the invariant.
LEMMA GoalStep == GoalInv /\ [Next]_vars => GoalInv'
<1> SUFFICES ASSUME GoalInv, [Next]_vars PROVE GoalInv'
  OBVIOUS
<1>1. ASSUME NEW p \in Procs, Step(p) PROVE GoalInv'
  BY <1>1, OpenKeeps, FinishOpenKeeps, ReadKeeps, SaveKeeps, RecoverKeeps, PublishRecordKeeps,
     PublishIndexKeeps, SyncRecordKeeps, SyncIndexKeeps DEF Step
<1>2. ASSUME NEW p \in Procs, Compact(p) \/ IoFails(p) \/ Crash(p) PROVE GoalInv'
  BY <1>2, ReadKeeps, FaultKeeps
<1>3. ASSUME NEW p \in Procs, NEW o \in Objectives, Start(p, o) PROVE GoalInv'
  BY <1>3, BeginKeeps
<1>4. ASSUME NEW p \in Procs, NEW k \in {"progress", "close"}, Update(p, k) PROVE GoalInv'
  BY <1>4, BeginKeeps
<1>5. CASE UNCHANGED vars
  BY <1>5, StutterKeeps
<1> QED
  BY <1>1, <1>2, <1>3, <1>4, <1>5, PowerCutKeeps DEF Next

\* Between any steps of any number of processes, failed calls, kills and power cuts,
\* the files and the calls agree as GoalInv says.
THEOREM GoalsAlways == Spec => []GoalInv
<1>1. Init => GoalInv
  BY GoalInit
<1>2. GoalInv /\ [Next]_vars => GoalInv'
  BY GoalStep
<1> QED
  BY <1>1, <1>2, PTL DEF Spec

\* A goal whose own write was acknowledged is never lost: neither a crash, a failed
\* call nor a power cut takes its record back, and an open store lists it (store.rs:24).
THEOREM WrittenGoalsAreKept == Spec => []WrittenIsKept
<1>1. GoalInv => WrittenIsKept
  <2> SUFFICES ASSUME GoalInv, NEW g \in Ordinals, written[g] # None
               PROVE  /\ Keeps(written[g], recs[g])
                      /\ Up => g \in Indexed /\ g <= idx.high
    BY DEF WrittenIsKept, Kept, Keeps
  <2>1. Keeps(written[g], recs[g])
    BY DEF GoalInv, Durable
  <2>2. ASSUME Up PROVE g \in Indexed /\ g <= idx.high
    <3>1. Awake /\ FileTypes
      BY <2>2 DEF Up, Awake, GoalInv
    <3>2. g \in Indexed
      BY <3>1 DEF GoalInv, Listed
    <3> QED
      BY <3>1, <3>2, IndexedFacts
  <2> QED
    BY <2>1, <2>2
<1> QED
  BY <1>1, GoalsAlways, PTL

\* While the store is open the index names every goal once and no goal without a
\* record, and a record it does not name can be adopted by the next start (store.rs:36).
THEOREM IndexesAreWhole == Spec => []IndexIsWhole
<1>1. GoalInv => IndexIsWhole
  <2> SUFFICES ASSUME GoalInv, Up
               PROVE  ~Dangling /\ Cardinality(Indexed) = Len(idx.goals) /\ Orphans \subseteq {idx.high + 1}
    BY DEF IndexIsWhole
  <2>1. Awake /\ FileTypes /\ Listed
    BY DEF Up, Awake, GoalInv
  <2> QED
    BY <2>1, IndexCounts DEF Listed, Dangling
<1> QED
  BY <1>1, GoalsAlways, PTL

\* Only one step changes a record that processes see: the publication of its next revision.
LEMMA OnlyPublished ==
    ASSUME GoalInv, [Next]_vars, \E q \in Procs : pc'[q] # "down"
    PROVE  recs' = recs \/ \E p \in Procs : PublishRecord(p)
<1>1. ~PowerCut
  BY DEF PowerCut
<1>2. ASSUME NEW p \in Procs, Step(p) PROVE recs' = recs \/ PublishRecord(p)
  BY <1>2 DEF Step, Open, FinishOpen, NextOrdinal, LoadOrphan, ListPrevious, ListTarget, LoadTarget,
     Save, Busy, PublishIndex, SyncRecord, SyncIndex, RecoverStart, ListHistory, Repair, fileVars
<1>3. ASSUME NEW p \in Procs, Compact(p) \/ IoFails(p) \/ Crash(p) PROVE recs' = recs
  BY <1>3 DEF Compact, IoFails, Crash, fileVars
<1>4. ASSUME NEW p \in Procs, NEW o \in Objectives, Start(p, o) PROVE recs' = recs
  BY <1>4 DEF Start, fileVars
<1>5. ASSUME NEW p \in Procs, NEW k \in {"progress", "close"}, Update(p, k) PROVE recs' = recs
  BY <1>5 DEF Update, fileVars
<1>6. CASE UNCHANGED vars
  BY <1>6 DEF vars, fileVars
<1> QED
  BY <1>1, <1>2, <1>3, <1>4, <1>5, <1>6 DEF Next

\* Although records are loaded without the lock they are saved under, no update is lost:
\* each one processes see is one revision after the last, and closed goals stay
\* closed (store.rs:1015).
THEOREM RevisionsStayLinear == Spec => RevisionsAreLinear
<1>1. GoalInv /\ [Next]_vars =>
        [(\E p \in Procs : pc'[p] # "down") =>
           \A g \in Ordinals : recs[g] # None /\ recs'[g] # recs[g] =>
              /\ recs'[g] # None
              /\ recs'[g].revision = recs[g].revision + 1
              /\ recs[g].status # "active" => recs'[g].status = recs[g].status]_vars
  <2> SUFFICES ASSUME GoalInv, [Next]_vars, \E p \in Procs : pc'[p] # "down",
                      NEW g \in Ordinals, recs[g] # None, recs'[g] # recs[g]
               PROVE  /\ recs'[g] # None
                      /\ recs'[g].revision = recs[g].revision + 1
                      /\ recs[g].status # "active" => recs'[g].status = recs[g].status
    OBVIOUS
  <2>1. PICK p \in Procs : PublishRecord(p)
    BY OnlyPublished
  <2>2. /\ Writes("write", goal[p], draft[p]) /\ recs \in [Ordinals -> GoalRecord \cup {None}]
        /\ recs' = [recs EXCEPT ![goal[p]] = draft[p]]
    BY <2>1, InHand DEF PublishRecord, GoalInv, FileTypes, Records
  <2>3. g = goal[p] /\ recs'[g] = draft[p]
    BY <2>2
  <2>4. Follows(recs[g], draft[p]) /\ draft[p] \in GoalRecord
    BY <2>2, <2>3 DEF Writes, Saving
  <2> QED
    BY <2>3, <2>4, NoneAssumption DEF Follows
<1> QED
  BY <1>1, GoalsAlways, PTL DEF Spec, RevisionsAreLinear

---------------------------------------------------------------------------
(* What every acknowledgement means, of an adoption too.                   *)

\* Recovery has listed every record before a process has the store open.
Acknowledged ==
    /\ acked \in Records
    /\ \A p \in Procs : pc[p] = "opening" => Recorded \subseteq Indexed

\* The files change by a publication or by recovery.
LEMMA FileSteps ==
    ASSUME [Next]_vars, ~PowerCut
    PROVE  \/ UNCHANGED <<recs, idx>>
           \/ \E p \in Procs : Open(p) \/ PublishRecord(p) \/ PublishIndex(p)
<1>1. ASSUME NEW p \in Procs, Step(p)
      PROVE  UNCHANGED <<recs, idx>> \/ Open(p) \/ PublishRecord(p) \/ PublishIndex(p)
  BY <1>1 DEF Step, FinishOpen, NextOrdinal, LoadOrphan, ListPrevious, ListTarget, LoadTarget,
     Save, Busy, SyncRecord, SyncIndex, RecoverStart, ListHistory, Repair, fileVars
<1>2. ASSUME NEW p \in Procs, Compact(p) \/ IoFails(p) \/ Crash(p) PROVE UNCHANGED <<recs, idx>>
  BY <1>2 DEF Compact, IoFails, Crash, fileVars
<1>3. ASSUME NEW p \in Procs, NEW o \in Objectives, Start(p, o) PROVE UNCHANGED <<recs, idx>>
  BY <1>3 DEF Start, fileVars
<1>4. ASSUME NEW p \in Procs, NEW k \in {"progress", "close"}, Update(p, k) PROVE UNCHANGED <<recs, idx>>
  BY <1>4 DEF Update, fileVars
<1>5. CASE UNCHANGED vars
  BY <1>5 DEF vars, fileVars
<1> QED
  BY <1>1, <1>2, <1>3, <1>4, <1>5 DEF Next

\* A process comes to have the store open only through open().
LEMMA OpenSteps ==
    ASSUME GoalInv, [Next]_vars, NEW q \in Procs
    PROVE  \/ pc'[q] = pc[q]
           \/ Open(q) \/ FinishOpen(q)
           \/ pc'[q] = "down"
           \/ pc[q] \notin {"down", "opening"} /\ pc'[q] # "opening"
<1> DEFINE Fine == \/ pc'[q] = pc[q] \/ Open(q) \/ FinishOpen(q) \/ pc'[q] = "down"
                   \/ pc[q] \notin {"down", "opening"} /\ pc'[q] # "opening"
<1>0. pc \in [Procs -> Points]
  BY DEF GoalInv, CallTypes
<1>1. ASSUME NEW p \in Procs, Open(p) PROVE Fine
  BY <1>0, <1>1 DEF Open, Goto
<1>2. ASSUME NEW p \in Procs, FinishOpen(p) PROVE Fine
  BY <1>0, <1>2 DEF FinishOpen, Goto
<1>3. ASSUME NEW p \in Procs, NEW l, pc[p] \notin {"down", "opening"}, l # "opening",
             pc' = [pc EXCEPT ![p] = l]
      PROVE  Fine
  BY <1>0, <1>3
<1>4. ASSUME NEW p \in Procs, NextOrdinal(p) \/ LoadOrphan(p) \/ ListPrevious(p) \/ ListTarget(p)
                              \/ LoadTarget(p) \/ RecoverStart(p) \/ ListHistory(p) \/ Repair(p)
                              \/ PublishRecord(p) \/ PublishIndex(p) \/ Compact(p)
      PROVE  Fine
  BY <1>3, <1>4 DEF NextOrdinal, LoadOrphan, ListPrevious, ListTarget, LoadTarget, RecoverStart,
     ListHistory, Repair, PublishRecord, PublishIndex, Compact, CompactOne, Return, End, Goto
<1>5. ASSUME NEW p \in Procs, Save(p) \/ Busy(p) PROVE Fine
  <2>1. /\ pc[p] \notin {"down", "opening"}
        /\ \E l : l # "opening" /\ pc' = [pc EXCEPT ![p] = l]
    BY <1>5 DEF Save, Busy, Conflict, Return, End, Goto
  <2> QED
    BY <1>3, <2>1
<1>6. ASSUME NEW p \in Procs, SyncRecord(p) \/ SyncIndex(p) PROVE Fine
  <2>1. /\ pc[p] \notin {"down", "opening"}
        /\ \E l : l # "opening" /\ pc' = [pc EXCEPT ![p] = l]
    BY <1>6 DEF SyncRecord, SyncIndex, Saved, CompactOne, Return, End, Goto
  <2> QED
    BY <1>3, <2>1
<1>7. ASSUME NEW p \in Procs, IoFails(p) PROVE Fine
  <2>1. pc[p] \in Holding
    BY <1>7, InHand DEF IoFails
  <2> QED
    BY <1>0, <1>7, <2>1 DEF IoFails, End, Goto, Holding, Saving
<1>8. ASSUME NEW p \in Procs, Crash(p) PROVE Fine
  BY <1>0, <1>8 DEF Crash, End, Goto
<1>9. ASSUME NEW p \in Procs, NEW o \in Objectives, Start(p, o) PROVE Fine
  BY <1>3, <1>9 DEF Start, Goto
<1>10. ASSUME NEW p \in Procs, NEW k \in {"progress", "close"}, Update(p, k) PROVE Fine
  BY <1>3, <1>10 DEF Update, Goto
<1>11. CASE PowerCut
  BY <1>11 DEF PowerCut
<1>12. CASE UNCHANGED vars
  BY <1>12 DEF vars
<1>13. ASSUME NEW p \in Procs, Step(p) PROVE Fine
  BY <1>1, <1>2, <1>4, <1>5, <1>6, <1>13 DEF Step
<1> QED
  BY <1>4, <1>7, <1>8, <1>9, <1>10, <1>11, <1>12, <1>13 DEF Next

\* A save is acknowledged when its record is in the file and in the index.
LEMMA AckSteps ==
    ASSUME GoalInv, [Next]_vars
    PROVE  \/ acked' = acked
           \/ \E p \in Procs : /\ goal[p] \in Indexed /\ goal[p] \in Ordinals
                               /\ draft[p] \in GoalRecord /\ recs[goal[p]] = draft[p]
                               /\ acked' = [acked EXCEPT ![goal[p]] = draft[p]]
                               /\ UNCHANGED <<recs, idx>>
<1> DEFINE Told(p) == /\ goal[p] \in Indexed /\ goal[p] \in Ordinals
                      /\ draft[p] \in GoalRecord /\ recs[goal[p]] = draft[p]
                      /\ acked' = [acked EXCEPT ![goal[p]] = draft[p]]
                      /\ UNCHANGED <<recs, idx>>
<1>1. ASSUME NEW p \in Procs, SyncRecord(p) PROVE acked' = acked \/ Told(p)
  <2>1. Writes("syncRecord", goal[p], draft[p])
    BY <1>1, InHand DEF SyncRecord
  <2> QED
    BY <1>1, <2>1 DEF SyncRecord, IsNew, Acknowledge, Writes, Saving
<1>2. ASSUME NEW p \in Procs, SyncIndex(p) PROVE Told(p)
  <2>1. Writes(pc[p], goal[p], draft[p]) /\ pc[p] \in {"syncIndex", "syncAdopt"}
    BY <1>2, InHand DEF SyncIndex
  <2> QED
    BY <1>2, <2>1 DEF SyncIndex, Acknowledge, Writes, Saving
<1>3. ASSUME NEW p \in Procs, Step(p) PROVE acked' = acked \/ Told(p)
  BY <1>1, <1>2, <1>3 DEF Step, Open, FinishOpen, NextOrdinal, LoadOrphan, ListPrevious, ListTarget,
     LoadTarget, Save, Busy, PublishRecord, PublishIndex, RecoverStart, ListHistory, Repair
<1>4. ASSUME NEW p \in Procs, Compact(p) \/ IoFails(p) \/ Crash(p) PROVE acked' = acked
  BY <1>4 DEF Compact, IoFails, Crash
<1>5. ASSUME NEW p \in Procs, NEW o \in Objectives, Start(p, o) PROVE acked' = acked
  BY <1>5 DEF Start
<1>6. ASSUME NEW p \in Procs, NEW k \in {"progress", "close"}, Update(p, k) PROVE acked' = acked
  BY <1>6 DEF Update
<1>7. CASE PowerCut \/ UNCHANGED vars
  BY <1>7 DEF PowerCut, vars
<1> QED
  BY <1>3, <1>4, <1>5, <1>6, <1>7 DEF Next

\* Whoever opens the store holds the lock until its index is written, so nobody
\* publishes a record it has not listed.
LEMMA AcknowledgedStep ==
    ASSUME GoalInv, Acknowledged, [Next]_vars
    PROVE  Acknowledged'
<1>1. acked' \in Records
  BY AckSteps DEF Acknowledged, Records
<1>2. ASSUME NEW q \in Procs, pc'[q] = "opening" PROVE Recorded' \subseteq Indexed'
  <2>1. ~PowerCut
    BY <1>2 DEF PowerCut
  <2>2. CASE Open(q)
    <3>1. idx' = Recovered /\ recs' = recs
      BY <1>2, <2>2 DEF Open, Goto, GoalInv, CallTypes
    <3>2. Recorded' = Recorded
      BY <3>1 DEF Recorded
    <3>3. FileTypes
      BY DEF GoalInv
    <3>4. Indexed' = Recorded
      BY <3>1, <3>3, RecoveredFacts DEF Indexed
    <3> QED
      BY <3>2, <3>4
  <2>3. CASE pc[q] = "opening" /\ ~Open(q)
    <3>1. lock = q /\ q # None
      BY <2>3, LimitsAssumption DEF GoalInv, LockHeld
    <3>2. ASSUME NEW p \in Procs PROVE ~Open(p) /\ ~PublishRecord(p) /\ ~PublishIndex(p)
      BY <2>3, <3>1 DEF Open, PublishRecord, PublishIndex, GoalInv, LockHeld, Saving
    <3>3. UNCHANGED <<recs, idx>>
      BY <2>1, <3>2, FileSteps
    <3> QED
      BY <2>3, <3>3 DEF Acknowledged, Recorded, Indexed
  <2>4. ~FinishOpen(q)
    BY <1>2 DEF FinishOpen, Goto, GoalInv, CallTypes
  <2> QED
    BY <1>2, <2>2, <2>3, <2>4, OpenSteps
<1> QED
  BY <1>1, <1>2 DEF Acknowledged

\* Acknowledged holds with GoalInv throughout.
LEMMA AcknowledgedAlways == Spec => []Acknowledged
<1>1. Init => Acknowledged
  BY GoalInit DEF Init, GoalInv, FileTypes, Acknowledged
<1>2. GoalInv /\ Acknowledged /\ [Next]_vars => Acknowledged'
  BY AcknowledgedStep
<1> QED
  BY <1>1, <1>2, GoalsAlways, PTL DEF Spec

\* What is listed stays listed while the machine runs.
LEMMA IndexGrows ==
    ASSUME GoalInv, [Next]_vars, ~PowerCut, Awake
    PROVE  Indexed \subseteq Indexed'
<1>1. /\ FileTypes /\ \A g \in Indexed : g \in Ordinals /\ recs[g] # None
  BY AwakeFacts DEF Awake
<1>2. ASSUME NEW p \in Procs, Open(p) PROVE Indexed \subseteq Indexed'
  <2>1. CASE idx' = idx
    BY <2>1 DEF Indexed
  <2>2. CASE idx' = Recovered
    BY <1>1, <2>2, RecoveredFacts DEF Indexed, Recorded
  <2> QED
    BY <1>2, <2>1, <2>2 DEF Open
<1>3. ASSUME NEW p \in Procs, PublishIndex(p) PROVE Indexed \subseteq Indexed'
  <2>1. idx'.goals = Append(idx.goals, goal[p]) /\ idx.goals \in Seq(Ordinals)
    BY <1>1, <1>3 DEF PublishIndex, FileTypes, IndexOK
  <2>2. goal[p] \in Ordinals
    BY <1>3, InHand DEF PublishIndex, Writes, Saving
  <2>3. /\ DOMAIN idx.goals \subseteq DOMAIN idx'.goals
        /\ \A i \in DOMAIN idx.goals : idx'.goals[i] = idx.goals[i]
    BY <2>1, <2>2
  <2> QED
    BY <2>3 DEF Indexed
<1>4. ASSUME NEW p \in Procs, PublishRecord(p) PROVE Indexed \subseteq Indexed'
  BY <1>4 DEF PublishRecord, Indexed
<1>5. CASE UNCHANGED <<recs, idx>>
  BY <1>5 DEF Indexed
<1> QED
  BY <1>2, <1>3, <1>4, <1>5, FileSteps

\* However a save was acknowledged, by its own write or by the adoption of an orphan,
\* no kill, failed call, conflict, repair, recovery or compaction loses its goal: only
\* a power cut can (store.rs:1037).
THEOREM OnlyPowerCutsLoseGoals == Spec => OnlyPowerLosesGoals
<1>1. GoalInv /\ GoalInv' /\ Acknowledged /\ [Next]_vars =>
        [\A g \in Ordinals :
            acked'[g] # None /\ ~Kept(g, acked[g])'
               => PowerCut \/ (acked[g] # None /\ ~Kept(g, acked[g]))]_vars
  <2> SUFFICES ASSUME GoalInv, GoalInv', Acknowledged, [Next]_vars, NEW g \in Ordinals,
                      acked'[g] # None, ~PowerCut, acked[g] # None => Kept(g, acked[g])
               PROVE  Kept(g, acked[g])'
    OBVIOUS
  <2>1. FileTypes /\ FileTypes' /\ recs \in Records /\ acked \in Records
    BY DEF GoalInv, FileTypes, Acknowledged
  <2>2. g \in Indexed' => g <= idx'.high
    BY <2>1 DEF FileTypes, IndexOK, Indexed
  <2>3. CASE acked' # acked /\ acked'[g] # acked[g]
    <3>1. PICK p \in Procs : /\ goal[p] \in Indexed /\ draft[p] \in GoalRecord
                             /\ recs[goal[p]] = draft[p]
                             /\ acked' = [acked EXCEPT ![goal[p]] = draft[p]]
                             /\ UNCHANGED <<recs, idx>>
      BY <2>3, AckSteps
    <3>2. goal[p] = g /\ acked'[g] = draft[p]
      BY <2>1, <2>3, <3>1 DEF Records
    <3>3. recs'[g] = draft[p] /\ draft[p] # None /\ draft[p].revision \in Nat /\ g \in Indexed'
      BY <3>1, <3>2, Revisions DEF Indexed
    <3> QED
      BY <2>2, <3>2, <3>3 DEF Kept
  <2>4. CASE acked'[g] = acked[g]
    <3>1. Kept(g, acked[g]) /\ acked[g] \in GoalRecord
      BY <2>1, <2>4 DEF Records
    <3>2. Keeps(acked[g], recs[g]) /\ recs[g] \in GoalRecord
      BY <2>1, <3>1 DEF Kept, Keeps, Records
    <3>3. Keeps(acked[g], recs'[g])
      <4>1. CASE \E p \in Procs : PublishRecord(p) /\ goal[p] = g
        <5>1. PICK p \in Procs : PublishRecord(p) /\ goal[p] = g
          BY <4>1
        <5>2. Writes("write", g, draft[p]) /\ recs'[g] = draft[p]
          BY <2>1, <5>1, InHand DEF PublishRecord, Records
        <5>3. draft[p] \in GoalRecord /\ Follows(recs[g], draft[p])
          BY <3>2, <5>2, NoneAssumption DEF Writes, Saving
        <5>4. /\ draft[p] # None /\ draft[p].revision \in Nat
              /\ recs[g].revision \in Nat /\ acked[g].revision \in Nat
          BY <3>1, <3>2, <5>3, Revisions
        <5> QED
          BY <3>2, <5>2, <5>3, <5>4 DEF Follows, Keeps
      <4>2. CASE ~\E p \in Procs : PublishRecord(p) /\ goal[p] = g
        <5>1. recs'[g] = recs[g]
          <6>1. CASE UNCHANGED <<recs, idx>>
            BY <6>1
          <6>2. ASSUME NEW p \in Procs, Open(p) \/ PublishIndex(p) PROVE recs'[g] = recs[g]
            BY <6>2 DEF Open, PublishIndex
          <6>3. ASSUME NEW p \in Procs, PublishRecord(p) PROVE recs'[g] = recs[g]
            BY <2>1, <4>2, <6>3 DEF PublishRecord, Records
          <6> QED
            BY <6>1, <6>2, <6>3, FileSteps
        <5> QED
          BY <3>2, <5>1
      <4> QED
        BY <4>1, <4>2
    <3>4. ASSUME Up' PROVE g \in Indexed'
      <4>1. CASE Up
        <5>1. g \in Indexed /\ Awake
          BY <3>1, <4>1 DEF Kept, Up, Awake
        <5> QED
          BY <5>1, IndexGrows
      <4>2. CASE ~Up
        <5>1. PICK q \in Procs : pc'[q] \notin {"down", "opening"}
          BY <3>4 DEF Up
        <5>2. pc[q] \in {"down", "opening"}
          BY <4>2 DEF Up
        <5>3. g \in Recorded
          BY <3>2 DEF Recorded, Keeps
        <5>4. CASE FinishOpen(q)
          BY <5>3, <5>4 DEF FinishOpen, Acknowledged, Indexed
        <5>5. CASE Open(q)
          <6>1. Recovered = idx /\ idx' = idx
            BY <5>1, <5>5 DEF Open, Goto, GoalInv, CallTypes
          <6> QED
            BY <2>1, <5>3, <6>1, RecoveredFacts DEF Indexed
        <5> QED
          BY <5>1, <5>2, <5>4, <5>5, OpenSteps
      <4> QED
        BY <4>1, <4>2
    <3> QED
      BY <2>2, <2>4, <3>3, <3>4 DEF Kept, Keeps
  <2> QED
    BY <2>3, <2>4
<1> QED
  BY <1>1, GoalsAlways, AcknowledgedAlways, PTL DEF Spec, OnlyPowerLosesGoals
=============================================================================
