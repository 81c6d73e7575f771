----------------------- MODULE SessionRegistryProofs -----------------------
(***************************************************************************)
(* Proofs about SessionRegistry, for any sets of conversations, submits    *)
(* and retirements, any capacity and any idle ttl.                         *)
(***************************************************************************)
EXTENDS SessionRegistry, FiniteSetTheorems, WellFoundedInduction, TLAPS

(* A non-empty set of natural numbers has a least element.                 *)
LEMMA LeastNatural ==
    ASSUME NEW N \in SUBSET Nat, N # {}
    PROVE  \E least \in N : \A n \in N : least <= n
<1> DEFINE Below == OpToRel(<, Nat)
<1>1. \E x \in N : \A y \in N : ~(<<y, x>> \in Below)
  BY NatLessThanWellFounded, WFMin
<1>2. \A x \in Nat : \A y \in Nat : x < y => <<x, y>> \in Below
  BY DEF OpToRel
<1> HIDE DEF Below
<1>3. PICK x \in N : \A y \in N : ~(<<y, x>> \in Below)
  BY <1>1
<1>4. ASSUME NEW y \in N PROVE x <= y
  <2>1. x \in Nat /\ y \in Nat
    OBVIOUS
  <2>2. ~(y < x)
    BY <1>2, <1>3, <2>1, Zenon
  <2> QED
    BY <2>1, <2>2
<1> QED
  BY <1>3, <1>4

---------------------------------------------------------------------------
(* The inductive invariant.                                                *)

(* From its claim to its release a turn is its session's live turn.        *)
Holding(u) == pc[u] \in {"spawn", "running", "release"}

(* A registered turn is under way in that session, with the generation of  *)
(* the entry: release() will find the entry its own.                       *)
RegisteredHolds ==
    \A s \in Owned : entries[s].live # None =>
        /\ Holding(entries[s].live)
        /\ session[entries[s].live] = s
        /\ readGen[entries[s].live] = entries[s].generation

(* Until shutdown() clears the registry the converse holds too.            *)
HoldingIsRegistered ==
    ~Cleared =>
    \A u \in Submits : Holding(u) =>
        session[u] \in Owned /\ entries[session[u]].live = u

(* What the tokens and permits of a call say about where it stands.        *)
CallFacts ==
    \A u \in Submits :
        /\ u \in finished <=> pc[u] \in {"ending", "done"}
        /\ u \in permits => pc[u] \notin {"idle", "refused", "signal", "ending", "done"}
        /\ pc[u] \notin {"idle", "refused", "signal", "ending", "done"}
               => session[u] \in Sessions

(* No entry a turn runs in is older than the last reload, unless retiring. *)
Fences ==
    /\ generation >= lastReload
    /\ \A s \in Owned :
          entries[s].live # None /\ ~entries[s].retiring
              => entries[s].generation >= lastReload

(* A retirement has a victim only while it aborts.                         *)
Victims ==
    \A r \in Retirers :
        /\ rpc[r] # "aborting" => victim[r] = None
        /\ victim[r] \notin finished \cup {None}
               => abort[victim[r]] \in {"requested", "fired"}

\* The inductive invariant.
RegistryInv ==
    TypeOK /\ RegisteredHolds /\ HoldingIsRegistered /\ CallFacts /\ Fences /\ Victims

---------------------------------------------------------------------------
(* The registry primitives.                                                *)

(* A set of conversations has a size.                                      *)
LEMMA Sized ==
    ASSUME NEW S \in SUBSET Sessions
    PROVE  IsFiniteSet(S) /\ Cardinality(S) \in Nat
BY FS_Subset, FS_CardinalityType, RegistryAssumption

\* Reordering leaves numbers.
LEMMA OrderedType ==
    ASSUME NEW order, NEW keep \in SUBSET Sessions
    PROVE  Ordered(order, keep) \in [Sessions -> Nat]
<1>1. ASSUME NEW s \in Sessions
      PROVE  Cardinality({t \in keep : order[t] <= order[s]}) \in Nat
  BY Sized
<1> QED
  BY <1>1 DEF Ordered

(* make_room() chooses one of the idle entries: never one that is busy or  *)
(* retiring, nor the conversation it makes room for.                       *)
LEMMA EvictedIsIdle ==
    ASSUME TypeOK, NEW s \in Sessions, HasRoom(s)
    PROVE  /\ Evicted(s) \subseteq Owned \ {s}
           /\ \A t \in Evicted(s) : entries[t].live = None
           /\ s \in Owned \/ Cardinality(Owned \ Evicted(s)) < Capacity
<1>1. CASE s \in Owned \/ Cardinality(Owned) < Capacity
  <2>1. Evicted(s) = {} /\ Owned \ Evicted(s) = Owned
    BY <1>1 DEF Evicted
  <2> QED
    BY <1>1, <2>1
<1>2. CASE ~(s \in Owned \/ Cardinality(Owned) < Capacity)
  <2> DEFINE Places == {lru[t] : t \in Evictable}
  <2>1. Evictable # {} /\ Evictable \subseteq Owned /\ Owned \subseteq Sessions
    BY <1>2 DEF HasRoom, Evictable, Owned
  <2>2. Places # {} /\ Places \in SUBSET Nat
    BY <2>1 DEF TypeOK
  <2>3. PICK least \in Places : \A n \in Places : least <= n
    BY <2>2, LeastNatural
  <2>4. \E t \in Evictable : \A v \in Evictable : lru[t] <= lru[v]
    BY <2>3
  <2>5. LeastRecent \in Evictable
    BY <2>4 DEF LeastRecent
  <2>6. Evicted(s) = {LeastRecent}
    BY <1>2 DEF Evicted
  <2>7. Cardinality(Owned \ {LeastRecent}) = Cardinality(Owned) - 1
    BY <2>1, <2>5, Sized, FS_RemoveElement
  <2>8. Cardinality(Owned) <= Capacity /\ Cardinality(Owned) \in Nat /\ Capacity \in Nat
    BY <2>1, Sized, RegistryAssumption DEF TypeOK
  <2>9. Cardinality(Owned \ Evicted(s)) < Capacity
    BY <2>6, <2>7, <2>8
  <2>10. LeastRecent # s /\ entries[LeastRecent].live = None
    BY <1>2, <2>1, <2>5 DEF Evictable
  <2> QED
    BY <2>1, <2>5, <2>6, <2>9, <2>10
<1> QED
  BY <1>1, <1>2

\* Forgetting leaves a memory.
LEMMA ForgetType ==
    ASSUME TypeOK, NEW gone
    PROVE  ForgetOwnership(gone) \in [Sessions -> Memory]
BY DEF TypeOK, ForgetOwnership, Memory

(* Removing entries leaves the others as they are.                         *)
LEMMA Removes ==
    ASSUME TypeOK, NEW gone \in SUBSET Sessions, RemoveEntries(gone)
    PROVE  /\ entries' \in [Sessions -> ManagedConversation \cup {None}]
           /\ Owned' = Owned \ gone
           /\ \A s \in Owned' : entries'[s] = entries[s]
           /\ Cardinality(Owned') <= Capacity
           /\ lru' \in [Sessions -> Nat]
           /\ memory' \in [Sessions -> Memory]
<1>1. entries' = [s \in Sessions |-> IF s \in gone THEN None ELSE entries[s]]
  BY DEF RemoveEntries
<1>2. entries' \in [Sessions -> ManagedConversation \cup {None}]
  BY <1>1 DEF TypeOK
<1>3. Owned' = Owned \ gone /\ \A s \in Owned' : entries'[s] = entries[s]
  BY <1>1 DEF Owned
<1>4. Owned' \in SUBSET Owned /\ Owned \in SUBSET Sessions
  BY <1>3 DEF Owned
<1>5. Cardinality(Owned') <= Cardinality(Owned)
  BY <1>4, Sized, FS_Subset
<1>6. Cardinality(Owned') \in Nat /\ Cardinality(Owned) \in Nat /\ Capacity \in Nat
  BY <1>4, Sized, RegistryAssumption
<1>7. Cardinality(Owned') <= Capacity
  BY <1>5, <1>6 DEF TypeOK
<1>8. lru' \in [Sessions -> Nat]
  BY <1>4, OrderedType DEF RemoveEntries
<1> QED
  BY <1>2, <1>3, <1>7, <1>8, ForgetType DEF RemoveEntries

(* Refreshing or adding an entry replaces it, evicts idle ones and leaves  *)
(* the others as they are; the registry stays within its capacity.         *)
LEMMA Updates ==
    ASSUME TypeOK, NEW s \in Sessions, NEW gen \in Nat,
           NEW turn \in Submits \cup {None}, HasRoom(s), UpdateEntry(s, gen, turn)
    PROVE  /\ entries' \in [Sessions -> ManagedConversation \cup {None}]
           /\ Owned' = (Owned \ Evicted(s)) \cup {s}
           /\ entries'[s].generation = gen /\ entries'[s].live = turn /\ ~entries'[s].retiring
           /\ \A t \in Owned' \ {s} : entries'[t] = entries[t]
           /\ \A t \in Evicted(s) : t # s /\ entries[t].live = None
           /\ Evicted(s) \subseteq Sessions
           /\ Cardinality(Owned') <= Capacity
           /\ lru' \in [Sessions -> Nat]
           /\ memory' \in [Sessions -> Memory]
<1> DEFINE new == [lastAccess |-> now, generation |-> gen, live |-> turn, retiring |-> FALSE]
<1>0. now \in 0..MaxTime
  BY DEF TypeOK
<1>1. new \in ManagedConversation /\ new # None
  <2>1. new \in ManagedConversation
    BY <1>0 DEF ManagedConversation
  <2> QED
    BY <2>1, NoneAssumption
<1>13. new.generation = gen /\ new.live = turn /\ ~new.retiring
  OBVIOUS
<1> HIDE DEF new
<1>2. entries' = [t \in Sessions |-> IF t = s THEN new
                                     ELSE IF t \in Evicted(s) THEN None ELSE entries[t]]
  BY DEF UpdateEntry, new
<1>3. /\ Evicted(s) \subseteq Owned \ {s}
      /\ \A t \in Evicted(s) : entries[t].live = None
      /\ s \in Owned \/ Cardinality(Owned \ Evicted(s)) < Capacity
  BY EvictedIsIdle
<1>4. entries' \in [Sessions -> ManagedConversation \cup {None}]
  BY <1>1, <1>2 DEF TypeOK
<1>5. /\ Owned' = (Owned \ Evicted(s)) \cup {s}
      /\ \A t \in Owned' \ {s} : entries'[t] = entries[t]
      /\ entries'[s] = new
  BY <1>1, <1>2, <1>3 DEF Owned
<1>6. Owned \ Evicted(s) \in SUBSET Owned /\ Owned \in SUBSET Sessions
  BY DEF Owned
<1>7. /\ Cardinality(Owned) \in Nat /\ Cardinality(Owned \ Evicted(s)) \in Nat
      /\ Cardinality(Owned \ Evicted(s)) <= Cardinality(Owned)
      /\ Capacity \in Nat /\ Cardinality(Owned) <= Capacity
  BY <1>6, Sized, FS_Subset, RegistryAssumption DEF TypeOK
<1>8. Cardinality(Owned') = IF s \in Owned \ Evicted(s) THEN Cardinality(Owned \ Evicted(s))
                            ELSE Cardinality(Owned \ Evicted(s)) + 1
  BY <1>5, <1>6, Sized, FS_AddElement
<1>9. Cardinality(Owned') <= Capacity
  BY <1>3, <1>7, <1>8
<1>10. lru' \in [Sessions -> Nat]
  BY <1>6, OrderedType DEF UpdateEntry, Touched
<1>11. memory' \in [Sessions -> Memory]
  BY ForgetType DEF UpdateEntry
<1>12. Evicted(s) \subseteq Sessions
  BY <1>3, <1>6
<1> QED
  BY <1>3, <1>4, <1>5, <1>9, <1>10, <1>11, <1>12, <1>13

---------------------------------------------------------------------------
(* The invariant is established and preserved.                             *)

\* It holds at first.
LEMMA RegistryInit == Init => RegistryInv
<1> SUFFICES ASSUME Init PROVE RegistryInv
  OBVIOUS
<1>1. Owned = {} /\ Cardinality(Owned) = 0
  BY FS_EmptySet DEF Init, Owned
<1>2. TypeOK
  BY <1>1, RegistryAssumption
  DEF Init, TypeOK, Memory, SubmitStep, AbortState, RetireStep, Procs
<1> QED
  BY <1>1, <1>2
  DEF Init, RegistryInv, RegisteredHolds, HoldingIsRegistered, Holding, CallFacts,
      Fences, Victims

(* The steps of a call and its turn that leave the registry alone.         *)
CallStep(u) ==
    \/ \E s \in Sessions : SubmitAdmitted(u, s)
    \/ SubmitReadsGeneration(u) \/ SubmitLoads(u) \/ SubmitRechecks(u)
    \/ Claim(u) /\ ~Claimable(u)
    \/ Spawn(u) \/ InstallAbort(u) \/ Remember(u) \/ TurnEnds(u) \/ TurnAborted(u)
    \/ ReleasePermit(u) \/ SignalFinished(u) \/ TaskEnds(u)

(* Such a step stays on its side of the claim and of the release, and      *)
(* keeps the session and the generation it was claimed with.               *)
LEMMA CallShape ==
    ASSUME RegistryInv, NEW u \in Submits, CallStep(u)
    PROVE  /\ UNCHANGED <<registry, cleanup, retirement, down, now, lastReload>>
           /\ \A v \in Submits : Holding(v)' <=> Holding(v)
           /\ \A v \in Submits : Holding(v) => session'[v] = session[v] /\ readGen'[v] = readGen[v]
           /\ TypeOK'
           /\ CallFacts'
           /\ Victims'
<1> USE DEF RegistryInv, registry, turns, retirement, Goto, Refuse, DropCall
<1>1. CASE \E s \in Sessions : SubmitAdmitted(u, s)
  BY <1>1 DEF SubmitAdmitted, TypeOK, Owned, Holding, CallFacts, Victims, SubmitStep
<1>2. CASE SubmitReadsGeneration(u)
  BY <1>2 DEF SubmitReadsGeneration, TypeOK, Owned, Holding, CallFacts, Victims, SubmitStep
<1>3. CASE SubmitLoads(u)
  BY <1>3 DEF SubmitLoads, TypeOK, Owned, Holding, CallFacts, Victims, SubmitStep
<1>4. CASE SubmitRechecks(u)
  BY <1>4 DEF SubmitRechecks, TypeOK, Owned, Holding, CallFacts, Victims, SubmitStep
<1>5. CASE Claim(u) /\ ~Claimable(u)
  BY <1>5 DEF Claim, TypeOK, Owned, Holding, CallFacts, Victims, SubmitStep
<1>6. CASE Spawn(u)
  BY <1>6 DEF Spawn, TypeOK, Owned, Holding, CallFacts, Victims, SubmitStep
<1>7. CASE InstallAbort(u)
  BY <1>7 DEF InstallAbort, TypeOK, Owned, Holding, CallFacts, Victims, AbortState
<1>8. CASE Remember(u)
  BY <1>8 DEF Remember, TypeOK, Owned, Holding, CallFacts, Victims, Memory
<1>9. CASE TurnEnds(u)
  BY <1>9 DEF TurnEnds, TypeOK, Owned, Holding, CallFacts, Victims, SubmitStep
<1>13. CASE TurnAborted(u)
  BY <1>13 DEF TurnAborted, TypeOK, Owned, Holding, CallFacts, Victims, SubmitStep
<1>10. CASE ReleasePermit(u)
  BY <1>10 DEF ReleasePermit, TypeOK, Owned, Holding, CallFacts, Victims, SubmitStep
<1>11. CASE SignalFinished(u)
  BY <1>11 DEF SignalFinished, TypeOK, Owned, Holding, CallFacts, Victims, SubmitStep
<1>12. CASE TaskEnds(u)
  BY <1>12 DEF TaskEnds, TypeOK, Owned, Holding, CallFacts, Victims, SubmitStep, AbortState
<1> QED
  BY <1>1, <1>2, <1>3, <1>4, <1>5, <1>6, <1>7, <1>8, <1>9, <1>10, <1>11, <1>12,
     <1>13 DEF CallStep

\* Submit's own steps, which touch the registry only where CallShape says.
LEMMA CallKeeps ==
    ASSUME RegistryInv, NEW u \in Submits, CallStep(u)
    PROVE  RegistryInv'
<1> USE CallShape DEF registry, retirement
<1>1. Owned' = Owned /\ Owned \subseteq Sessions /\ (Cleared' <=> Cleared)
  BY DEF Owned, Cleared
<1>2. \A s \in Owned : entries[s] \in ManagedConversation
  BY DEF RegistryInv, TypeOK, Owned
<1>3. \A s \in Owned : entries[s].live # None => entries[s].live \in Submits
  BY <1>2 DEF ManagedConversation
<1>4. RegisteredHolds'
  BY <1>1, <1>3 DEF RegistryInv, RegisteredHolds
<1>5. HoldingIsRegistered'
  BY <1>1 DEF RegistryInv, HoldingIsRegistered
<1>6. Fences'
  BY <1>1 DEF RegistryInv, Fences
<1> QED
  BY <1>4, <1>5, <1>6 DEF RegistryInv

(* Removing idle entries, or clearing the registry at shutdown, disturbs   *)
(* no registration.                                                        *)
LEMMA RemovalKeeps ==
    ASSUME RegistryInv, NEW gone \in SUBSET Sessions, RemoveEntries(gone),
           Cleared' \/ \A s \in gone \cap Owned : entries[s].live = None,
           Cleared => Cleared',
           UNCHANGED <<generation, lastReload, session, readGen>>,
           \A u \in Submits : Holding(u)' <=> Holding(u)
    PROVE  RegisteredHolds' /\ HoldingIsRegistered' /\ Fences'
<1>1. TypeOK /\ RegisteredHolds /\ HoldingIsRegistered /\ Fences
  BY DEF RegistryInv
<1>2. Owned' = Owned \ gone /\ \A s \in Owned' : entries'[s] = entries[s]
  BY <1>1, Removes
<1>3. \A s \in Owned : entries[s].live # None => entries[s].live \in Submits
  BY <1>1 DEF TypeOK, Owned, ManagedConversation
<1>4. RegisteredHolds'
  BY <1>1, <1>2, <1>3 DEF RegisteredHolds
<1>5. HoldingIsRegistered'
  <2> SUFFICES ASSUME ~Cleared', NEW u \in Submits, Holding(u)'
               PROVE  session'[u] \in Owned' /\ entries'[session'[u]].live = u
    BY DEF HoldingIsRegistered
  <2>1. session[u] \in Owned /\ entries[session[u]].live = u
    BY <1>1 DEF HoldingIsRegistered
  <2>2. session[u] \notin gone
    BY <2>1, NoneAssumption
  <2> QED
    BY <1>2, <2>1, <2>2
<1>6. Fences'
  BY <1>1, <1>2 DEF Fences
<1> QED
  BY <1>4, <1>5, <1>6

(* What finish_retirement() and the sweeps remove is idle.                 *)
LEMMA RemovedIsIdle ==
    /\ Expired \in SUBSET Sessions /\ \A s \in Expired : entries[s].live = None
    /\ \A s, gen : Removable(s, gen) => s \in Sessions /\ entries[s].live = None
BY DEF Expired, Owned, Removable

\* The steps that remove conversations: sweeps, releases, retirement, shutdown.
RemovalStep ==
    \/ Sweep
    \/ \E u \in Submits : SubmitSweeps(u) \/ ReleaseRetired(u)
    \/ \E r \in Retirers : DestroySweeps(r) \/ RetireFinishes(r)
    \/ ShutdownClears

\* They remove what is idle, so whoever runs stays registered.
LEMMA RemovalPreserves == RegistryInv /\ RemovalStep => RegistryInv'
<1> SUFFICES ASSUME RegistryInv, RemovalStep PROVE RegistryInv'
  OBVIOUS
<1> USE DEF registry, turns, retirement, Goto, RetireGoto, ShutdownGoto
<1>0. TypeOK /\ CallFacts /\ Victims
  BY DEF RegistryInv
<1>1. CASE Sweep
  <2>1. Expired \in SUBSET Sessions /\ RemoveEntries(Expired)
    BY <1>1, RemovedIsIdle DEF Sweep
  <2>2. TypeOK'
    BY <1>0, <1>1, <2>1, Removes DEF Sweep, TypeOK, Procs
  <2>3. RegisteredHolds' /\ HoldingIsRegistered' /\ Fences'
    BY <1>1, <2>1, RemovedIsIdle, RemovalKeeps DEF Sweep, Cleared, Holding
  <2>4. CallFacts' /\ Victims'
    BY <1>0, <1>1 DEF Sweep, CallFacts, Victims
  <2> QED
    BY <2>2, <2>3, <2>4 DEF RegistryInv
<1>2. ASSUME NEW u \in Submits, SubmitSweeps(u) PROVE RegistryInv'
  <2>1. Expired \in SUBSET Sessions /\ RemoveEntries(Expired)
    BY <1>2, RemovedIsIdle DEF SubmitSweeps
  <2>2. TypeOK'
    BY <1>0, <1>2, <2>1, Removes DEF SubmitSweeps, TypeOK, Procs, SubmitStep
  <2>3. \A v \in Submits : Holding(v)' <=> Holding(v)
    BY <1>0, <1>2 DEF SubmitSweeps, Holding, TypeOK
  <2>4. RegisteredHolds' /\ HoldingIsRegistered' /\ Fences'
    BY <1>2, <2>1, <2>3, RemovedIsIdle, RemovalKeeps DEF SubmitSweeps, Cleared
  <2>5. CallFacts' /\ Victims'
    BY <1>0, <1>2 DEF SubmitSweeps, CallFacts, Victims, TypeOK
  <2> QED
    BY <2>2, <2>4, <2>5 DEF RegistryInv
<1>3. ASSUME NEW u \in Submits, ReleaseRetired(u) PROVE RegistryInv'
  <2>1. PICK gone \in SUBSET Sessions :
            RemoveEntries(gone) /\ \A s \in gone : entries[s].live = None
    BY <1>3, RemovedIsIdle DEF ReleaseRetired, FinishRetirement
  <2>2. TypeOK'
    BY <1>0, <1>3, <2>1, Removes DEF ReleaseRetired, TypeOK, SubmitStep
  <2>3. \A v \in Submits : Holding(v)' <=> Holding(v)
    BY <1>0, <1>3 DEF ReleaseRetired, Holding, TypeOK
  <2>4. RegisteredHolds' /\ HoldingIsRegistered' /\ Fences'
    BY <1>3, <2>1, <2>3, RemovalKeeps DEF ReleaseRetired, Cleared
  <2>5. CallFacts' /\ Victims'
    BY <1>0, <1>3 DEF ReleaseRetired, CallFacts, Victims, TypeOK
  <2> QED
    BY <2>2, <2>4, <2>5 DEF RegistryInv
<1>4. ASSUME NEW r \in Retirers, DestroySweeps(r) PROVE RegistryInv'
  <2>1. Expired \in SUBSET Sessions /\ RemoveEntries(Expired)
    BY <1>4, RemovedIsIdle DEF DestroySweeps
  <2>2. TypeOK'
    BY <1>0, <1>4, <2>1, Removes DEF DestroySweeps, TypeOK, Procs, RetireStep
  <2>3. RegisteredHolds' /\ HoldingIsRegistered' /\ Fences'
    BY <1>4, <2>1, RemovedIsIdle, RemovalKeeps DEF DestroySweeps, Cleared, Holding
  <2>4. CallFacts' /\ Victims'
    BY <1>0, <1>4 DEF DestroySweeps, CallFacts, Victims, TypeOK
  <2> QED
    BY <2>2, <2>3, <2>4 DEF RegistryInv
<1>5. ASSUME NEW r \in Retirers, RetireFinishes(r) PROVE RegistryInv'
  <2>1. PICK gone \in SUBSET Sessions :
            RemoveEntries(gone) /\ \A s \in gone : entries[s].live = None
    BY <1>5, RemovedIsIdle DEF RetireFinishes, FinishRetirement
  <2>2. TypeOK'
    BY <1>0, <1>5, <2>1, Removes DEF RetireFinishes, TypeOK
  <2>3. RegisteredHolds' /\ HoldingIsRegistered' /\ Fences'
    BY <1>5, <2>1, RemovalKeeps DEF RetireFinishes, Cleared, Holding
  <2>4. CallFacts' /\ Victims'
    BY <1>0, <1>5 DEF RetireFinishes, CallFacts, Victims
  <2> QED
    BY <2>2, <2>3, <2>4 DEF RegistryInv
<1>6. CASE ShutdownClears
  <2>1. Owned \in SUBSET Sessions /\ RemoveEntries(Owned)
    BY <1>6 DEF ShutdownClears, Owned
  <2>2. TypeOK'
    BY <1>0, <1>6, <2>1, Removes DEF ShutdownClears, TypeOK, Procs
  <2>3. RegisteredHolds' /\ HoldingIsRegistered' /\ Fences'
    BY <1>6, <2>1, RemovalKeeps DEF ShutdownClears, Cleared, Holding
  <2>4. CallFacts' /\ Victims'
    BY <1>0, <1>6 DEF ShutdownClears, CallFacts, Victims
  <2> QED
    BY <2>2, <2>3, <2>4 DEF RegistryInv
<1> QED
  BY <1>1, <1>2, <1>3, <1>4, <1>5, <1>6 DEF RemovalStep

(* select_model() keeps the turn and the generation of a live entry.       *)
LEMMA SelectPreserves ==
    ASSUME RegistryInv, NEW s \in Sessions, SelectModel(s)
    PROVE  RegistryInv'
<1> USE DEF registry, turns, retirement
<1>0. TypeOK /\ CallFacts /\ Victims /\ RegisteredHolds /\ HoldingIsRegistered /\ Fences
  BY DEF RegistryInv
<1> DEFINE gen == IF s \in Owned THEN entries[s].generation ELSE generation
           turn == IF s \in Owned THEN entries[s].live ELSE None
<1>1. \A t \in Owned : /\ entries[t].generation \in Nat
                       /\ entries[t].live \in Submits \cup {None}
  BY <1>0 DEF TypeOK, Owned, ManagedConversation
<1>2. gen \in Nat /\ turn \in Submits \cup {None}
  BY <1>0, <1>1 DEF TypeOK
<1>3. HasRoom(s) /\ UpdateEntry(s, gen, turn) /\ (s \in Owned => ~entries[s].retiring)
  BY DEF SelectModel
<1>4. gen = (IF s \in Owned THEN entries[s].generation ELSE generation)
      /\ turn = (IF s \in Owned THEN entries[s].live ELSE None)
  OBVIOUS
<1> HIDE DEF gen, turn
<1>5. /\ Owned' = (Owned \ Evicted(s)) \cup {s}
      /\ entries'[s].generation = gen /\ entries'[s].live = turn
      /\ \A t \in Owned' \ {s} : entries'[t] = entries[t]
      /\ \A t \in Evicted(s) : t # s /\ entries[t].live = None
      /\ Evicted(s) \subseteq Sessions
  BY <1>0, <1>2, <1>3, Updates
<1>6. TypeOK'
  BY <1>0, <1>2, <1>3, <1>5, Updates DEF SelectModel, TypeOK, Procs
<1>7. UNCHANGED <<pc, session, readGen, generation, lastReload, down>>
  BY DEF SelectModel
<1>8. \A u : Holding(u)' <=> Holding(u)
  BY <1>7 DEF Holding
<1>9. RegisteredHolds'
  BY <1>0, <1>4, <1>5, <1>7, <1>8 DEF RegisteredHolds
<1>10. HoldingIsRegistered'
  <2> SUFFICES ASSUME ~Cleared', NEW u \in Submits, Holding(u)'
               PROVE  session'[u] \in Owned' /\ entries'[session'[u]].live = u
    BY DEF HoldingIsRegistered
  <2>1. session[u] \in Owned /\ entries[session[u]].live = u /\ u # None
    BY <1>0, <1>7, <1>8, NoneAssumption DEF HoldingIsRegistered, Cleared
  <2>2. session[u] \notin Evicted(s)
    BY <1>5, <2>1
  <2>3. CASE session[u] = s
    BY <1>4, <1>5, <1>7, <2>1, <2>3
  <2>4. CASE session[u] # s
    BY <1>5, <1>7, <2>1, <2>2, <2>4
  <2> QED
    BY <2>3, <2>4
<1>11. Fences'
  BY <1>0, <1>3, <1>4, <1>5, <1>7 DEF Fences
<1>12. CallFacts' /\ Victims'
  BY <1>0 DEF SelectModel, CallFacts, Victims
<1> QED
  BY <1>6, <1>9, <1>10, <1>11, <1>12 DEF RegistryInv

(* claim() registers a turn in an idle or new entry, with the generation   *)
(* the registry has now.                                                   *)
LEMMA ClaimPreserves ==
    ASSUME RegistryInv, NEW u \in Submits, Claim(u), Claimable(u)
    PROVE  RegistryInv'
<1> USE DEF registry, turns, retirement, Goto
<1> DEFINE s == session[u]
<1>0. TypeOK /\ CallFacts /\ Victims /\ RegisteredHolds /\ HoldingIsRegistered /\ Fences
  BY DEF RegistryInv
<1>1. s \in Sessions /\ readGen[u] \in Nat /\ pc[u] = "claim" /\ readGen[u] = generation
  BY <1>0 DEF Claim, Claimable, CallFacts, TypeOK
<1>2. HasRoom(s) /\ UpdateEntry(s, readGen[u], u) /\ (s \in Owned => entries[s].live = None)
  BY DEF Claim, Claimable
<1>12. u \in Submits \cup {None}
  OBVIOUS
<1>3. /\ Owned' = (Owned \ Evicted(s)) \cup {s}
      /\ entries'[s].generation = readGen[u] /\ entries'[s].live = u
      /\ \A t \in Owned' \ {s} : entries'[t] = entries[t]
      /\ \A t \in Evicted(s) : t # s /\ entries[t].live = None
      /\ Evicted(s) \subseteq Sessions
  BY <1>0, <1>1, <1>2, <1>12, Updates
<1>4. TypeOK'
  <2>1. /\ entries' \in [Sessions -> ManagedConversation \cup {None}]
        /\ Cardinality(Owned') <= Capacity
        /\ lru' \in [Sessions -> Nat]
        /\ memory' \in [Sessions -> Memory]
    BY <1>0, <1>1, <1>2, <1>12, Updates
  <2> QED
    BY <1>0, <1>1, <1>3, <2>1 DEF Claim, TypeOK, Procs, SubmitStep
<1>5. UNCHANGED <<session, readGen, generation, lastReload, down>>
  BY DEF Claim
<1>6. /\ Holding(u)' /\ ~Holding(u)
      /\ \A v \in Submits \ {u} : Holding(v)' <=> Holding(v)
  BY <1>0, <1>1 DEF Claim, Holding, TypeOK
<1>7. \A t \in Owned : entries[t].live # None => entries[t].live \in Submits \ {u}
  BY <1>0, <1>6 DEF TypeOK, Owned, ManagedConversation, RegisteredHolds
<1>8. RegisteredHolds'
  BY <1>0, <1>3, <1>5, <1>6, <1>7 DEF RegisteredHolds
<1>9. HoldingIsRegistered'
  <2> SUFFICES ASSUME ~Cleared', NEW v \in Submits, Holding(v)'
               PROVE  session'[v] \in Owned' /\ entries'[session'[v]].live = v
    BY DEF HoldingIsRegistered
  <2>1. CASE v = u
    BY <1>3, <1>5, <2>1
  <2>2. CASE v # u
    <3>1. session[v] \in Owned /\ entries[session[v]].live = v /\ v # None
      BY <1>0, <1>5, <1>6, <2>2, NoneAssumption DEF HoldingIsRegistered, Cleared
    <3>2. session[v] \notin Evicted(s) /\ session[v] # s
      BY <1>2, <1>3, <3>1
    <3> QED
      BY <1>3, <1>5, <3>1, <3>2
  <2> QED
    BY <2>1, <2>2
<1>10. Fences'
  BY <1>0, <1>1, <1>3, <1>5 DEF Fences
<1>11. CallFacts' /\ Victims'
  BY <1>0, <1>1 DEF Claim, CallFacts, Victims, TypeOK
<1> QED
  BY <1>4, <1>8, <1>9, <1>10, <1>11 DEF RegistryInv

(* release() finds the turn's own entry and clears it.                     *)
LEMMA ReleasePreserves ==
    ASSUME RegistryInv, NEW u \in Submits, Release(u)
    PROVE  RegistryInv'
<1> USE DEF registry, turns, retirement, Goto
<1> DEFINE s == session[u]
           mine == s \in Owned /\ entries[s].generation = readGen[u] /\ entries[s].live = u
<1>0. TypeOK /\ CallFacts /\ Victims /\ RegisteredHolds /\ HoldingIsRegistered /\ Fences
  BY DEF RegistryInv
<1>1. s \in Sessions /\ pc[u] = "release" /\ u # None
  BY <1>0, NoneAssumption DEF Release, CallFacts
<1>2. /\ Holding(u) /\ ~Holding(u)'
      /\ \A v \in Submits \ {u} : Holding(v)' <=> Holding(v)
  BY <1>0, <1>1 DEF Release, Holding, TypeOK
<1>3. UNCHANGED <<session, readGen, generation, lastReload, down, memory, now>>
  BY DEF Release
<1>4. \A t \in Owned : entries[t].live = u => t = s /\ mine
  BY <1>0, <1>1 DEF RegisteredHolds
<1>5. \A t \in Owned : /\ entries[t] \in ManagedConversation
                       /\ entries[t].live # None => entries[t].live \in Submits
  BY <1>0 DEF TypeOK, Owned, ManagedConversation
<1>6. CASE mine
  <2> DEFINE freed == [entries[s] EXCEPT !.live = None, !.lastAccess = now]
  <2>1. freed \in ManagedConversation
    BY <1>0, <1>5, <1>6 DEF TypeOK, ManagedConversation
  <2>2. entries' = [entries EXCEPT ![s] = freed] /\ lru' = Touched(Owned, s)
    BY <1>0, <1>1, <1>6 DEF Release, TypeOK
  <2>3. freed.live = None /\ freed # None
    BY <1>5, <1>6, <2>1, NoneAssumption DEF ManagedConversation
  <2> HIDE DEF freed
  <2>4. /\ Owned' = Owned
        /\ entries'[s].live = None
        /\ \A t \in Owned \ {s} : entries'[t] = entries[t]
        /\ entries' \in [Sessions -> ManagedConversation \cup {None}]
    BY <1>0, <1>1, <1>6, <2>1, <2>2, <2>3 DEF Owned, TypeOK
  <2>5. lru' \in [Sessions -> Nat]
    BY <1>1, <2>2, OrderedType DEF Touched, Owned
  <2>6. TypeOK'
    BY <1>0, <1>1, <2>4, <2>5 DEF Release, TypeOK, Procs, SubmitStep
  <2>7. RegisteredHolds'
    BY <1>0, <1>2, <1>3, <1>4, <1>5, <2>4 DEF RegisteredHolds
  <2>8. HoldingIsRegistered'
    BY <1>0, <1>2, <1>3, <1>6, <2>4 DEF HoldingIsRegistered, Cleared
  <2>9. Fences'
    BY <1>0, <1>3, <2>4 DEF Fences
  <2> QED
    BY <1>0, <1>1, <2>6, <2>7, <2>8, <2>9 DEF Release, RegistryInv, CallFacts, Victims, TypeOK
<1>7. CASE ~mine
  <2>1. UNCHANGED <<entries, lru>>
    BY <1>7 DEF Release
  <2>2. Owned' = Owned
    BY <2>1 DEF Owned
  <2>3. TypeOK'
    BY <1>0, <1>1, <2>1, <2>2 DEF Release, TypeOK, Procs, SubmitStep
  <2>4. RegisteredHolds'
    BY <1>0, <1>2, <1>3, <1>4, <1>5, <1>7, <2>1, <2>2 DEF RegisteredHolds
  <2>5. HoldingIsRegistered' /\ Fences'
    BY <1>0, <1>2, <1>3, <2>1, <2>2 DEF HoldingIsRegistered, Cleared, Fences
  <2> QED
    BY <1>0, <1>1, <2>3, <2>4, <2>5 DEF Release, RegistryInv, CallFacts, Victims, TypeOK
<1> QED
  BY <1>6, <1>7

(* retire() and reload() mark entries and install a new generation: the    *)
(* turns stay registered, and a reload leaves no entry that is not fenced. *)
LEMMA RetirePreserves ==
    ASSUME RegistryInv, NEW r \in Retirers, NEW set \in SUBSET Sessions,
           rpc[r] \in {"idle", "destroy"}, RetireSessions(r, set), UNCHANGED cleanup,
           \/ lastReload' = lastReload
           \/ lastReload' = generation + 1 /\ set = Sessions
    PROVE  RegistryInv'
<1> USE DEF turns, RetireGoto
<1>0. TypeOK /\ CallFacts /\ Victims /\ RegisteredHolds /\ HoldingIsRegistered /\ Fences
  BY DEF RegistryInv
<1> DEFINE marked(s) == [entries[s] EXCEPT !.retiring = TRUE]
<1>1. \A s \in Owned : /\ entries[s] \in ManagedConversation
                       /\ entries[s].generation \in Nat
                       /\ entries[s].live \in Submits \cup {None}
  BY <1>0 DEF TypeOK, Owned, ManagedConversation
<1>2. ASSUME NEW s \in Owned
      PROVE  /\ marked(s) \in ManagedConversation
             /\ marked(s) # None
             /\ marked(s).live = entries[s].live
             /\ marked(s).generation = entries[s].generation
             /\ marked(s).retiring
  <2>1. marked(s) \in ManagedConversation
    BY <1>1 DEF ManagedConversation
  <2>2. /\ marked(s).live = entries[s].live
        /\ marked(s).generation = entries[s].generation
        /\ marked(s).retiring
    BY <1>1 DEF ManagedConversation
  <2> QED
    BY <2>1, <2>2, NoneAssumption
<1>3. entries' = [s \in Sessions |-> IF s \in set \cap Owned THEN marked(s) ELSE entries[s]]
  BY DEF RetireSessions
<1> HIDE DEF marked
<1>4. /\ Owned' = Owned
      /\ entries' \in [Sessions -> ManagedConversation \cup {None}]
  BY <1>0, <1>2, <1>3 DEF Owned, TypeOK
<1>5. \A s \in Owned : /\ entries'[s].live = entries[s].live
                       /\ entries'[s].generation = entries[s].generation
                       /\ entries'[s].retiring <=> s \in set \/ entries[s].retiring
  BY <1>2, <1>3 DEF Owned
<1>6. UNCHANGED <<pc, session, readGen, abort, permits, finished, victim, down>>
  BY DEF RetireSessions
<1>7. TypeOK'
  <2>1. {<<s, entries[s].generation>> : s \in {t \in set \cap Owned : entries[t].live = None}}
            \in SUBSET (Sessions \X Nat)
    BY <1>1
  <2>2. {entries[s].live : s \in set \cap Owned} \ {None} \in SUBSET Submits
    BY <1>1
  <2>3. idle' \in [Retirers -> SUBSET (Sessions \X Nat)] /\ active' \in [Retirers -> SUBSET Submits]
    BY <1>0, <2>1, <2>2 DEF RetireSessions, TypeOK
  <2>4. generation' \in Nat /\ lastReload' \in Nat /\ rpc' \in [Retirers -> RetireStep]
    BY <1>0 DEF RetireSessions, TypeOK, RetireStep
  <2> QED
    BY <1>0, <1>4, <1>6, <2>3, <2>4 DEF RetireSessions, TypeOK
<1>8. RegisteredHolds'
  BY <1>0, <1>4, <1>5, <1>6 DEF RegisteredHolds, Holding
<1>9. HoldingIsRegistered'
  BY <1>0, <1>4, <1>5, <1>6 DEF HoldingIsRegistered, Holding, Cleared
<1>10. Fences'
  <2>1. generation' = generation + 1 /\ generation \in Nat /\ lastReload \in Nat
    BY <1>0 DEF RetireSessions, TypeOK
  <2>2. Owned \subseteq Sessions
    BY DEF Owned
  <2> QED
    BY <1>0, <1>4, <1>5, <2>1, <2>2 DEF Fences
<1>11. CallFacts' /\ Victims'
  BY <1>0, <1>6 DEF RetireSessions, CallFacts, Victims, TypeOK
<1> QED
  BY <1>7, <1>8, <1>9, <1>10, <1>11 DEF RegistryInv

(* The steps that touch neither the entries nor where a call stands.       *)
OtherStep ==
    \/ \E p \in Procs, s \in Sessions : Cleanup(p, s)
    \/ \E r \in Retirers :
          \/ RetireForgets(r) \/ RetireCancels(r) \/ RetireJoins(r) \/ RetireTimesOut(r)
          \/ RetireAborts(r) \/ RetireDropped(r)
    \/ ShutdownCancels \/ ShutdownJoins \/ ShutdownResolves \/ Tick

(* A requested abort is never forgotten by a later request.                *)
LEMMA RequestedStays ==
    ASSUME TypeOK, NEW us
    PROVE  /\ AbortRequested(us) \in [Submits -> AbortState]
           /\ \A u \in Submits : abort[u] \in {"requested", "fired"}
                  => AbortRequested(us)[u] \in {"requested", "fired"}
           /\ \A u \in Submits \cap us : AbortRequested(us)[u] \in {"requested", "fired"}
BY DEF TypeOK, AbortRequested, AbortState

\* Cleanup, aborts, signals and the clock leave the registry as it is.
LEMMA OtherTypes ==
    ASSUME RegistryInv, OtherStep
    PROVE  /\ UNCHANGED <<registry, pc, session, readGen, permits, finished, lastReload>>
           /\ Cleared' <=> Cleared
           /\ TypeOK' /\ Victims'
<1> USE DEF registry, turns, retirement, RetireGoto, ShutdownGoto
<1>0. TypeOK /\ Victims
  BY DEF RegistryInv
<1>1. CASE \E p \in Procs, s \in Sessions : Cleanup(p, s)
  BY <1>0, <1>1 DEF Cleanup, TypeOK, Victims, Owned, Cleared, Memory
<1>2. CASE \E r \in Retirers : RetireForgets(r)
  <2> PICK r \in Retirers : RetireForgets(r)
    BY <1>2
  <2>1. PICK item \in idle[r] :
          /\ memory' = [memory EXCEPT ![item[1]] = "none"]
          /\ idle' = [idle EXCEPT ![r] = @ \ {item}]
          /\ forgotten' = [forgotten EXCEPT ![r] = {item}]
    BY DEF RetireForgets
  <2>2. memory' \in [Sessions -> Memory]
    BY <1>0, <2>1 DEF TypeOK, Memory
  <2>3. idle' \in [Retirers -> SUBSET (Sessions \X Nat)]
    BY <1>0, <2>1 DEF TypeOK
  <2>4. forgotten' \in [Retirers -> SUBSET (Sessions \X Nat)]
    BY <1>0, <2>1 DEF TypeOK
  <2> QED
    BY <1>0, <2>2, <2>3, <2>4 DEF RetireForgets, TypeOK, Victims, Owned, Cleared
<1>3. CASE \E r \in Retirers : RetireCancels(r)
  BY <1>0, <1>3 DEF RetireCancels, TypeOK, Victims, Owned, Cleared, RetireStep
<1>4. CASE \E r \in Retirers : RetireJoins(r)
  BY <1>0, <1>4 DEF RetireJoins, TypeOK, Victims, Owned, Cleared, RetireStep
<1>5. CASE \E r \in Retirers : RetireTimesOut(r)
  BY <1>0, <1>5 DEF RetireTimesOut, TypeOK, Victims, Owned, Cleared, RetireStep
<1>6. CASE \E r \in Retirers : RetireAborts(r)
  <2> PICK r \in Retirers : RetireAborts(r)
    BY <1>6
  <2>1. PICK u \in active[r] \ finished :
          abort' = AbortRequested({u}) /\ victim' = [victim EXCEPT ![r] = u]
    BY DEF RetireAborts
  <2>2. u \in Submits
    BY <1>0, <2>1 DEF TypeOK
  <2>3. /\ abort' \in [Submits -> AbortState]
        /\ \A v \in Submits : abort[v] \in {"requested", "fired"}
               => abort'[v] \in {"requested", "fired"}
        /\ abort'[u] \in {"requested", "fired"}
    BY <1>0, <2>1, <2>2, RequestedStays
  <2>4. Victims'
    BY <1>0, <2>1, <2>2, <2>3 DEF RetireAborts, TypeOK, Victims
  <2> QED
    BY <1>0, <2>1, <2>2, <2>3, <2>4 DEF RetireAborts, TypeOK, Owned, Cleared
<1>7. CASE \E r \in Retirers : RetireDropped(r)
  <2> PICK r \in Retirers : RetireDropped(r)
    BY <1>7
  <2>1. /\ abort' \in [Submits -> AbortState]
        /\ \A v \in Submits : abort[v] \in {"requested", "fired"}
               => abort'[v] \in {"requested", "fired"}
    BY <1>0, RequestedStays DEF RetireDropped
  <2>2. Victims'
    BY <1>0, <2>1 DEF RetireDropped, TypeOK, Victims
  <2> QED
    BY <1>0, <2>1, <2>2 DEF RetireDropped, TypeOK, Owned, Cleared, RetireStep
<1>8. CASE ShutdownCancels \/ ShutdownJoins \/ ShutdownResolves
  BY <1>0, <1>8 DEF ShutdownCancels, ShutdownJoins, ShutdownResolves, TypeOK, Victims, Owned,
                    Cleared
<1>9. CASE Tick
  BY <1>0, <1>9, RegistryAssumption DEF Tick, TypeOK, Victims, Owned, Cleared
<1> QED
  BY <1>1, <1>2, <1>3, <1>4, <1>5, <1>6, <1>7, <1>8, <1>9 DEF OtherStep

\* So they keep the invariant.
LEMMA OtherPreserves == RegistryInv /\ OtherStep => RegistryInv'
<1> SUFFICES ASSUME RegistryInv, OtherStep PROVE RegistryInv'
  OBVIOUS
<1> USE DEF registry
<1>1. Owned' = Owned /\ \A u : Holding(u)' <=> Holding(u)
  BY OtherTypes DEF Owned, Holding
<1>2. RegisteredHolds' /\ HoldingIsRegistered' /\ Fences' /\ CallFacts'
  BY <1>1, OtherTypes
  DEF RegistryInv, RegisteredHolds, HoldingIsRegistered, Fences, CallFacts
<1> QED
  BY <1>2, OtherTypes DEF RegistryInv

\* The invariant is inductive.
LEMMA RegistryStep == RegistryInv /\ [Next]_vars => RegistryInv'
<1> SUFFICES ASSUME RegistryInv, [Next]_vars PROVE RegistryInv'
  OBVIOUS
<1>1. ASSUME NEW u \in Submits,
             SubmitStepOf(u) \/ GuardStep(u) \/ Remember(u) \/ TurnEnds(u)
      PROVE  RegistryInv'
  <2>1. CASE \E s \in Sessions : Cleanup(u, s)
    BY <2>1, OtherPreserves DEF OtherStep, Procs
  <2>2. CASE SubmitSweeps(u) \/ ReleaseRetired(u)
    BY <2>2, RemovalPreserves DEF RemovalStep
  <2>3. CASE Claim(u) /\ Claimable(u)
    BY <2>3, ClaimPreserves
  <2>4. CASE Release(u)
    BY <2>4, ReleasePreserves
  <2>5. CASE CallStep(u)
    BY <2>5, CallKeeps
  <2> QED
    BY <1>1, <2>1, <2>2, <2>3, <2>4, <2>5 DEF SubmitStepOf, GuardStep, CallStep
<1>2. ASSUME NEW r \in Retirers,
             \/ DestroySweeps(r) \/ Reload(r) \/ RetireProgress(r) \/ RetireDropped(r)
             \/ \E s \in Sessions : Destroy(r, s) \/ Cleanup(r, s)
      PROVE  RegistryInv'
  <2>1. CASE DestroySweeps(r) \/ RetireFinishes(r)
    BY <2>1, RemovalPreserves DEF RemovalStep
  <2>2. CASE Reload(r)
    BY <2>2, RetirePreserves DEF Reload
  <2>3. ASSUME NEW s \in Sessions, Destroy(r, s) PROVE RegistryInv'
    <3>1. {s} \in SUBSET Sessions
      OBVIOUS
    <3> QED
      BY <2>3, <3>1, RetirePreserves DEF Destroy
  <2>4. CASE \E s \in Sessions : Cleanup(r, s)
    BY <2>4, OtherPreserves DEF OtherStep, Procs
  <2>5. CASE \/ RetireForgets(r) \/ RetireCancels(r) \/ RetireJoins(r) \/ RetireTimesOut(r)
             \/ RetireAborts(r) \/ RetireDropped(r)
    BY <2>5, OtherPreserves DEF OtherStep
  <2> QED
    BY <1>2, <2>1, <2>2, <2>3, <2>4, <2>5 DEF RetireProgress
<1>3. ASSUME NEW s \in Sessions, SelectModel(s) \/ Cleanup(Sweeper, s) \/ Cleanup(Shutdown, s)
      PROVE  RegistryInv'
  BY <1>3, SelectPreserves, OtherPreserves DEF OtherStep, Procs
<1>4. CASE Sweep \/ ShutdownClears
  BY <1>4, RemovalPreserves DEF RemovalStep
<1>5. CASE ShutdownCancels \/ ShutdownJoins \/ ShutdownResolves \/ Tick
  BY <1>5, OtherPreserves DEF OtherStep
<1>6. CASE UNCHANGED vars
  BY <1>6 DEF vars, registry, turns, retirement, RegistryInv, TypeOK, Owned, RegisteredHolds,
              HoldingIsRegistered, Holding, CallFacts, Fences, Victims, Cleared
<1> QED
  BY <1>1, <1>2, <1>3, <1>4, <1>5, <1>6 DEF Next

---------------------------------------------------------------------------
(* The theorems.                                                           *)

(* The registry invariant holds in every reachable state, TypeOK with it:  *)
(* neither submit nor select_model ever takes the registry over capacity.  *)
THEOREM RegistryAlways == Spec => []RegistryInv
<1>1. Init => RegistryInv
  BY RegistryInit
<1>2. RegistryInv /\ [Next]_vars => RegistryInv'
  BY RegistryStep
<1> QED
  BY <1>1, <1>2, PTL DEF Spec

(* The bound of the registry, as a property of its own.                    *)
THEOREM CapacityIsKept == Spec => [](Cardinality(Owned) <= Capacity)
<1>1. RegistryInv => Cardinality(Owned) <= Capacity
  BY DEF RegistryInv, TypeOK
<1> QED
  BY <1>1, RegistryAlways, PTL

(* claim(), release(), the sweeps, eviction and retirement together keep a *)
(* turn registered exactly from its claim to its release.                  *)
THEOREM TurnsAreRegistered == Spec => []LiveExactlyWhileRunning
<1>1. RegistryInv => LiveExactlyWhileRunning
  BY NoneAssumption
  DEF RegistryInv, LiveExactlyWhileRunning, RegisteredHolds, HoldingIsRegistered, Holding
<1> QED
  BY <1>1, RegistryAlways, PTL

(* LiveTurnGuard::drop releases entry and permit before the terminal       *)
(* signal fires, whatever else happens to the session meanwhile.           *)
THEOREM FinishedTurnsAreReleased == Spec => []FinishedMeansReleased
<1>1. RegistryInv => FinishedMeansReleased
  <2> SUFFICES ASSUME RegistryInv, NEW u \in finished
               PROVE  u \notin permits /\ \A s \in Owned : entries[s].live # u
    BY DEF FinishedMeansReleased
  <2>1. u \in Submits /\ u # None
    BY NoneAssumption DEF RegistryInv, TypeOK
  <2>2. pc[u] \in {"ending", "done"} /\ u \notin permits
    BY <2>1 DEF RegistryInv, CallFacts
  <2> QED
    BY <2>1, <2>2 DEF RegistryInv, RegisteredHolds, Holding
<1> QED
  BY <1>1, RegistryAlways, PTL

(* The generation fence of claim() is enough although the generation is    *)
(* read before an await: no turn runs unfenced across a reload.            *)
THEOREM OldTurnsAreFenced == Spec => []ReloadFencesOldTurns
<1>1. RegistryInv => ReloadFencesOldTurns
  BY DEF RegistryInv, ReloadFencesOldTurns, RegisteredHolds, Fences
<1> QED
  BY <1>1, RegistryAlways, PTL

(* An abort requested before install_turn_abort() is not lost.             *)
THEOREM AbortsAreNotLost == Spec => []VictimIsAborted
<1>1. RegistryInv => VictimIsAborted
  BY DEF RegistryInv, VictimIsAborted, Victims
<1> QED
  BY <1>1, RegistryAlways, PTL

---------------------------------------------------------------------------
(* What a conversation remembered is forgotten by whoever removed it.      *)

(* A thread has sessions to clean up only right after it removed them.     *)
Slots ==
    /\ \A u \in Submits :
          /\ pc[u] \notin {"generation", "spawn", "retired"} => cleanup[u] = {}
          /\ pc[u] = "retired" => cleanup[u] \subseteq {session[u]}
    /\ \A r \in Retirers : rpc[r] = "idle" => cleanup[r] = {}

(* An entry is not newer than the registry, a tombstone is older.          *)
Aged ==
    \A s \in Owned : /\ entries[s].generation <= generation
                     /\ entries[s].retiring => entries[s].generation < generation

(* The conversation s of generation gen is a tombstone or gone.            *)
Buried(s, gen) ==
    /\ gen < generation
    /\ s \in Owned /\ entries[s].generation = gen => Removable(s, gen)

(* Its tombstone, if it stands, remembers nothing any more.                *)
Clean(s, gen) == ~Cleared /\ Removable(s, gen) => memory[s] # "own"

(* What finish_retirement() will be called with is cleaned up before.      *)
Tombstones ==
    /\ \A r \in Retirers :
          /\ \A item \in idle[r] : Buried(item[1], item[2])
          /\ \A item \in forgotten[r] : Buried(item[1], item[2]) /\ Clean(item[1], item[2])
    /\ \A u \in Submits : pc[u] = "retired" =>
          Buried(session[u], readGen[u]) /\ (cleanup[u] = {} => Clean(session[u], readGen[u]))

MemoryInv == Slots /\ Aged /\ Tombstones /\ LeftoversAreForgotten

(* An entry stays what it is, or is one of the registry's generation.      *)
Evolves(s) ==
    s \in Owned' =>
        \/ /\ s \in Owned
           /\ entries'[s].generation = entries[s].generation
           /\ \A gen : Removable(s, gen) => entries'[s].retiring /\ entries'[s].live = None
        \/ entries'[s].generation = generation

Evolution == generation' \in Nat /\ generation' >= generation /\ \A s \in Sessions : Evolves(s)

(* Removing entries lets the others age.                                   *)
LEMMA RemovalEvolves ==
    ASSUME TypeOK, Aged, NEW gone \in SUBSET Sessions, RemoveEntries(gone),
           UNCHANGED generation
    PROVE  Evolution /\ Aged'
<1>1. Owned' = Owned \ gone /\ \A s \in Owned' : entries'[s] = entries[s]
  BY Removes
<1>2. generation \in Nat
  BY DEF TypeOK
<1>3. \A s \in Sessions : Evolves(s)
  BY <1>1 DEF Evolves, Removable
<1> QED
  BY <1>1, <1>2, <1>3 DEF Evolution, Aged

(* So does adding or refreshing one.                                       *)
LEMMA UpdateEvolves ==
    ASSUME TypeOK, Aged, NEW s \in Sessions, NEW gen \in Nat, NEW turn \in Submits \cup {None},
           HasRoom(s), UpdateEntry(s, gen, turn), UNCHANGED generation,
           \/ gen = generation
           \/ s \in Owned /\ gen = entries[s].generation /\ ~entries[s].retiring
    PROVE  Evolution /\ Aged'
<1>1. /\ Owned' = (Owned \ Evicted(s)) \cup {s}
      /\ entries'[s].generation = gen /\ ~entries'[s].retiring
      /\ \A t \in Owned' \ {s} : entries'[t] = entries[t]
  BY Updates
<1>2. generation \in Nat
  BY DEF TypeOK
<1>3. \A t \in Sessions : Evolves(t)
  BY <1>1 DEF Evolves, Removable
<1>4. gen <= generation
  BY <1>2 DEF Aged
<1> QED
  BY <1>1, <1>2, <1>3, <1>4 DEF Evolution, Aged

(* A retirement makes tombstones and a new generation.                     *)
LEMMA RetireEvolves ==
    ASSUME TypeOK, Aged, NEW r \in Retirers, NEW set \in SUBSET Sessions, RetireSessions(r, set)
    PROVE  /\ Evolution /\ Aged'
           /\ \A s \in set \cap Owned, gen \in Nat :
                 entries[s].live = None /\ entries[s].generation = gen => Buried(s, gen)'
<1> DEFINE marked(s) == [entries[s] EXCEPT !.retiring = TRUE]
<1>1. \A s \in Owned : entries[s] \in ManagedConversation /\ entries[s].generation \in Nat
  BY DEF TypeOK, Owned, ManagedConversation
<1>2. ASSUME NEW s \in Owned
      PROVE  /\ marked(s) # None
             /\ marked(s).live = entries[s].live
             /\ marked(s).generation = entries[s].generation
             /\ marked(s).retiring
  <2>1. marked(s) \in ManagedConversation
    BY <1>1 DEF ManagedConversation
  <2>2. /\ marked(s).live = entries[s].live
        /\ marked(s).generation = entries[s].generation
        /\ marked(s).retiring
    BY <1>1 DEF ManagedConversation
  <2> QED
    BY <2>1, <2>2, NoneAssumption
<1>3. entries' = [s \in Sessions |-> IF s \in set \cap Owned THEN marked(s) ELSE entries[s]]
  BY DEF RetireSessions
<1> HIDE DEF marked
<1>4. Owned' = Owned /\ Owned \subseteq Sessions
  BY <1>2, <1>3 DEF Owned
<1>5. \A s \in Owned : /\ entries'[s].live = entries[s].live
                       /\ entries'[s].generation = entries[s].generation
                       /\ entries'[s].retiring <=> s \in set \/ entries[s].retiring
  BY <1>2, <1>3, <1>4
<1>6. generation \in Nat /\ generation' = generation + 1
  BY DEF RetireSessions, TypeOK
<1>7. \A s \in Sessions : Evolves(s)
  BY <1>4, <1>5 DEF Evolves, Removable
<1>8. \A s \in Owned : entries'[s].generation < generation'
  BY <1>1, <1>5, <1>6 DEF Aged
<1>9. Aged'
  BY <1>1, <1>4, <1>5, <1>6, <1>8 DEF Aged
<1> QED
  BY <1>4, <1>5, <1>6, <1>7, <1>8, <1>9 DEF Evolution, Buried, Removable

(* A tombstone stays one or goes, and remembers nothing anew: nobody runs  *)
(* in it.                                                                  *)
LEMMA StaysBuried ==
    ASSUME TypeOK, Evolution, NEW s \in Sessions, NEW gen \in Nat, Buried(s, gen)
    PROVE  /\ Buried(s, gen)'
           /\ Removable(s, gen)' => Removable(s, gen)
           /\ /\ Clean(s, gen)
              /\ Cleared => Cleared'
              /\ ~Cleared /\ Removable(s, gen) /\ memory'[s] = "own" => memory[s] = "own"
              => Clean(s, gen)'
<1>1. generation \in Nat /\ generation' \in Nat /\ generation' >= generation /\ gen < generation
  BY DEF TypeOK, Evolution, Buried
<1>2. Evolves(s)
  BY DEF Evolution
<1>3. Buried(s, gen)'
  BY <1>1, <1>2 DEF Buried, Evolves, Removable
<1>4. Removable(s, gen)' => Removable(s, gen)
  BY <1>1, <1>2 DEF Buried, Evolves, Removable
<1> QED
  BY <1>3, <1>4 DEF Clean

(* What a step must show for the tombstones it makes, and for those it     *)
(* finds: it neither moves a call into them nor forgets to say so.         *)
Settles(s, gen, cleaned) ==
    \/ Buried(s, gen) /\ (cleaned => Clean(s, gen))
    \/ Buried(s, gen)' /\ (cleaned => Clean(s, gen)')

\* Nothing is remembered in a tombstone.
Quiet ==
    /\ Cleared => Cleared'
    /\ \A s \in Sessions, gen \in Nat :
          ~Cleared /\ Removable(s, gen) /\ memory'[s] = "own" => memory[s] = "own"

\* Steps that settle and are quiet keep the tombstones in order.
LEMMA SettledTombstones ==
    ASSUME RegistryInv, RegistryInv', Evolution, Quiet,
           \A r \in Retirers : \A item \in idle'[r] : Settles(item[1], item[2], FALSE),
           \A r \in Retirers : \A item \in forgotten'[r] : Settles(item[1], item[2], TRUE),
           \A u \in Submits, s \in Sessions, gen \in Nat :
               pc'[u] = "retired" /\ session'[u] = s /\ readGen'[u] = gen
                   => Settles(s, gen, cleanup'[u] = {})
    PROVE  Tombstones'
<1>1. ASSUME NEW s \in Sessions, NEW gen \in Nat, NEW cleaned \in BOOLEAN, Settles(s, gen, cleaned)
      PROVE  Buried(s, gen)' /\ (cleaned => Clean(s, gen)')
  <2>1. CASE Buried(s, gen) /\ (cleaned => Clean(s, gen))
    BY <2>1, StaysBuried DEF RegistryInv, Quiet
  <2>2. CASE Buried(s, gen)' /\ (cleaned => Clean(s, gen)')
    BY <2>2
  <2> QED
    BY <1>1, <2>1, <2>2 DEF Settles
<1>2. ASSUME NEW r \in Retirers, NEW item \in idle'[r] PROVE Buried(item[1], item[2])'
  <2>1. item[1] \in Sessions /\ item[2] \in Nat
    BY DEF RegistryInv, TypeOK
  <2> QED
    BY <1>1, <2>1
<1>3. ASSUME NEW r \in Retirers, NEW item \in forgotten'[r]
      PROVE  Buried(item[1], item[2])' /\ Clean(item[1], item[2])'
  <2>1. item[1] \in Sessions /\ item[2] \in Nat
    BY DEF RegistryInv, TypeOK
  <2> QED
    BY <1>1, <2>1
<1>4. ASSUME NEW u \in Submits, pc'[u] = "retired"
      PROVE  /\ Buried(session[u], readGen[u])'
             /\ (cleanup[u] = {} => Clean(session[u], readGen[u]))'
  <2>1. PICK s \in Sessions, gen \in Nat : session'[u] = s /\ readGen'[u] = gen
    BY <1>4 DEF RegistryInv, TypeOK, CallFacts
  <2>2. Settles(s, gen, cleanup'[u] = {})
    BY <1>4, <2>1
  <2>3. Buried(s, gen)' /\ (cleanup'[u] = {} => Clean(s, gen)')
    BY <1>1, <2>2
  <2> QED
    BY <2>1, <2>3 DEF Buried, Clean, Removable
<1> QED
  BY <1>2, <1>3, <1>4 DEF Tombstones

\* No call enters its retirement, or it finds what it left there.
Standing ==
    \A u \in Submits : pc'[u] = "retired" =>
        /\ pc[u] = "retired" /\ session'[u] = session[u] /\ readGen'[u] = readGen[u]
        /\ cleanup'[u] = {} => cleanup[u] = {}

(* A step that makes no tombstone and forgets only what it says keeps      *)
(* those there are.                                                        *)
LEMMA SameTombstones ==
    ASSUME RegistryInv, RegistryInv', MemoryInv, Evolution, Quiet, Standing,
           UNCHANGED <<idle, forgotten>>
    PROVE  Tombstones'
<1>1. Tombstones
  BY DEF MemoryInv
<1>2. \A r \in Retirers : \A item \in idle'[r] : Settles(item[1], item[2], FALSE)
  BY <1>1 DEF Tombstones, Settles
<1>3. \A r \in Retirers : \A item \in forgotten'[r] : Settles(item[1], item[2], TRUE)
  BY <1>1 DEF Tombstones, Settles
<1>4. \A u \in Submits, s \in Sessions, gen \in Nat :
          pc'[u] = "retired" /\ session'[u] = s /\ readGen'[u] = gen
              => Settles(s, gen, cleanup'[u] = {})
  BY <1>1 DEF Tombstones, Settles, Standing
<1> QED
  BY <1>2, <1>3, <1>4, SettledTombstones

(* Steps that touch neither entries, memory nor cleanup.                   *)
LEMMA StillKeeps ==
    ASSUME RegistryInv, RegistryInv', MemoryInv, Slots', Standing, Cleared => Cleared',
           UNCHANGED <<entries, generation, memory, cleanup, idle, forgotten>>
    PROVE  MemoryInv'
<1>1. Owned' = Owned
  BY DEF Owned
<1>2. Evolution
  BY <1>1 DEF RegistryInv, TypeOK, Evolution, Evolves, Removable
<1>3. Tombstones'
  BY <1>2, SameTombstones DEF Quiet
<1>4. Aged' /\ LeftoversAreForgotten'
  BY <1>1 DEF MemoryInv, Aged, LeftoversAreForgotten
<1> QED
  BY <1>3, <1>4 DEF MemoryInv

(* Steps that remove conversations and remember to clean up after them.    *)
LEMMA RemovalForgets ==
    ASSUME RegistryInv, RegistryInv', MemoryInv, Slots', Standing, Cleared => Cleared',
           Evolution, Aged', NEW gone \in SUBSET Sessions, NEW p \in Procs, cleanup[p] = {},
           cleanup' = [cleanup EXCEPT ![p] = gone], memory' = ForgetOwnership(gone),
           UNCHANGED <<idle, forgotten>>
    PROVE  MemoryInv'
<1>1. TypeOK
  BY DEF RegistryInv
<1>2. \A s \in Sessions : memory'[s] = IF s \in gone /\ memory[s] = "own" THEN "stale" ELSE memory[s]
  BY DEF ForgetOwnership
<1>3. Quiet
  BY <1>2 DEF Quiet
<1>4. Tombstones'
  BY <1>3, SameTombstones
<1>5. cleanup'[p] = gone /\ \A q \in Procs \ {p} : cleanup'[q] = cleanup[q]
  BY <1>1 DEF TypeOK
<1>6. LeftoversAreForgotten'
  <2> SUFFICES ASSUME ~Cleared', NEW s \in Sessions, memory'[s] = "stale"
               PROVE  \E q \in Procs : s \in cleanup'[q]
    BY DEF LeftoversAreForgotten
  <2>1. CASE memory[s] = "stale"
    <3>1. PICK q \in Procs : s \in cleanup[q]
      BY <2>1 DEF MemoryInv, LeftoversAreForgotten
    <3> QED
      BY <1>5, <3>1
  <2>2. CASE memory[s] # "stale"
    BY <1>2, <1>5, <2>2
  <2> QED
    BY <2>1, <2>2
<1> QED
  BY <1>4, <1>6 DEF MemoryInv

(* finish_retirement() removes a tombstone that remembers nothing.         *)
LEMMA FinishForgets ==
    ASSUME RegistryInv, RegistryInv', MemoryInv, Slots', Standing, Cleared => Cleared',
           NEW s \in Sessions, NEW gen \in Nat, Clean(s, gen), FinishRetirement(s, gen),
           UNCHANGED <<generation, cleanup, idle>>,
           \A r \in Retirers : forgotten'[r] \subseteq forgotten[r]
    PROVE  MemoryInv'
<1>1. TypeOK /\ Tombstones
  BY DEF RegistryInv, MemoryInv
<1> DEFINE gone == IF Removable(s, gen) THEN {s} ELSE {}
<1>2. RemoveEntries(gone) /\ gone \in SUBSET Sessions
  BY DEF FinishRetirement
<1>3. \A t \in Sessions : memory'[t] = IF t \in gone /\ memory[t] = "own" THEN "stale" ELSE memory[t]
  BY <1>2 DEF RemoveEntries, ForgetOwnership
<1>4. Evolution /\ Aged'
  BY <1>1, <1>2, RemovalEvolves DEF MemoryInv
<1>5. Quiet
  BY <1>3 DEF Quiet
<1>6. Tombstones'
  <2>1. \A r \in Retirers : \A item \in idle'[r] : Settles(item[1], item[2], FALSE)
    BY <1>1 DEF Tombstones, Settles
  <2>2. \A r \in Retirers : \A item \in forgotten'[r] : Settles(item[1], item[2], TRUE)
    BY <1>1 DEF Tombstones, Settles
  <2>3. \A u \in Submits, t \in Sessions, g \in Nat :
            pc'[u] = "retired" /\ session'[u] = t /\ readGen'[u] = g
                => Settles(t, g, cleanup'[u] = {})
    BY <1>1 DEF Tombstones, Settles, Standing
  <2> QED
    BY <1>4, <1>5, <2>1, <2>2, <2>3, SettledTombstones
<1>7. ~Cleared => memory' = memory
  BY <1>1, <1>2, <1>3, Removes DEF Clean, TypeOK, ForgetOwnership, RemoveEntries
<1>8. LeftoversAreForgotten'
  BY <1>7 DEF MemoryInv, LeftoversAreForgotten
<1> QED
  BY <1>4, <1>6, <1>8 DEF MemoryInv

(* forget_session() forgets one of the sessions somebody removed.          *)
LEMMA CleanupForgets ==
    ASSUME RegistryInv, RegistryInv', MemoryInv, NEW p \in Procs, NEW s \in Sessions, Cleanup(p, s)
    PROVE  MemoryInv'
<1> USE DEF registry, turns, retirement
<1>0. TypeOK /\ Slots /\ Aged /\ Tombstones /\ LeftoversAreForgotten
  BY DEF MemoryInv, RegistryInv
<1>1. /\ UNCHANGED <<entries, generation, pc, session, readGen, rpc, idle, forgotten, down>>
      /\ s \in cleanup[p]
      /\ cleanup'[p] = cleanup[p] \ {s} /\ \A q \in Procs \ {p} : cleanup'[q] = cleanup[q]
      /\ memory'[s] = "none" /\ \A t \in Sessions \ {s} : memory'[t] = memory[t]
  BY <1>0 DEF Cleanup, TypeOK
<1>2. Owned' = Owned /\ (Cleared' <=> Cleared)
  BY <1>1 DEF Owned, Cleared
<1>3. Evolution
  BY <1>0, <1>1, <1>2 DEF TypeOK, Evolution, Evolves, Removable
<1>4. Quiet
  BY <1>1, <1>2 DEF Quiet
<1>5. Submits \subseteq Procs /\ Retirers \subseteq Procs
  BY DEF Procs
<1>6. Slots' /\ Aged'
  BY <1>0, <1>1, <1>2, <1>5 DEF Slots, Aged
<1>7. LeftoversAreForgotten'
  <2> SUFFICES ASSUME ~Cleared', NEW t \in Sessions, memory'[t] = "stale"
               PROVE  \E q \in Procs : t \in cleanup'[q]
    BY DEF LeftoversAreForgotten
  <2>1. t # s /\ memory[t] = "stale"
    BY <1>1
  <2>2. PICK q \in Procs : t \in cleanup[q]
    BY <1>0, <1>2, <2>1 DEF LeftoversAreForgotten
  <2> QED
    BY <1>1, <2>1, <2>2
<1>8. ASSUME NEW u \in Submits, NEW t \in Sessions, NEW gen \in Nat,
             pc'[u] = "retired", session'[u] = t, readGen'[u] = gen
      PROVE  Settles(t, gen, cleanup'[u] = {})
  <2>1. pc[u] = "retired" /\ session[u] = t /\ readGen[u] = gen /\ u \in Procs
    BY <1>1, <1>5, <1>8
  <2>2. Buried(t, gen)
    BY <1>0, <2>1 DEF Tombstones
  <2>3. CASE u # p
    BY <1>0, <1>1, <2>1, <2>3 DEF Tombstones, Settles
  <2>4. CASE u = p
    <3>1. t = s
      BY <1>0, <1>1, <2>1, <2>4 DEF Slots
    <3>2. Buried(t, gen)'
      BY <1>0, <1>3, <2>2, StaysBuried
    <3>3. Clean(t, gen)'
      BY <1>1, <3>1 DEF Clean
    <3> QED
      BY <3>2, <3>3 DEF Settles
  <2> QED
    BY <2>3, <2>4
<1>9. /\ \A r \in Retirers : \A item \in idle'[r] : Settles(item[1], item[2], FALSE)
      /\ \A r \in Retirers : \A item \in forgotten'[r] : Settles(item[1], item[2], TRUE)
  BY <1>0, <1>1 DEF Tombstones, Settles
<1>10. Tombstones'
  BY <1>3, <1>4, <1>8, <1>9, SettledTombstones
<1> QED
  BY <1>6, <1>7, <1>10 DEF MemoryInv

(* release() leaves a tombstone for the turn's own guard to clean up.      *)
LEMMA ReleaseForgets ==
    ASSUME RegistryInv, RegistryInv', MemoryInv, NEW u \in Submits, Release(u)
    PROVE  MemoryInv'
<1> USE ProcsAssumption DEF registry, turns, retirement, Goto
<1> DEFINE s == session[u]
           mine == s \in Owned /\ entries[s].generation = readGen[u] /\ entries[s].live = u
           retiring == mine /\ entries[s].retiring
<1>0. TypeOK /\ Slots /\ Aged /\ Tombstones /\ LeftoversAreForgotten /\ CallFacts
  BY DEF MemoryInv, RegistryInv
<1>1. /\ s \in Sessions /\ readGen[u] \in Nat /\ u # None /\ u \in Procs /\ u \notin Retirers
      /\ pc[u] = "release" /\ cleanup[u] = {} /\ generation \in Nat
  BY <1>0, NoneAssumption DEF Release, CallFacts, TypeOK, Procs, Slots
<1>2. UNCHANGED <<session, readGen, generation, memory, idle, forgotten, rpc, down>>
  BY DEF Release
<1>3. /\ \A v \in Submits \ {u} : pc'[v] = pc[v] /\ cleanup'[v] = cleanup[v]
      /\ \A q \in Procs \ {u} : cleanup'[q] = cleanup[q]
      /\ cleanup'[u] = IF retiring THEN {s} ELSE {}
      /\ pc'[u] = IF retiring THEN "retired" ELSE "permit"
  BY <1>0, <1>1 DEF Release, TypeOK, Procs
<1>4. /\ Owned' = Owned
      /\ \A t \in Owned : entries'[t].generation = entries[t].generation
      /\ \A t \in Owned : entries'[t].retiring = entries[t].retiring
      /\ \A t \in Owned : entries[t].live = None => entries'[t].live = None
      /\ mine => entries'[s].live = None
  <2>1. CASE mine
    <3> DEFINE freed == [entries[s] EXCEPT !.live = None, !.lastAccess = now]
    <3>1. entries[s] \in ManagedConversation /\ now \in 0..MaxTime
      BY <1>0, <1>1, <2>1 DEF TypeOK, Owned
    <3>2. freed \in ManagedConversation
      BY <3>1 DEF ManagedConversation
    <3>3. /\ freed.live = None /\ freed # None
          /\ freed.generation = entries[s].generation /\ freed.retiring = entries[s].retiring
      BY <3>1, <3>2, NoneAssumption DEF ManagedConversation
    <3>4. entries' = [entries EXCEPT ![s] = freed]
      BY <1>0, <1>1, <2>1 DEF Release, TypeOK
    <3> HIDE DEF freed
    <3>5. entries'[s] = freed /\ \A t \in Sessions \ {s} : entries'[t] = entries[t]
      BY <1>0, <1>1, <3>4 DEF TypeOK
    <3> QED
      BY <2>1, <3>3, <3>5 DEF Owned
  <2>2. CASE ~mine
    <3>1. entries' = entries
      BY <2>2 DEF Release
    <3> QED
      BY <2>2, <3>1 DEF Owned
  <2> QED
    BY <2>1, <2>2
<1> HIDE DEF s, mine, retiring
<1>5. Evolution
  BY <1>1, <1>2, <1>4 DEF Evolution, Evolves, Removable
<1>6. Quiet /\ (Cleared' <=> Cleared)
  BY <1>2 DEF Quiet, Cleared
<1>7. Aged'
  BY <1>0, <1>2, <1>4 DEF Aged
<1>8. Slots'
  BY <1>0, <1>1, <1>2, <1>3 DEF Slots, s, Procs
<1>9. LeftoversAreForgotten'
  <2>1. \A q \in Procs : cleanup[q] \subseteq cleanup'[q]
    BY <1>1, <1>3
  <2> QED
    BY <1>0, <1>2, <1>6, <2>1 DEF LeftoversAreForgotten
<1>10. ASSUME NEW v \in Submits, NEW t \in Sessions, NEW gen \in Nat,
              pc'[v] = "retired", session'[v] = t, readGen'[v] = gen
       PROVE  Settles(t, gen, cleanup'[v] = {})
  <2>1. CASE v # u
    BY <1>0, <1>2, <1>3, <1>10, <2>1 DEF Tombstones, Settles
  <2>2. CASE v = u
    <3>1. retiring /\ t = s /\ gen = readGen[u] /\ cleanup'[v] # {}
      BY <1>2, <1>3, <1>10, <2>2 DEF s
    <3>2. /\ t \in Owned /\ entries[t].generation = gen /\ entries[t].retiring
          /\ entries'[t].live = None
      BY <1>4, <3>1 DEF retiring, mine
    <3>3. gen < generation
      BY <1>0, <3>2 DEF Aged
    <3>4. Buried(t, gen)'
      BY <1>2, <1>4, <3>2, <3>3 DEF Buried, Removable
    <3> QED
      BY <3>1, <3>4 DEF Settles
  <2> QED
    BY <2>1, <2>2
<1>11. /\ \A r \in Retirers : \A item \in idle'[r] : Settles(item[1], item[2], FALSE)
       /\ \A r \in Retirers : \A item \in forgotten'[r] : Settles(item[1], item[2], TRUE)
  BY <1>0, <1>2 DEF Tombstones, Settles
<1>12. Tombstones'
  BY <1>5, <1>6, <1>10, <1>11, SettledTombstones
<1> QED
  BY <1>7, <1>8, <1>9, <1>12 DEF MemoryInv

\* The steps of a call and its turn.
LEMMA CallForgets ==
    ASSUME RegistryInv, RegistryInv', MemoryInv, NEW u \in Submits,
           CallStep(u) \/ SubmitSweeps(u) \/ (Claim(u) /\ Claimable(u)) \/ Release(u)
             \/ ReleaseRetired(u) \/ \E s \in Sessions : Cleanup(u, s)
    PROVE  MemoryInv'
<1> USE ProcsAssumption DEF registry, turns, retirement, Goto
<1>0. TypeOK /\ Slots /\ Aged /\ Tombstones /\ LeftoversAreForgotten /\ CallFacts
  BY DEF MemoryInv, RegistryInv
<1>0a. u \in Procs /\ u \notin Retirers
  BY DEF Procs
<1>1. CASE CallStep(u) /\ ~Remember(u)
  <2>1. UNCHANGED <<registry, cleanup, retirement, down, memory>>
    BY <1>1, CallShape DEF CallStep, SubmitAdmitted, SubmitReadsGeneration, SubmitLoads,
       SubmitRechecks, Claim, Spawn, InstallAbort, TurnEnds, TurnAborted, ReleasePermit,
       SignalFinished, TaskEnds
  <2>2. CASE InstallAbort(u)
    <3>1. Slots' /\ Standing
      BY <1>0, <2>1, <2>2 DEF InstallAbort, Slots, Standing
    <3> QED
      BY <2>1, <3>1, StillKeeps DEF Cleared
  <2>3. CASE ~InstallAbort(u)
    <3>1. /\ \A v \in Submits \ {u} :
                pc'[v] = pc[v] /\ session'[v] = session[v] /\ readGen'[v] = readGen[v]
          /\ pc'[u] \notin {"generation", "spawn", "retired"} => cleanup[u] = {}
          /\ pc'[u] # "retired"
      BY <1>0, <1>1, <2>3 DEF CallStep, SubmitAdmitted, SubmitReadsGeneration, SubmitLoads,
         SubmitRechecks, Claim, Spawn, TurnEnds, TurnAborted, ReleasePermit,
         SignalFinished, TaskEnds, Refuse, DropCall, TypeOK, Slots
    <3>2. Slots' /\ Standing
      BY <1>0, <2>1, <3>1 DEF Slots, Standing
    <3> QED
      BY <2>1, <3>2, StillKeeps DEF Cleared
  <2> QED
    BY <2>2, <2>3
<1>2. CASE Remember(u)
  <2>1. UNCHANGED <<registry, cleanup, retirement, down, pc, session, readGen>>
    BY <1>2 DEF Remember
  <2>2. Owned' = Owned /\ (Cleared' <=> Cleared) /\ u # None
    BY <2>1, NoneAssumption DEF Owned, Cleared
  <2>3. memory' = [memory EXCEPT ![session[u]] = "own"] /\ pc[u] = "running"
    BY <1>2 DEF Remember
  <2>4. ~Cleared => entries[session[u]].live = u
    BY <2>3 DEF RegistryInv, HoldingIsRegistered, Holding
  <2>5. Evolution
    BY <1>0, <2>1, <2>2 DEF TypeOK, Evolution, Evolves, Removable
  <2>6. Quiet
    BY <1>0, <2>2, <2>3, <2>4 DEF Quiet, Removable, TypeOK
  <2>7. Slots' /\ Standing /\ Aged'
    BY <1>0, <2>1, <2>2 DEF Slots, Standing, Aged
  <2>8. Tombstones'
    BY <2>1, <2>5, <2>6, <2>7, SameTombstones
  <2>9. LeftoversAreForgotten'
    BY <1>0, <2>1, <2>2, <2>3 DEF LeftoversAreForgotten, TypeOK
  <2> QED
    BY <2>7, <2>8, <2>9 DEF MemoryInv
<1>3. CASE SubmitSweeps(u)
  <2>1. RemoveEntries(Expired) /\ Expired \in SUBSET Sessions /\ pc[u] = "sweep" /\ cleanup[u] = {}
    BY <1>0, <1>3, RemovedIsIdle DEF SubmitSweeps, Slots
  <2>2. Evolution /\ Aged'
    BY <1>0, <1>3, <2>1, RemovalEvolves DEF SubmitSweeps
  <2>3. Slots' /\ Standing
    BY <1>0, <1>0a, <1>3 DEF SubmitSweeps, Slots, Standing, TypeOK
  <2> QED
    BY <1>0a, <1>3, <2>1, <2>2, <2>3, RemovalForgets DEF SubmitSweeps, RemoveEntries, Cleared
<1>4. CASE Claim(u) /\ Claimable(u)
  <2>1. session[u] \in Sessions /\ readGen[u] \in Nat /\ pc[u] = "claim" /\ readGen[u] = generation
    BY <1>0, <1>4 DEF Claim, Claimable, CallFacts, TypeOK
  <2>2. HasRoom(session[u]) /\ UpdateEntry(session[u], readGen[u], u) /\ UNCHANGED generation
    BY <1>4 DEF Claim, Claimable
  <2>3. Evolution /\ Aged'
    BY <1>0, <2>1, <2>2, UpdateEvolves
  <2>4. Evicted(session[u]) \in SUBSET Sessions /\ cleanup[u] = {}
    BY <1>0, <2>1, <2>2, EvictedIsIdle DEF Slots, Owned
  <2>5. /\ \A v \in Submits \ {u} : pc'[v] = pc[v] /\ cleanup'[v] = cleanup[v]
        /\ \A r \in Retirers : cleanup'[r] = cleanup[r]
        /\ pc'[u] = "spawn" /\ UNCHANGED <<session, readGen, rpc>>
    BY <1>0, <1>0a, <1>4 DEF Claim, TypeOK, Procs
  <2>6. Slots' /\ Standing
    BY <1>0, <2>5 DEF Slots, Standing
  <2> QED
    BY <1>0a, <1>4, <2>2, <2>3, <2>4, <2>6, RemovalForgets DEF Claim, UpdateEntry, Cleared
<1>6. CASE ReleaseRetired(u)
  <2>1. session[u] \in Sessions /\ readGen[u] \in Nat /\ pc[u] = "retired" /\ cleanup[u] = {}
    BY <1>0, <1>6 DEF ReleaseRetired, CallFacts, TypeOK
  <2>2. Clean(session[u], readGen[u])
    BY <1>0, <2>1 DEF Tombstones
  <2>3. Slots' /\ Standing
    BY <1>0, <1>0a, <1>6, <2>1 DEF ReleaseRetired, Slots, Standing, TypeOK
  <2> QED
    BY <1>6, <2>1, <2>2, <2>3, FinishForgets DEF ReleaseRetired, Cleared
<1>7. CASE Release(u) \/ \E s \in Sessions : Cleanup(u, s)
  BY <1>0a, <1>7, ReleaseForgets, CleanupForgets
<1> QED
  BY <1>1, <1>2, <1>3, <1>4, <1>6, <1>7

(* retire() and reload() make the tombstones their caller will clean up.   *)
LEMMA RetireBuries ==
    ASSUME RegistryInv, RegistryInv', MemoryInv, NEW r \in Retirers, NEW set \in SUBSET Sessions,
           RetireSessions(r, set), UNCHANGED cleanup
    PROVE  MemoryInv'
<1> USE DEF turns, RetireGoto
<1>0. TypeOK /\ Slots /\ Aged /\ Tombstones /\ LeftoversAreForgotten
  BY DEF MemoryInv, RegistryInv
<1>1. /\ UNCHANGED <<memory, pc, session, readGen, forgotten, down>>
      /\ rpc'[r] = "clean" /\ \A q \in Retirers \ {r} : rpc'[q] = rpc[q] /\ idle'[q] = idle[q]
      /\ idle'[r] = {<<t, entries[t].generation>> :
                        t \in {x \in set \cap Owned : entries[x].live = None}}
  BY <1>0 DEF RetireSessions, TypeOK
<1>2. /\ Evolution /\ Aged'
      /\ \A t \in set \cap Owned, gen \in Nat :
            entries[t].live = None /\ entries[t].generation = gen => Buried(t, gen)'
  BY <1>0, RetireEvolves
<1>3. Quiet /\ (Cleared' <=> Cleared)
  BY <1>1 DEF Quiet, Cleared
<1>4. Slots' /\ LeftoversAreForgotten'
  BY <1>0, <1>1, <1>3 DEF Slots, LeftoversAreForgotten
<1>5. ASSUME NEW q \in Retirers, NEW item \in idle'[q] PROVE Settles(item[1], item[2], FALSE)
  <2>1. CASE q # r
    BY <1>0, <1>1, <2>1 DEF Tombstones, Settles
  <2>2. CASE q = r
    <3>1. PICK t \in set \cap Owned : entries[t].live = None /\ item = <<t, entries[t].generation>>
      BY <1>1, <2>2
    <3>2. item[1] = t /\ item[2] \in Nat /\ item[2] = entries[t].generation
      BY <1>0, <3>1 DEF TypeOK, Owned, ManagedConversation
    <3>3. Buried(item[1], item[2])'
      BY <1>2, <3>1, <3>2
    <3> QED
      BY <3>3 DEF Settles
  <2> QED
    BY <2>1, <2>2
<1>6. \A q \in Retirers : \A item \in forgotten'[q] : Settles(item[1], item[2], TRUE)
  BY <1>0, <1>1 DEF Tombstones, Settles
<1>7. \A u \in Submits, t \in Sessions, gen \in Nat :
          pc'[u] = "retired" /\ session'[u] = t /\ readGen'[u] = gen
              => Settles(t, gen, cleanup'[u] = {})
  BY <1>0, <1>1 DEF Tombstones, Settles
<1>8. Tombstones'
  BY <1>2, <1>3, <1>5, <1>6, <1>7, SettledTombstones
<1> QED
  BY <1>2, <1>4, <1>8 DEF MemoryInv

\* The steps of a retirement.
LEMMA RetirementForgets ==
    ASSUME RegistryInv, RegistryInv', MemoryInv, NEW r \in Retirers,
           \/ DestroySweeps(r) \/ Reload(r) \/ RetireProgress(r) \/ RetireDropped(r)
           \/ \E s \in Sessions : Destroy(r, s) \/ Cleanup(r, s)
    PROVE  MemoryInv'
<1> USE ProcsAssumption DEF registry, turns, retirement, RetireGoto
<1>0. TypeOK /\ Slots /\ Aged /\ Tombstones /\ LeftoversAreForgotten
  BY DEF MemoryInv, RegistryInv
<1>0a. r \in Procs /\ r \notin Submits
  BY DEF Procs
<1>1. CASE DestroySweeps(r)
  <2>1. RemoveEntries(Expired) /\ Expired \in SUBSET Sessions /\ cleanup[r] = {}
    BY <1>0, <1>1, RemovedIsIdle DEF DestroySweeps, Slots
  <2>2. Evolution /\ Aged'
    BY <1>0, <1>1, <2>1, RemovalEvolves DEF DestroySweeps
  <2>3. /\ \A v \in Submits : cleanup'[v] = cleanup[v]
        /\ \A q \in Retirers \ {r} : cleanup'[q] = cleanup[q] /\ rpc'[q] = rpc[q]
        /\ rpc'[r] = "destroy" /\ UNCHANGED <<pc, session, readGen>>
    BY <1>0, <1>0a, <1>1 DEF DestroySweeps, TypeOK, Procs
  <2>4. Slots' /\ Standing
    BY <1>0, <2>3 DEF Slots, Standing
  <2> QED
    BY <1>0a, <1>1, <2>1, <2>2, <2>4, RemovalForgets DEF DestroySweeps, RemoveEntries, Cleared
<1>2. CASE Reload(r)
  BY <1>2, RetireBuries DEF Reload
<1>3. ASSUME NEW s \in Sessions, Destroy(r, s) PROVE MemoryInv'
  <2>1. {s} \in SUBSET Sessions
    OBVIOUS
  <2> QED
    BY <1>3, <2>1, RetireBuries DEF Destroy
<1>4. ASSUME NEW s \in Sessions, Cleanup(r, s) PROVE MemoryInv'
  BY <1>0a, <1>4, CleanupForgets
<1>5. CASE RetireForgets(r)
  <2>1. PICK item \in idle[r] :
          /\ memory' = [memory EXCEPT ![item[1]] = "none"]
          /\ idle' = [idle EXCEPT ![r] = @ \ {item}]
          /\ forgotten' = [forgotten EXCEPT ![r] = {item}]
    BY <1>5 DEF RetireForgets
  <2>2. item[1] \in Sessions /\ item[2] \in Nat
    BY <1>0 DEF TypeOK
  <2>3. UNCHANGED <<entries, generation, pc, session, readGen, cleanup, rpc, down>>
    BY <1>5 DEF RetireForgets
  <2>4. Owned' = Owned /\ (Cleared' <=> Cleared)
    BY <2>3 DEF Owned, Cleared
  <2>5. Evolution
    BY <1>0, <2>3, <2>4 DEF TypeOK, Evolution, Evolves, Removable
  <2>6. \A t \in Sessions : memory'[t] = IF t = item[1] THEN "none" ELSE memory[t]
    BY <1>0, <2>1, <2>2 DEF TypeOK
  <2>7. Quiet
    BY <2>4, <2>6 DEF Quiet
  <2>8. Slots' /\ Aged' /\ LeftoversAreForgotten'
    BY <1>0, <2>3, <2>4, <2>6 DEF Slots, Aged, LeftoversAreForgotten
  <2>9. \A q \in Retirers : \A i \in idle'[q] : Settles(i[1], i[2], FALSE)
    BY <1>0, <2>1 DEF TypeOK, Tombstones, Settles
  <2>10. Settles(item[1], item[2], TRUE)
    <3>1. Buried(item[1], item[2])
      BY <1>0 DEF Tombstones
    <3>2. Buried(item[1], item[2])'
      BY <1>0, <2>2, <2>5, <3>1, StaysBuried
    <3>3. Clean(item[1], item[2])'
      BY <2>2, <2>6 DEF Clean
    <3> QED
      BY <3>2, <3>3 DEF Settles
  <2>11. \A q \in Retirers : \A i \in forgotten'[q] : Settles(i[1], i[2], TRUE)
    <3> SUFFICES ASSUME NEW q \in Retirers, NEW i \in forgotten'[q]
                 PROVE  Settles(i[1], i[2], TRUE)
      OBVIOUS
    <3>1. CASE q = r
      BY <1>0, <2>1, <2>10, <3>1 DEF TypeOK
    <3>2. CASE q # r
      <4>1. i \in forgotten[q]
        BY <1>0, <2>1, <3>2 DEF TypeOK
      <4> QED
        BY <1>0, <4>1 DEF Tombstones, Settles
    <3> QED
      BY <3>1, <3>2
  <2>12. \A u \in Submits, t \in Sessions, gen \in Nat :
             pc'[u] = "retired" /\ session'[u] = t /\ readGen'[u] = gen
                 => Settles(t, gen, cleanup'[u] = {})
    BY <1>0, <2>3 DEF Tombstones, Settles
  <2>13. Tombstones'
    BY <2>5, <2>7, <2>9, <2>11, <2>12, SettledTombstones
  <2> QED
    BY <2>8, <2>13 DEF MemoryInv
<1>6. CASE RetireFinishes(r)
  <2>1. PICK item \in forgotten[r] : FinishRetirement(item[1], item[2])
    BY <1>6 DEF RetireFinishes
  <2>2. item[1] \in Sessions /\ item[2] \in Nat /\ Clean(item[1], item[2])
    BY <1>0 DEF TypeOK, Tombstones
  <2>3. /\ UNCHANGED <<generation, pc, session, readGen, cleanup, rpc, idle, down>>
        /\ \A q \in Retirers : forgotten'[q] \subseteq forgotten[q]
    BY <1>0, <1>6 DEF RetireFinishes, TypeOK
  <2>4. Slots' /\ Standing /\ (Cleared => Cleared')
    BY <1>0, <2>3 DEF Slots, Standing, Cleared
  <2> QED
    BY <2>1, <2>2, <2>3, <2>4, FinishForgets
<1>7. CASE \/ RetireCancels(r) \/ RetireJoins(r) \/ RetireTimesOut(r) \/ RetireAborts(r)
           \/ RetireDropped(r)
  <2>1. UNCHANGED <<entries, generation, memory, pc, session, readGen, cleanup, idle, forgotten, down>>
    BY <1>7 DEF RetireCancels, RetireJoins, RetireTimesOut, RetireAborts, RetireDropped
  <2>2. \A q \in Retirers : rpc'[q] = "idle" => rpc[q] = "idle"
    BY <1>0, <1>7 DEF RetireCancels, RetireJoins, RetireTimesOut, RetireAborts, RetireDropped, TypeOK
  <2>3. Slots' /\ Standing /\ (Cleared => Cleared')
    BY <1>0, <2>1, <2>2 DEF Slots, Standing, Cleared
  <2> QED
    BY <2>1, <2>3, StillKeeps
<1> QED
  BY <1>1, <1>2, <1>3, <1>4, <1>5, <1>6, <1>7 DEF RetireProgress

\* The steps of the host thread, of shutdown() and of the clock.
LEMMA HostForgets ==
    ASSUME RegistryInv, RegistryInv', MemoryInv,
           \/ Sweep \/ \E s \in Sessions : SelectModel(s) \/ Cleanup(Sweeper, s) \/ Cleanup(Shutdown, s)
           \/ ShutdownCancels \/ ShutdownJoins \/ ShutdownClears \/ ShutdownResolves \/ Tick
           \/ UNCHANGED vars
    PROVE  MemoryInv'
<1> USE ProcsAssumption DEF registry, turns, retirement, ShutdownGoto
<1>0. TypeOK /\ Slots /\ Aged /\ Tombstones /\ LeftoversAreForgotten
  BY DEF MemoryInv, RegistryInv
<1>0a. {Sweeper, Shutdown} \subseteq Procs
  BY DEF Procs
<1>1. CASE Sweep
  <2>1. RemoveEntries(Expired) /\ Expired \in SUBSET Sessions /\ cleanup[Sweeper] = {}
    BY <1>1, RemovedIsIdle DEF Sweep
  <2>2. Evolution /\ Aged'
    BY <1>0, <1>1, <2>1, RemovalEvolves DEF Sweep
  <2>3. /\ \A q \in Submits \cup Retirers : cleanup'[q] = cleanup[q]
        /\ UNCHANGED <<pc, session, readGen, rpc>>
    BY <1>0, <1>1 DEF Sweep, TypeOK, Procs
  <2>4. Slots' /\ Standing
    BY <1>0, <2>3 DEF Slots, Standing
  <2> QED
    BY <1>0a, <1>1, <2>1, <2>2, <2>4, RemovalForgets DEF Sweep, RemoveEntries, Cleared
<1>2. ASSUME NEW s \in Sessions, SelectModel(s) PROVE MemoryInv'
  <2> DEFINE gen == IF s \in Owned THEN entries[s].generation ELSE generation
             turn == IF s \in Owned THEN entries[s].live ELSE None
  <2>1. gen \in Nat /\ turn \in Submits \cup {None}
    BY <1>0 DEF TypeOK, Owned, ManagedConversation
  <2>2. /\ HasRoom(s) /\ UpdateEntry(s, gen, turn) /\ UNCHANGED generation
        /\ gen = generation \/ (s \in Owned /\ gen = entries[s].generation /\ ~entries[s].retiring)
    BY <1>2 DEF SelectModel
  <2> HIDE DEF gen, turn
  <2>3. Evolution /\ Aged'
    BY <1>0, <2>1, <2>2, UpdateEvolves
  <2>4. Evicted(s) \in SUBSET Sessions /\ cleanup[Sweeper] = {}
    BY <1>0, <1>2, <2>2, EvictedIsIdle DEF SelectModel, Owned
  <2>5. /\ \A q \in Submits \cup Retirers : cleanup'[q] = cleanup[q]
        /\ UNCHANGED <<pc, session, readGen, rpc>>
    BY <1>0, <1>2 DEF SelectModel, TypeOK, Procs
  <2>6. Slots' /\ Standing
    BY <1>0, <2>5 DEF Slots, Standing
  <2> QED
    BY <1>0a, <1>2, <2>2, <2>3, <2>4, <2>6, RemovalForgets DEF SelectModel, UpdateEntry, Cleared
<1>3. CASE ShutdownClears
  <2>1. RemoveEntries(Owned) /\ Owned \in SUBSET Sessions /\ Cleared'
    BY <1>3 DEF ShutdownClears, Owned, Cleared
  <2>2. Evolution /\ Aged'
    BY <1>0, <1>3, <2>1, RemovalEvolves DEF ShutdownClears
  <2>3. /\ \A q \in Submits \cup Retirers : cleanup'[q] = cleanup[q]
        /\ UNCHANGED <<pc, session, readGen, rpc, idle, forgotten>>
    BY <1>0, <1>3 DEF ShutdownClears, TypeOK, Procs
  <2>4. Slots' /\ Standing
    BY <1>0, <2>3 DEF Slots, Standing
  <2>5. Quiet
    BY <2>1 DEF Quiet, RemoveEntries, ForgetOwnership
  <2>6. Tombstones'
    BY <2>2, <2>3, <2>4, <2>5, SameTombstones
  <2> QED
    BY <2>1, <2>2, <2>4, <2>6 DEF MemoryInv, LeftoversAreForgotten
<1>4. CASE ShutdownCancels \/ ShutdownJoins \/ ShutdownResolves \/ Tick \/ UNCHANGED vars
  <2>1. /\ UNCHANGED <<entries, generation, memory, pc, session, readGen, cleanup, rpc, idle, forgotten>>
        /\ Cleared => Cleared'
    BY <1>4 DEF ShutdownCancels, ShutdownJoins, ShutdownResolves, Tick, vars, Cleared
  <2>2. Slots' /\ Standing
    BY <1>0, <2>1 DEF Slots, Standing
  <2> QED
    BY <2>1, <2>2, StillKeeps
<1> QED
  BY <1>0a, <1>1, <1>2, <1>3, <1>4, CleanupForgets

(* Whoever removes a conversation forgets what it remembered: the sweeps,  *)
(* evictions by submit and select_model, retirements and releases hand     *)
(* every removed session to forget_session(), and a tombstone is removed   *)
(* only when nothing is remembered in it any more.                         *)
THEOREM NothingIsLeftBehind == Spec => []LeftoversAreForgotten
<1>1. Init => MemoryInv
  BY DEF Init, MemoryInv, Slots, Aged, Owned, Tombstones, LeftoversAreForgotten, Procs
<1>2. ASSUME RegistryInv, RegistryInv', MemoryInv, [Next]_vars PROVE MemoryInv'
  <2>1. ASSUME NEW u \in Submits, SubmitStepOf(u) \/ GuardStep(u) \/ Remember(u) \/ TurnEnds(u)
        PROVE  MemoryInv'
    BY <1>2, <2>1, CallForgets DEF SubmitStepOf, GuardStep, CallStep
  <2>2. ASSUME NEW r \in Retirers,
               \/ DestroySweeps(r) \/ Reload(r) \/ RetireProgress(r) \/ RetireDropped(r)
               \/ \E s \in Sessions : Destroy(r, s) \/ Cleanup(r, s)
        PROVE  MemoryInv'
    BY <1>2, <2>2, RetirementForgets
  <2> QED
    BY <1>2, <2>1, <2>2, HostForgets DEF Next
<1>3. MemoryInv => LeftoversAreForgotten
  BY DEF MemoryInv
<1> QED
  BY <1>1, <1>2, <1>3, RegistryAlways, PTL DEF Spec
=============================================================================
