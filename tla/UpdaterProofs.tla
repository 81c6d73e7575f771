---------------------------- MODULE UpdaterProofs ----------------------------
(***************************************************************************)
(* What is proved of the signed updater, for every set of manifests.       *)
(*                                                                         *)
(* The anti-rollback floor and the authorisation of a swap are proved for  *)
(* any number of updaters and daemons that share the floor: they rest on   *)
(* release-floor.lock.  The swap is proved for any number of updaters too, *)
(* each killed and restarted at will, up to the first time a download(),   *)
(* which takes no lock, works beside another download or an install.       *)
(***************************************************************************)
EXTENDS Updater, TLAPS

USE DEF still

-----------------------------------------------------------------------------
(* Types.                                                                   *)

\* A run that is under way knows its manifest.
AuthKnown == \A p \in Procs : pc[p] # "idle" => auth[p] \in Manifests

TypeInv == TypeOK /\ AuthKnown

\* The highest floor, as a function of the files alone.
Top(F) ==
    IF F = {} THEN NoFloor
    ELSE CHOOSE f \in F : f \in F /\ \A g \in F : g.sequence <= f.sequence

HasTop(F) ==
    /\ F # {} => \E f \in F : \A g \in F : g.sequence <= f.sequence
    /\ \A f, g \in F : f.sequence = g.sequence => f = g

\* load_rollback_state() reads nothing but the floor files.
LEMMA LoadIsTop == LoadFloor = Top(floors) /\ LoadFloor' = Top(floors')
  BY DEF LoadFloor, IsHighest, Top

\* Among files of different sequences there is one highest floor.
LEMMA TopIsHighest ==
    ASSUME NEW F, F # {}, HasTop(F)
    PROVE  Top(F) \in F /\ \A g \in F : g.sequence <= Top(F).sequence
  BY DEF Top, HasTop

\* The highest floor file is the one LoadFloor chooses.
LEMMA TopIsUnique ==
    ASSUME NEW F \in SUBSET Floors, HasTop(F), NEW h \in F,
           \A g \in F : g.sequence <= h.sequence
    PROVE  Top(F) = h
<1>1. Top(F) \in F /\ \A g \in F : g.sequence <= Top(F).sequence
  BY TopIsHighest
<1>2. Top(F).sequence = h.sequence
  BY <1>1 DEF Floors
<1> QED
  BY <1>1, <1>2 DEF HasTop

\* The highest floor is one of the files, or the empty floor.
LEMMA TopType ==
    ASSUME NEW F \in SUBSET Floors, HasTop(F)
    PROVE  /\ Top(F).sequence \in Nat
           /\ Top(F).version \in Nat
           /\ Top(F).revoked \in SUBSET Nat
<1>1. CASE F = {}
  BY <1>1 DEF Top, NoFloor
<1>2. CASE F # {}
  BY <1>2, TopIsHighest DEF Floors
<1> QED
  BY <1>1, <1>2

-----------------------------------------------------------------------------
(* The floor and its lock.                                                  *)

\* A process in its critical section of release-floor.lock.
Locking(p) ==
    \/ pc[p] = "prune"
    \/ pc[p] \in Swapping
    \/ pc[p] \in {"recover", "repair"} /\ phase[p] = "install"

LockHeld == \A p \in Procs : Locking(p) => lock = p

\* While it prunes, the floor that was just written is the highest.
PrunesBelow ==
    \A p \in Procs : pc[p] = "prune" =>
        \E f \in floors : /\ f.sequence = auth[p].sequence
                          /\ \A g \in floors : g.sequence <= f.sequence

\* From authorize_install() on, the floor is the authorising manifest's.
Authorised ==
    \A p \in Procs : Locking(p) /\ pc[p] # "prune" =>
        /\ LoadFloor.manifest = auth[p]
        /\ auth[p].version \notin LoadFloor.revoked

FloorInv == TypeInv /\ HasTop(floors) /\ LockHeld /\ PrunesBelow /\ Authorised

\* FloorInv holds at first.
LEMMA FloorInit == Init => FloorInv
<1> SUFFICES ASSUME Init PROVE FloorInv
  OBVIOUS
<1>1. TypeInv
  BY DEF Init, TypeInv, TypeOK, AuthKnown, Objects, Releases, Floors, PCs, Outcomes, RepairOps
<1>2. HasTop(floors)
  BY DEF Init, HasTop
<1>3. LockHeld /\ PrunesBelow /\ Authorised
  BY DEF Init, LockHeld, PrunesBelow, Authorised, Locking, Swapping
<1> QED
  BY <1>1, <1>2, <1>3 DEF FloorInv

\* What accept_manifest_locked_with_digest() writes is a floor above the ones
\* it finds, and it is the only one of its sequence.
LEMMA AcceptRaises ==
    ASSUME NEW p \in Procs, NEW m \in Manifests, AcceptManifest(p, m),
           floors \in SUBSET Floors, HasTop(floors)
    PROVE  /\ floors' \in SUBSET Floors
           /\ HasTop(floors')
           /\ LoadFloor' \in floors'
           /\ LoadFloor'.sequence = m.sequence
           /\ LoadFloor'.sequence >= LoadFloor.sequence
           /\ LoadFloor.revoked \subseteq LoadFloor'.revoked
           /\ \A g \in floors' : g.sequence <= LoadFloor'.sequence
<1> DEFINE next == [sequence |-> m.sequence, version |-> m.version, manifest |-> m,
                    revoked |-> LoadFloor.revoked \cup m.revokes]
<1>0. LoadFloor = Top(floors) /\ LoadFloor' = Top(floors')
  BY LoadIsTop
<1>1. /\ m.sequence >= LoadFloor.sequence
      /\ floors' = {f \in floors : f.sequence # m.sequence} \cup {next}
  BY DEF AcceptManifest
<1>2. /\ LoadFloor.sequence \in Nat
      /\ LoadFloor.revoked \in SUBSET Nat
  BY <1>0, TopType
<1>3. m.sequence \in Nat /\ m.version \in Nat /\ m.revokes \in SUBSET Nat
  BY ManifestsAssumption
<1>4. next \in Floors /\ next.sequence = m.sequence /\ next \in floors'
  BY <1>1, <1>2, <1>3 DEF Floors
<1>5. \A g \in floors : g.sequence <= LoadFloor.sequence
  BY <1>0, TopIsHighest
<1>6. floors' \in SUBSET Floors
  BY <1>1, <1>4
<1>7. \A g \in floors' : g.sequence <= next.sequence
  <2> SUFFICES ASSUME NEW g \in floors' PROVE g.sequence <= m.sequence
    BY <1>4
  <2>1. CASE g = next
    BY <2>1, <1>3, <1>4
  <2>2. CASE g \in floors
    BY <2>2, <1>1, <1>2, <1>3, <1>5 DEF Floors
  <2> QED
    BY <2>1, <2>2, <1>1
<1>8. HasTop(floors')
  BY <1>1, <1>4, <1>7 DEF HasTop
<1>9. LoadFloor' = next
  BY <1>0, <1>4, <1>6, <1>7, <1>8, TopIsUnique
<1> QED
  BY <1>1, <1>4, <1>6, <1>7, <1>8, <1>9

\* Pruning removes only what lies below the floor just written.
LEMMA PruneKeepsTop ==
    ASSUME NEW p \in Procs, PruneFloor(p), floors \in SUBSET Floors,
           HasTop(floors), PrunesBelow
    PROVE  /\ floors' \in SUBSET Floors
           /\ HasTop(floors')
           /\ LoadFloor' = LoadFloor
           /\ \E f \in floors' : /\ f.sequence = auth[p].sequence
                                 /\ \A g \in floors' : g.sequence <= f.sequence
<1>0. LoadFloor = Top(floors) /\ LoadFloor' = Top(floors')
  BY LoadIsTop
<1>1. PICK old \in floors : old.sequence # auth[p].sequence /\ floors' = floors \ {old}
  BY DEF PruneFloor
<1>2. PICK h \in floors : /\ h.sequence = auth[p].sequence
                          /\ \A g \in floors : g.sequence <= h.sequence
  BY DEF PruneFloor, PrunesBelow
<1>3. h \in floors' /\ \A g \in floors' : g.sequence <= h.sequence
  BY <1>1, <1>2
<1>4. floors' \in SUBSET Floors
  BY <1>1
<1>5. HasTop(floors')
  BY <1>1, <1>3 DEF HasTop
<1>6. Top(floors) = h
  BY <1>2, TopIsUnique
<1>7. Top(floors') = h
  BY <1>3, <1>4, <1>5, TopIsUnique
<1> QED
  BY <1>0, <1>2, <1>3, <1>4, <1>5, <1>6, <1>7

-----------------------------------------------------------------------------
(* Every step keeps the types.                                              *)

\* disturbed records whom a process meets, and forgets nobody.
LEMMA MeetsFacts ==
    ASSUME NEW p, NEW others, Meets(p, others)
    PROVE  /\ disturbed' \in BOOLEAN
           /\ disturbed => disturbed'
           /\ ~disturbed' => \A q \in others : q = p
  BY DEF Meets

\* Every step keeps the types; pruning needs to know what it prunes.
LEMMA TypeStep ==
    ASSUME TypeInv, HasTop(floors), PrunesBelow, [Next]_vars
    PROVE  TypeInv'
<1> USE DEF TypeInv, TypeOK, AuthKnown, Goto, stageVars, swapVars, procVars,
            Objects, Releases, PCs, Outcomes, RepairOps
<1>1. ASSUME NEW p \in Procs, NEW m \in Manifests, AcceptManifest(p, m)
      PROVE  TypeInv'
  <2>1. floors' \in SUBSET Floors
    BY <1>1, AcceptRaises
  <2> QED
    BY <1>1, <2>1 DEF AcceptManifest
<1>2. ASSUME NEW p \in Procs, PruneFloor(p)
      PROVE  TypeInv'
  <2>1. floors' \in SUBSET Floors
    BY <1>2, PruneKeepsTop
  <2> QED
    BY <1>2, <2>1 DEF PruneFloor
<1>3. ASSUME NEW p \in Procs, FinishCheck(p)
      PROVE  TypeInv'
  <2>1. disturbed' \in BOOLEAN
    BY <1>3, MeetsFacts DEF FinishCheck
  <2> QED
    BY <1>3, <2>1 DEF FinishCheck, Return
<1>4. ASSUME NEW p \in Procs, Stop(p)
      PROVE  TypeInv'
  BY <1>4 DEF Stop, Return
<1>5. ASSUME NEW p \in Updaters, RecoverSwap(p)
      PROVE  TypeInv'
  BY <1>5 DEF RecoverSwap, Return, RecoveryPlan, Procs
<1>6. ASSUME NEW p \in Updaters, RemoveTarget(p)
      PROVE  TypeInv'
  BY <1>6 DEF RemoveTarget, Repairing, Done, Procs
<1>7. ASSUME NEW p \in Updaters, RestoreBackup(p)
      PROVE  TypeInv'
  BY <1>7 DEF RestoreBackup, Repairing, Done, Procs
<1>8. ASSUME NEW p \in Updaters, DiscardFound(p)
      PROVE  TypeInv'
  BY <1>8 DEF DiscardFound, Repairing, Done, Procs
<1>9. ASSUME NEW p \in Updaters, DropJournal(p)
      PROVE  TypeInv'
  BY <1>9 DEF DropJournal, Repairing, Done, Procs
<1>10. ASSUME NEW p \in Updaters, Repaired(p)
      PROVE  TypeInv'
  BY <1>10 DEF Repaired, Procs
<1>11. ASSUME NEW p \in Updaters, RolledBack(p)
      PROVE  TypeInv'
  BY <1>11 DEF RolledBack, Return, Procs
<1>12. ASSUME NEW p \in Updaters, RestoreFails(p)
      PROVE  TypeInv'
  BY <1>12 DEF RestoreFails, Return, Procs
<1>13. ASSUME NEW p \in Updaters, Bind(p)
      PROVE  TypeInv'
  BY <1>13 DEF Bind, Procs
<1>14. ASSUME NEW p \in Updaters, DropBinding(p)
      PROVE  TypeInv'
  BY <1>14 DEF DropBinding, Return, Procs
<1>15. ASSUME NEW p \in Updaters, WriteBinding(p)
      PROVE  TypeInv'
  BY <1>15 DEF WriteBinding, Procs
<1>16. ASSUME NEW p \in Updaters, Fetch(p)
      PROVE  TypeInv'
  BY <1>16 DEF Fetch, Fetched, Return, Procs
<1>17. ASSUME NEW p \in Updaters, Verify(p)
      PROVE  TypeInv'
  BY <1>17 DEF Verify, Procs
<1>18. ASSUME NEW p \in Updaters, Authorize(p)
      PROVE  TypeInv'
  <2>1. disturbed' \in BOOLEAN
    BY <1>18, MeetsFacts DEF Authorize
  <2> QED
    BY <1>18, <2>1 DEF Authorize, Return, Procs
<1>19. ASSUME NEW p \in Updaters, WriteJournal(p)
      PROVE  TypeInv'
  BY <1>19 DEF WriteJournal, Procs
<1>20. ASSUME NEW p \in Updaters, MoveAside(p)
      PROVE  TypeInv'
  BY <1>20 DEF MoveAside, Procs
<1>21. ASSUME NEW p \in Updaters, MoveAsideFails(p)
      PROVE  TypeInv'
  BY <1>21 DEF MoveAsideFails, Procs
<1>22. ASSUME NEW p \in Updaters, RenameIntoPlace(p)
      PROVE  TypeInv'
  BY <1>22 DEF RenameIntoPlace, Procs
<1>23. ASSUME NEW p \in Updaters, CreateTarget(p)
      PROVE  TypeInv'
  BY <1>23 DEF CreateTarget, Procs
<1>24. ASSUME NEW p \in Updaters, CopyTarget(p)
      PROVE  TypeInv'
  BY <1>24 DEF CopyTarget, Procs
<1>25. ASSUME NEW p \in Updaters, PlaceFails(p)
      PROVE  TypeInv'
  BY <1>25 DEF PlaceFails, Rollback, Procs
<1>26. ASSUME NEW p \in Updaters, DiscardBackup(p)
      PROVE  TypeInv'
  BY <1>26 DEF DiscardBackup, Procs
<1>27. ASSUME NEW p \in Updaters, Unstage(p)
      PROVE  TypeInv'
  BY <1>27 DEF Unstage, Procs
<1>28. ASSUME NEW p \in Updaters, Unbind(p)
      PROVE  TypeInv'
  BY <1>28 DEF Unbind, Procs
<1>29. ASSUME NEW p \in Updaters, FinishSwap(p)
      PROVE  TypeInv'
  BY <1>29 DEF FinishSwap, Return, Procs
<1>30. CASE UNCHANGED vars
  BY <1>30 DEF vars
<1> QED
  BY <1>1, <1>2, <1>3, <1>4, <1>5, <1>6, <1>7, <1>8, <1>9, <1>10, <1>11,
     <1>12, <1>13, <1>14, <1>15, <1>16, <1>17, <1>18, <1>19, <1>20, <1>21,
     <1>22, <1>23, <1>24, <1>25, <1>26, <1>27, <1>28, <1>29, <1>30
     DEF Next, Check, Recover, Download, Install

-----------------------------------------------------------------------------
(* The floor moves only under the lock.                                     *)

\* A step that leaves the floor files alone keeps the invariant if no process
\* enters the critical section with it.
LEMMA FloorFrame ==
    ASSUME FloorInv, TypeInv', NEW p \in Procs,
           UNCHANGED <<floors, auth>>,
           \A q \in Procs \ {p} : pc'[q] = pc[q] /\ phase'[q] = phase[q],
           pc'[p] # "prune" \/ pc[p] = "prune",
           Locking(p)' => Locking(p) /\ lock' = lock /\ pc[p] # "prune",
           lock' = lock \/ lock = p
    PROVE  FloorInv'
<1>1. LoadFloor' = LoadFloor
  BY LoadIsTop
<1>2. HasTop(floors')
  BY DEF FloorInv
<1>3. \A q \in Procs \ {p} : Locking(q)' <=> Locking(q)
  BY DEF Locking
<1>4. LockHeld'
  BY <1>3 DEF FloorInv, LockHeld
<1>5. PrunesBelow'
  BY DEF FloorInv, PrunesBelow
<1>6. Authorised'
  BY <1>1, <1>3 DEF FloorInv, Authorised
<1> QED
  BY <1>2, <1>4, <1>5, <1>6 DEF FloorInv

\* FloorInv is inductive.
LEMMA FloorStep ==
    ASSUME FloorInv, [Next]_vars
    PROVE  FloorInv'
<1>0. TypeInv'
  BY TypeStep DEF FloorInv
<1> USE <1>0
<1>1. ASSUME NEW p \in Procs, NEW m \in Manifests, AcceptManifest(p, m)
      PROVE  FloorInv'
  <2>1. /\ floors \in SUBSET Floors /\ HasTop(floors) /\ lock = None /\ pc[p] = "idle"
        /\ lock' = p /\ auth' = [auth EXCEPT ![p] = m]
        /\ pc' = [pc EXCEPT ![p] = "prune"] /\ phase' = phase
        /\ pc \in [Procs -> PCs] /\ auth \in [Procs -> Manifests \cup {None}]
    BY <1>1 DEF AcceptManifest, Goto, FloorInv, TypeInv, TypeOK, procVars
  <2>2. /\ HasTop(floors')
        /\ LoadFloor' \in floors'
        /\ LoadFloor'.sequence = m.sequence
        /\ \A g \in floors' : g.sequence <= LoadFloor'.sequence
    BY <1>1, <2>1, AcceptRaises
  <2>3. \A q \in Procs : ~Locking(q)
    BY <2>1, ProcsAssumption DEF FloorInv, LockHeld
  <2>4. \A q \in Procs : Locking(q)' => q = p
    BY <2>1, <2>3 DEF Locking
  <2>5. LockHeld'
    BY <2>1, <2>4 DEF LockHeld
  <2>6. PrunesBelow'
    BY <2>1, <2>2, <2>3 DEF PrunesBelow, Locking
  <2>7. Authorised'
    BY <2>1, <2>4 DEF Authorised
  <2> QED
    BY <2>2, <2>5, <2>6, <2>7 DEF FloorInv
<1>2. ASSUME NEW p \in Procs, PruneFloor(p)
      PROVE  FloorInv'
  <2>1. /\ floors \in SUBSET Floors /\ HasTop(floors) /\ PrunesBelow
        /\ pc[p] = "prune" /\ UNCHANGED <<pc, lock, phase, auth>>
    BY <1>2 DEF PruneFloor, FloorInv, TypeInv, TypeOK, procVars
  <2>2. /\ HasTop(floors')
        /\ LoadFloor' = LoadFloor
        /\ \E f \in floors' : /\ f.sequence = auth[p].sequence
                              /\ \A g \in floors' : g.sequence <= f.sequence
    BY <1>2, <2>1, PruneKeepsTop
  <2>3. \A q \in Procs : Locking(q)' <=> Locking(q)
    BY <2>1 DEF Locking
  <2>4. \A q \in Procs : pc[q] = "prune" => q = p
    BY <2>1 DEF FloorInv, LockHeld, Locking
  <2>5. LockHeld'
    BY <2>1, <2>3 DEF FloorInv, LockHeld
  <2>6. PrunesBelow'
    BY <2>1, <2>2, <2>4 DEF PrunesBelow
  <2>7. Authorised'
    BY <2>1, <2>2, <2>3 DEF FloorInv, Authorised
  <2> QED
    BY <2>2, <2>5, <2>6, <2>7 DEF FloorInv
<1>3. ASSUME NEW p \in Procs, FinishCheck(p)
      PROVE  FloorInv'
  BY <1>3, FloorFrame DEF FinishCheck, Return, Goto, Locking, Swapping, FloorInv,
     LockHeld, TypeInv, TypeOK, stageVars, swapVars, procVars
<1>4. ASSUME NEW p \in Updaters, Authorize(p)
      PROVE  FloorInv'
  <2> DEFINE authorised == LoadFloor.manifest = auth[p] /\ auth[p].version \notin LoadFloor.revoked
  <2>0. p \in Procs /\ UNCHANGED <<floors, auth>> /\ pc[p] = "authorize" /\ lock = None
        /\ pc \in [Procs -> PCs] /\ phase \in [Procs -> {"download", "install"}]
    BY <1>4 DEF Authorize, Procs, FloorInv, TypeInv, TypeOK
  <2>1. CASE ~Authorized(p)
    BY <1>4, <2>0, <2>1, FloorFrame DEF Authorize, Return, Goto, Locking, Swapping
  <2>2. CASE Authorized(p)
    <3>1. /\ lock' = p /\ pc' = [pc EXCEPT ![p] = "recover"]
          /\ phase' = [phase EXCEPT ![p] = "install"]
      BY <1>4, <2>2 DEF Authorize, Goto
    <3>2. LoadFloor' = LoadFloor /\ HasTop(floors')
      BY <2>0, LoadIsTop DEF FloorInv
    <3>3. authorised
      BY <2>2 DEF Authorized
    <3>4. \A q \in Procs : ~Locking(q)
      BY <2>0, ProcsAssumption DEF FloorInv, LockHeld
    <3>5. \A q \in Procs : Locking(q)' => q = p
      BY <2>0, <3>1, <3>4 DEF Locking
    <3>6. LockHeld' /\ PrunesBelow'
      BY <2>0, <3>1, <3>4, <3>5 DEF LockHeld, PrunesBelow, Locking
    <3>7. Authorised'
      BY <2>0, <3>2, <3>3, <3>5 DEF Authorised
    <3> QED
      BY <3>2, <3>6, <3>7 DEF FloorInv
  <2> QED
    BY <2>1, <2>2
<1>5. ASSUME NEW p \in Procs, Stop(p)
      PROVE  FloorInv'
  BY <1>5, FloorFrame
     DEF Stop, Return, Goto, Locking, Swapping, FloorInv, LockHeld,
         TypeInv, TypeOK, stageVars, swapVars, procVars
<1>6. ASSUME NEW p \in Updaters, RecoverSwap(p)
      PROVE  FloorInv'
  BY <1>6, FloorFrame
     DEF RecoverSwap, Return, Goto, Locking, Swapping, FloorInv, LockHeld,
         TypeInv, TypeOK, stageVars, swapVars, procVars, Procs
<1>7. ASSUME NEW p \in Updaters, RemoveTarget(p)
      PROVE  FloorInv'
  BY <1>7, FloorFrame
     DEF RemoveTarget, Repairing, Done, Goto, Locking, Swapping, FloorInv, LockHeld,
         TypeInv, TypeOK, stageVars, swapVars, procVars, Procs
<1>8. ASSUME NEW p \in Updaters, RestoreBackup(p)
      PROVE  FloorInv'
  BY <1>8, FloorFrame
     DEF RestoreBackup, Repairing, Done, Goto, Locking, Swapping, FloorInv, LockHeld,
         TypeInv, TypeOK, stageVars, swapVars, procVars, Procs
<1>9. ASSUME NEW p \in Updaters, DiscardFound(p)
      PROVE  FloorInv'
  BY <1>9, FloorFrame
     DEF DiscardFound, Repairing, Done, Goto, Locking, Swapping, FloorInv, LockHeld,
         TypeInv, TypeOK, stageVars, swapVars, procVars, Procs
<1>10. ASSUME NEW p \in Updaters, DropJournal(p)
      PROVE  FloorInv'
  BY <1>10, FloorFrame
     DEF DropJournal, Repairing, Done, Goto, Locking, Swapping, FloorInv, LockHeld,
         TypeInv, TypeOK, stageVars, swapVars, procVars, Procs
<1>11. ASSUME NEW p \in Updaters, Repaired(p)
      PROVE  FloorInv'
  BY <1>11, FloorFrame
     DEF Repaired, Goto, Locking, Swapping, FloorInv, LockHeld,
         TypeInv, TypeOK, stageVars, swapVars, procVars, Procs
<1>12. ASSUME NEW p \in Updaters, RolledBack(p)
      PROVE  FloorInv'
  BY <1>12, FloorFrame
     DEF RolledBack, Return, Goto, Locking, Swapping, FloorInv, LockHeld,
         TypeInv, TypeOK, stageVars, swapVars, procVars, Procs
<1>13. ASSUME NEW p \in Updaters, RestoreFails(p)
      PROVE  FloorInv'
  BY <1>13, FloorFrame
     DEF RestoreFails, Return, Goto, Locking, Swapping, FloorInv, LockHeld,
         TypeInv, TypeOK, stageVars, swapVars, procVars, Procs
<1>14. ASSUME NEW p \in Updaters, Bind(p)
      PROVE  FloorInv'
  BY <1>14, FloorFrame
     DEF Bind, Goto, Locking, Swapping, FloorInv, LockHeld,
         TypeInv, TypeOK, stageVars, swapVars, procVars, Procs
<1>15. ASSUME NEW p \in Updaters, DropBinding(p)
      PROVE  FloorInv'
  BY <1>15, FloorFrame
     DEF DropBinding, Return, Goto, Locking, Swapping, FloorInv, LockHeld,
         TypeInv, TypeOK, stageVars, swapVars, procVars, Procs
<1>16. ASSUME NEW p \in Updaters, WriteBinding(p)
      PROVE  FloorInv'
  BY <1>16, FloorFrame
     DEF WriteBinding, Goto, Locking, Swapping, FloorInv, LockHeld,
         TypeInv, TypeOK, stageVars, swapVars, procVars, Procs
<1>17. ASSUME NEW p \in Updaters, Fetch(p)
      PROVE  FloorInv'
  BY <1>17, FloorFrame
     DEF Fetch, Return, Goto, Locking, Swapping, FloorInv, LockHeld,
         TypeInv, TypeOK, stageVars, swapVars, procVars, Procs
<1>18. ASSUME NEW p \in Updaters, Verify(p)
      PROVE  FloorInv'
  BY <1>18, FloorFrame
     DEF Verify, Goto, Locking, Swapping, FloorInv, LockHeld,
         TypeInv, TypeOK, stageVars, swapVars, procVars, Procs
<1>19. ASSUME NEW p \in Updaters, WriteJournal(p)
      PROVE  FloorInv'
  BY <1>19, FloorFrame
     DEF WriteJournal, Goto, Locking, Swapping, FloorInv, LockHeld,
         TypeInv, TypeOK, stageVars, swapVars, procVars, Procs
<1>20. ASSUME NEW p \in Updaters, MoveAside(p)
      PROVE  FloorInv'
  BY <1>20, FloorFrame
     DEF MoveAside, Goto, Locking, Swapping, FloorInv, LockHeld,
         TypeInv, TypeOK, stageVars, swapVars, procVars, Procs
<1>21. ASSUME NEW p \in Updaters, MoveAsideFails(p)
      PROVE  FloorInv'
  BY <1>21, FloorFrame
     DEF MoveAsideFails, Goto, Locking, Swapping, FloorInv, LockHeld,
         TypeInv, TypeOK, stageVars, swapVars, procVars, Procs
<1>22. ASSUME NEW p \in Updaters, RenameIntoPlace(p)
      PROVE  FloorInv'
  BY <1>22, FloorFrame
     DEF RenameIntoPlace, Goto, Locking, Swapping, FloorInv, LockHeld,
         TypeInv, TypeOK, stageVars, swapVars, procVars, Procs
<1>23. ASSUME NEW p \in Updaters, CreateTarget(p)
      PROVE  FloorInv'
  BY <1>23, FloorFrame
     DEF CreateTarget, Goto, Locking, Swapping, FloorInv, LockHeld,
         TypeInv, TypeOK, stageVars, swapVars, procVars, Procs
<1>24. ASSUME NEW p \in Updaters, CopyTarget(p)
      PROVE  FloorInv'
  BY <1>24, FloorFrame
     DEF CopyTarget, Goto, Locking, Swapping, FloorInv, LockHeld,
         TypeInv, TypeOK, stageVars, swapVars, procVars, Procs
<1>25. ASSUME NEW p \in Updaters, PlaceFails(p)
      PROVE  FloorInv'
  BY <1>25, FloorFrame
     DEF PlaceFails, Rollback, Goto, Locking, Swapping, FloorInv, LockHeld,
         TypeInv, TypeOK, stageVars, swapVars, procVars, Procs
<1>26. ASSUME NEW p \in Updaters, DiscardBackup(p)
      PROVE  FloorInv'
  BY <1>26, FloorFrame
     DEF DiscardBackup, Goto, Locking, Swapping, FloorInv, LockHeld,
         TypeInv, TypeOK, stageVars, swapVars, procVars, Procs
<1>27. ASSUME NEW p \in Updaters, Unstage(p)
      PROVE  FloorInv'
  BY <1>27, FloorFrame
     DEF Unstage, Goto, Locking, Swapping, FloorInv, LockHeld,
         TypeInv, TypeOK, stageVars, swapVars, procVars, Procs
<1>28. ASSUME NEW p \in Updaters, Unbind(p)
      PROVE  FloorInv'
  BY <1>28, FloorFrame
     DEF Unbind, Goto, Locking, Swapping, FloorInv, LockHeld,
         TypeInv, TypeOK, stageVars, swapVars, procVars, Procs
<1>29. ASSUME NEW p \in Updaters, FinishSwap(p)
      PROVE  FloorInv'
  BY <1>29, FloorFrame
     DEF FinishSwap, Return, Goto, Locking, Swapping, FloorInv, LockHeld,
         TypeInv, TypeOK, stageVars, swapVars, procVars, Procs
<1>30. CASE UNCHANGED vars
  <2>1. UNCHANGED <<floors, auth, pc, phase, lock>>
    BY <1>30 DEF vars, procVars
  <2>2. LoadFloor' = LoadFloor /\ \A q \in Procs : Locking(q)' <=> Locking(q)
    BY <2>1, LoadIsTop DEF Locking
  <2> QED
    BY <2>1, <2>2 DEF FloorInv, LockHeld, PrunesBelow, Authorised
<1> QED
  BY <1>1, <1>2, <1>3, <1>4, <1>5, <1>6, <1>7, <1>8, <1>9, <1>10, <1>11,
     <1>12, <1>13, <1>14, <1>15, <1>16, <1>17, <1>18, <1>19, <1>20, <1>21,
     <1>22, <1>23, <1>24, <1>25, <1>26, <1>27, <1>28, <1>29, <1>30
     DEF Next, Check, Recover, Download, Install

-----------------------------------------------------------------------------
\* Every variable keeps its type, and a run under way knows its manifest.
THEOREM UpdaterTypes == Spec => []TypeOK
<1>1. FloorInv => TypeOK
  BY DEF FloorInv, TypeInv
<1> QED
  BY FloorInit, FloorStep, <1>1, PTL DEF Spec

\* However many updaters and daemons share the floor, a release is swapped in
\* only while the floor is the manifest that authorised it and has not revoked
\* it: authorize_install() and atomic_swap_verified() run under one lock.
THEOREM SwapsAreAuthorized == Spec => []SwapIsAuthorized
<1>1. FloorInv => SwapIsAuthorized
  BY DEF FloorInv, Authorised, SwapIsAuthorized, Locking, Swapping, Procs
<1> QED
  BY FloorInit, FloorStep, <1>1, PTL DEF Spec

\* The anti-rollback floor never falls and forgets no revocation, whichever
\* process dies between two file operations of
\* accept_manifest_locked_with_digest() and prune_rollback_states().
THEOREM FloorsNeverFall == Spec => FloorNeverFalls
<1> DEFINE Step == /\ LoadFloor'.sequence >= LoadFloor.sequence
                   /\ LoadFloor.revoked \subseteq LoadFloor'.revoked
<1>1. ASSUME FloorInv, [Next]_vars PROVE Step
  <2>1. floors \in SUBSET Floors /\ HasTop(floors) /\ PrunesBelow
    BY <1>1 DEF FloorInv, TypeInv, TypeOK
  <2>2. LoadFloor.sequence \in Nat
    BY <2>1, LoadIsTop, TopType
  <2>3. CASE floors' = floors
    BY <2>2, <2>3, LoadIsTop
  <2>4. ASSUME NEW p \in Procs, NEW m \in Manifests, AcceptManifest(p, m) PROVE Step
    BY <2>1, <2>4, AcceptRaises
  <2>5. ASSUME NEW p \in Procs, PruneFloor(p) PROVE Step
    BY <2>1, <2>2, <2>5, PruneKeepsTop
  <2>6. floors' = floors \/ \E p \in Procs : PruneFloor(p) \/ \E m \in Manifests : AcceptManifest(p, m)
    BY <1>1 DEF Next, Check, Recover, Download, Install, vars, FinishCheck, Stop,
       RecoverSwap, RemoveTarget, RestoreBackup, DiscardFound, DropJournal, Repaired,
       RolledBack, RestoreFails, Bind, DropBinding, WriteBinding, Fetch, Verify,
       Authorize, WriteJournal, MoveAside, MoveAsideFails, RenameIntoPlace,
       CreateTarget, CopyTarget, PlaceFails, DiscardBackup, Unstage, Unbind, FinishSwap
  <2> QED
    BY <2>3, <2>4, <2>5, <2>6
<1>2. FloorInv /\ [Next]_vars => [Step]_vars
  BY <1>1
<1> QED
  BY FloorInit, FloorStep, <1>2, PTL DEF Spec, FloorNeverFalls

-----------------------------------------------------------------------------
(* The installation and its journal, as long as downloads are undisturbed.  *)

Working(u) == Downloading(u) \/ Installing(u)

\* A daemon never leaves check().
CheckersOnly == \A p \in Checkers : pc[p] \in {"idle", "prune"}

\* What a swap or a recovery that is under way has left in the directory.
SwapShape(u) ==
    /\ pc[u] \in {"repair", "rollback"} /\ backup # None =>
          "restore" \in plan[u] \/ "discard" \in plan[u]
    /\ pc[u] \in {"journal", "aside", "unstage", "unbind", "finish"} => backup = None
    /\ pc[u] \in {"aside", "place", "copy", "placed", "unstage", "unbind", "finish"} =>
          journal = auth[u]
    /\ pc[u] \in {"aside", "place"} => Staged(u)
    /\ pc[u] = "aside" => prior[u] = target
    /\ pc[u] = "place" => target = None
    /\ pc[u] = "copy" => target = Partial
    /\ pc[u] \in {"placed", "unstage", "unbind", "finish"} => target = auth[u]
    /\ pc[u] \in {"place", "copy", "placed"} =>
          IF had[u] THEN backup = prior[u] /\ backup # None ELSE backup = None

\* A roll-back ends with the installation it started from, or says so.
RollbackShape(u) ==
    pc[u] = "rollback" =>
        /\ outcome[u] \in {"rolled_back", "error", "restart"}
        /\ "discard" \notin plan[u]
        /\ "remove" \in plan[u] => "restore" \in plan[u]
        /\ "restore" \in plan[u] => backup = prior[u] /\ backup # None
        /\ outcome[u] = "rolled_back" => "restore" \in plan[u] \/ target = prior[u]

\* The binding is written before the part and removed after it.
PartShape(u) ==
    /\ pc[u] \in {"fetch", "verify"} => binding = auth[u]
    /\ pc[u] \in {"rebind", "unbind"} => part = None
    /\ pc[u] = "mismatch" => part = None \/ part.of = Mixed

Shape(u) == SwapShape(u) /\ RollbackShape(u) /\ PartShape(u)

\* What any process finds in the directory.
FilesInv ==
    /\ backup # None => journal # None /\ target \in {None, Partial, journal}
    /\ part # None /\ part.of # Mixed => binding = part.of

LocalInv(u) == Shape(u) /\ FilesInv

\* No download has company.
Apart ==
    \A p, q \in Updaters : p # q /\ Downloading(p) => ~Downloading(q) /\ ~Installing(q)

SwapInv ==
    /\ CheckersOnly
    /\ ~disturbed => Apart /\ FilesInv /\ \A u \in Updaters : Shape(u)

Acts(u) == Check(u) \/ Stop(u) \/ Recover(u) \/ Download(u) \/ Install(u)

\* A step of u is its own: the other processes stay where they are, files change only
\* while u works on them, and u starts to work in FinishCheck and Authorize alone.
Others(u) == {q \in Updaters : q # u}

Transits(u) ==
    /\ \A q \in Procs : q # u =>
          /\ pc'[q] = pc[q] /\ phase'[q] = phase[q] /\ auth'[q] = auth[q] /\ had'[q] = had[q]
          /\ plan'[q] = plan[q] /\ outcome'[q] = outcome[q] /\ prior'[q] = prior[q]
    /\ windows' = windows
    /\ disturbed => disturbed'
    /\ Working(u) \/ UNCHANGED <<swapVars, stageVars>>
    /\ Downloading(u)' => Downloading(u) \/ (~disturbed' => \A q \in Others(u) : ~Working(q))
    /\ Installing(u)' => Installing(u) \/ (~disturbed' => \A q \in Others(u) : ~Downloading(q))

\* Every action of a process is such a step.
LEMMA Transition ==
    ASSUME TypeInv, NEW u \in Procs, Acts(u), pc[u] \in {"idle", "prune"} \/ u \in Updaters
    PROVE  Transits(u)
<1> USE DEF Goto, swapVars, stageVars, procVars, TypeInv, TypeOK, Transits, Working, Downloading,
            Installing, Recovering, Swapping, Others
<1>1. ASSUME RecoverSwap(u)
      PROVE  Transits(u)
  BY <1>1 DEF RecoverSwap, Return, RecoveryPlan
<1>2. ASSUME RemoveTarget(u)
      PROVE  Transits(u)
  BY <1>2 DEF RemoveTarget, Repairing, Done
<1>3. ASSUME RestoreBackup(u)
      PROVE  Transits(u)
  BY <1>3 DEF RestoreBackup, Repairing, Done
<1>4. ASSUME DiscardFound(u)
      PROVE  Transits(u)
  BY <1>4 DEF DiscardFound, Repairing, Done
<1>5. ASSUME DropJournal(u)
      PROVE  Transits(u)
  BY <1>5 DEF DropJournal, Repairing, Done
<1>6. ASSUME Repaired(u)
      PROVE  Transits(u)
  BY <1>6 DEF Repaired
<1>7. ASSUME RolledBack(u)
      PROVE  Transits(u)
  BY <1>7 DEF RolledBack, Return
<1>8. ASSUME RestoreFails(u)
      PROVE  Transits(u)
  BY <1>8 DEF RestoreFails, Return
<1>9. ASSUME Bind(u)
      PROVE  Transits(u)
  BY <1>9 DEF Bind
<1>10. ASSUME DropBinding(u)
      PROVE  Transits(u)
  BY <1>10 DEF DropBinding, Return
<1>11. ASSUME WriteBinding(u)
      PROVE  Transits(u)
  BY <1>11 DEF WriteBinding
<1>12. ASSUME Fetch(u)
      PROVE  Transits(u)
  BY <1>12 DEF Fetch, Fetched, Return
<1>13. ASSUME Verify(u)
      PROVE  Transits(u)
  BY <1>13 DEF Verify
<1>14. ASSUME Authorize(u)
      PROVE  Transits(u)
  BY <1>14 DEF Authorize, Return, Meets
<1>15. ASSUME WriteJournal(u)
      PROVE  Transits(u)
  BY <1>15 DEF WriteJournal, Staged
<1>16. ASSUME MoveAside(u)
      PROVE  Transits(u)
  BY <1>16 DEF MoveAside
<1>17. ASSUME MoveAsideFails(u)
      PROVE  Transits(u)
  BY <1>17 DEF MoveAsideFails
<1>18. ASSUME RenameIntoPlace(u)
      PROVE  Transits(u)
  BY <1>18 DEF RenameIntoPlace, Staged
<1>19. ASSUME CreateTarget(u)
      PROVE  Transits(u)
  BY <1>19 DEF CreateTarget
<1>20. ASSUME CopyTarget(u)
      PROVE  Transits(u)
  BY <1>20 DEF CopyTarget
<1>21. ASSUME PlaceFails(u)
      PROVE  Transits(u)
  BY <1>21 DEF PlaceFails, Rollback
<1>22. ASSUME DiscardBackup(u)
      PROVE  Transits(u)
  BY <1>22 DEF DiscardBackup
<1>23. ASSUME Unstage(u)
      PROVE  Transits(u)
  BY <1>23 DEF Unstage
<1>24. ASSUME Unbind(u)
      PROVE  Transits(u)
  BY <1>24 DEF Unbind
<1>25. ASSUME FinishSwap(u)
      PROVE  Transits(u)
  BY <1>25 DEF FinishSwap, Return
<1>26. ASSUME PruneFloor(u)
      PROVE  Transits(u)
  BY <1>26 DEF PruneFloor
<1>27. ASSUME FinishCheck(u)
      PROVE  Transits(u)
  <2>1. CASE Return(u, "none") /\ UNCHANGED <<phase, disturbed>>
    BY <1>27, <2>1 DEF FinishCheck, Return
  <2>2. CASE Goto(u, "recover") /\ phase' = [phase EXCEPT ![u] = "download"] /\ UNCHANGED <<plan, outcome>>
             /\ Meets(u, {q \in Updaters : Downloading(q) \/ Installing(q)})
    <3>1. /\ disturbed => disturbed'
          /\ ~disturbed' => \A q \in Others(u) : ~Working(q)
      BY <2>2, MeetsFacts
    <3>2. UNCHANGED <<swapVars, stageVars, windows, auth, had, prior>>
      BY <1>27 DEF FinishCheck
    <3>3. \A q \in Procs : q # u =>
             /\ pc'[q] = pc[q] /\ phase'[q] = phase[q] /\ auth'[q] = auth[q] /\ had'[q] = had[q]
             /\ plan'[q] = plan[q] /\ outcome'[q] = outcome[q] /\ prior'[q] = prior[q]
      BY <2>2, <3>2
    <3>4. ~Installing(u)'
      BY <2>2
    <3> HIDE DEF Working, Downloading, Installing, Recovering, Swapping, Others, Goto
    <3> QED
      BY <3>1, <3>2, <3>3, <3>4
  <2> QED
    BY <1>27, <2>1, <2>2 DEF FinishCheck
<1>28. ASSUME Stop(u)
      PROVE  Transits(u)
  BY <1>28 DEF Stop, Return
<1>29. ASSUME NEW m \in Manifests, AcceptManifest(u, m)
      PROVE  Transits(u)
  BY <1>29 DEF AcceptManifest
<1> HIDE DEF Goto, swapVars, stageVars, procVars, TypeInv, TypeOK, Transits, Working, Downloading,
            Installing, Recovering, Swapping, Others
<1> QED
  BY <1>1, <1>2, <1>3, <1>4, <1>5, <1>6, <1>7, <1>8, <1>9, <1>10, <1>11,
     <1>12, <1>13, <1>14, <1>15, <1>16, <1>17, <1>18, <1>19, <1>20, <1>21,
     <1>22, <1>23, <1>24, <1>25, <1>26, <1>27, <1>28, <1>29
     DEF Acts, Check, Recover, Download, Install

\* An updater that acts keeps what concerns itself.
LEMMA LocalStep ==
    ASSUME TypeInv, NEW u \in Updaters, LocalInv(u), Acts(u)
    PROVE  LocalInv(u)'
<1>0. u \in Procs
  BY DEF Procs
<1> USE <1>0 DEF Goto, swapVars, stageVars, procVars, TypeInv, TypeOK, AuthKnown, LocalInv, FilesInv, Shape,
            SwapShape, RollbackShape, PartShape, Staged
<1>1. ASSUME RecoverSwap(u)
      PROVE  LocalInv(u)'
  BY <1>1 DEF RecoverSwap, Return, RecoveryPlan
<1>2. ASSUME RemoveTarget(u)
      PROVE  LocalInv(u)'
  BY <1>2 DEF RemoveTarget, Repairing, Done
<1>3. ASSUME RestoreBackup(u)
      PROVE  LocalInv(u)'
  BY <1>3 DEF RestoreBackup, Repairing, Done
<1>4. ASSUME DiscardFound(u)
      PROVE  LocalInv(u)'
  BY <1>4 DEF DiscardFound, Repairing, Done
<1>5. ASSUME DropJournal(u)
      PROVE  LocalInv(u)'
  BY <1>5 DEF DropJournal, Repairing, Done
<1>6. ASSUME Repaired(u)
      PROVE  LocalInv(u)'
  BY <1>6 DEF Repaired
<1>7. ASSUME RolledBack(u)
      PROVE  LocalInv(u)'
  BY <1>7 DEF RolledBack, Return
<1>8. ASSUME RestoreFails(u)
      PROVE  LocalInv(u)'
  BY <1>8 DEF RestoreFails, Return
<1>9. ASSUME Bind(u)
      PROVE  LocalInv(u)'
  BY <1>9 DEF Bind
<1>10. ASSUME DropBinding(u)
      PROVE  LocalInv(u)'
  BY <1>10 DEF DropBinding, Return
<1>11. ASSUME WriteBinding(u)
      PROVE  LocalInv(u)'
  BY <1>11 DEF WriteBinding
<1>12. ASSUME Fetch(u)
      PROVE  LocalInv(u)'
  BY <1>12 DEF Fetch, Fetched, Return
<1>13. ASSUME Verify(u)
      PROVE  LocalInv(u)'
  BY <1>13 DEF Verify
<1>14. ASSUME Authorize(u)
      PROVE  LocalInv(u)'
  BY <1>14 DEF Authorize, Return, Meets
<1>15. ASSUME WriteJournal(u)
      PROVE  LocalInv(u)'
  BY <1>15 DEF WriteJournal, Staged
<1>16. ASSUME MoveAside(u)
      PROVE  LocalInv(u)'
  <2>1. auth[u] # None
    BY <1>16, ManifestsAssumption DEF MoveAside
  <2>2. CASE target = None
    BY <1>16, <2>1, <2>2 DEF MoveAside
  <2>3. CASE target # None
    BY <1>16, <2>1, <2>3 DEF MoveAside
  <2> QED
    BY <2>2, <2>3
<1>17. ASSUME MoveAsideFails(u)
      PROVE  LocalInv(u)'
  BY <1>17 DEF MoveAsideFails
<1>18. ASSUME RenameIntoPlace(u)
      PROVE  LocalInv(u)'
  BY <1>18 DEF RenameIntoPlace, Staged
<1>19. ASSUME CreateTarget(u)
      PROVE  LocalInv(u)'
  BY <1>19 DEF CreateTarget
<1>20. ASSUME CopyTarget(u)
      PROVE  LocalInv(u)'
  BY <1>20 DEF CopyTarget
<1>21. ASSUME PlaceFails(u)
      PROVE  LocalInv(u)'
  BY <1>21 DEF PlaceFails, Rollback
<1>22. ASSUME DiscardBackup(u)
      PROVE  LocalInv(u)'
  BY <1>22 DEF DiscardBackup
<1>23. ASSUME Unstage(u)
      PROVE  LocalInv(u)'
  BY <1>23 DEF Unstage
<1>24. ASSUME Unbind(u)
      PROVE  LocalInv(u)'
  BY <1>24 DEF Unbind
<1>25. ASSUME FinishSwap(u)
      PROVE  LocalInv(u)'
  BY <1>25 DEF FinishSwap, Return
<1>26. ASSUME PruneFloor(u)
      PROVE  LocalInv(u)'
  BY <1>26 DEF PruneFloor
<1>27. ASSUME FinishCheck(u)
      PROVE  LocalInv(u)'
  BY <1>27 DEF FinishCheck, Return, Meets
<1>28. ASSUME Stop(u)
      PROVE  LocalInv(u)'
  BY <1>28 DEF Stop, Return
<1>29. ASSUME NEW m \in Manifests, AcceptManifest(u, m)
      PROVE  LocalInv(u)'
  BY <1>29 DEF AcceptManifest
<1> HIDE DEF Goto, swapVars, stageVars, procVars, TypeInv, TypeOK, AuthKnown, LocalInv, FilesInv, Shape,
            SwapShape, RollbackShape, PartShape, Staged
<1> QED
  BY <1>1, <1>2, <1>3, <1>4, <1>5, <1>6, <1>7, <1>8, <1>9, <1>10, <1>11,
     <1>12, <1>13, <1>14, <1>15, <1>16, <1>17, <1>18, <1>19, <1>20, <1>21,
     <1>22, <1>23, <1>24, <1>25, <1>26, <1>27, <1>28, <1>29
     DEF Acts, Check, Recover, Download, Install

\* Whoever works on the files undisturbed works on them alone: a download because it
\* met nobody, an install because of the lock as well.
LEMMA WorksAlone ==
    ASSUME FloorInv, SwapInv, ~disturbed, NEW u \in Updaters, Working(u)
    PROVE  \A q \in Others(u) : ~Working(q)
<1> SUFFICES ASSUME NEW q \in Updaters, q # u, Working(q) PROVE FALSE
  BY DEF Others
<1>1. Installing(u) /\ Installing(q)
  BY DEF SwapInv, Apart, Working
<1>2. Locking(u) /\ Locking(q) /\ u \in Procs /\ q \in Procs
  BY <1>1 DEF Installing, Recovering, Locking, Procs
<1> QED
  BY <1>2 DEF FloorInv, LockHeld

\* SwapInv is inductive beside FloorInv.
LEMMA SwapStep ==
    ASSUME FloorInv, SwapInv, [Next]_vars
    PROVE  SwapInv'
<1>0. TypeInv /\ TypeInv'
  BY TypeStep DEF FloorInv
<1>1. CASE UNCHANGED vars
  BY <1>1 DEF vars, swapVars, stageVars, procVars, SwapInv, CheckersOnly, Apart, FilesInv, Shape,
     SwapShape, RollbackShape, PartShape, Staged, Downloading, Installing, Recovering
<1>2. ASSUME NEW p \in Checkers, Check(p) \/ Stop(p) PROVE SwapInv'
  <2>1. p \in Procs /\ p \notin Updaters /\ pc[p] \in {"idle", "prune"}
    BY ProcsAssumption DEF Procs, SwapInv, CheckersOnly
  <2>2. Transits(p)
    BY <1>0, <1>2, <2>1, Transition DEF Acts
  <2>3. pc'[p] \in {"idle", "prune"}
    BY <1>0, <1>2, <2>1 DEF Check, AcceptManifest, PruneFloor, FinishCheck, Stop, Return, Goto,
       TypeInv, TypeOK
  <2>4. CheckersOnly'
    BY <2>2, <2>3 DEF SwapInv, CheckersOnly, Transits, Procs
  <2>5. ~Working(p)
    BY <2>1 DEF Working, Downloading, Installing, Recovering, Swapping
  <2>6. UNCHANGED <<swapVars, stageVars, windows>>
    BY <2>2, <2>5 DEF Transits
  <2>7. \A q \in Updaters : q \in Procs /\ q # p
    BY <2>1 DEF Procs
  <2>8. ASSUME ~disturbed' PROVE Apart' /\ FilesInv' /\ \A u \in Updaters : Shape(u)'
    <3>1. Apart /\ FilesInv /\ \A u \in Updaters : Shape(u)
      BY <2>2, <2>8 DEF SwapInv, Transits
    <3>2. Apart'
      BY <2>2, <2>7, <3>1 DEF Transits, Apart, Downloading, Installing, Recovering
    <3>3. ASSUME NEW u \in Updaters PROVE Shape(u)'
      BY <2>2, <2>6, <2>7, <3>1 DEF Transits, swapVars, stageVars, Shape, SwapShape,
         RollbackShape, PartShape, Staged
    <3>4. FilesInv'
      BY <2>6, <3>1 DEF FilesInv, swapVars, stageVars
    <3> QED
      BY <3>2, <3>3, <3>4
  <2> QED
    BY <2>4, <2>8 DEF SwapInv
<1>3. ASSUME NEW u \in Updaters, Acts(u) PROVE SwapInv'
  <2>1. u \in Procs /\ u \notin Checkers
    BY ProcsAssumption DEF Procs
  <2>2. Transits(u)
    BY <1>0, <1>3, <2>1, Transition
  <2>3. CheckersOnly'
    BY <2>1, <2>2 DEF SwapInv, CheckersOnly, Transits, Procs
  <2>4. ASSUME ~disturbed' PROVE Apart' /\ FilesInv' /\ \A q \in Updaters : Shape(q)'
    <3>1. ~disturbed /\ Apart /\ \A q \in Updaters : LocalInv(q)
      BY <2>2, <2>4 DEF SwapInv, Transits, LocalInv
    <3>2. LocalInv(u)'
      BY <1>0, <1>3, <3>1, LocalStep
    <3>3. \A q \in Others(u) : /\ q \in Updaters /\ (Downloading(q)' <=> Downloading(q))
                               /\ (Installing(q)' <=> Installing(q))
      BY <2>2 DEF Transits, Others, Downloading, Installing, Recovering, Procs
    <3>4. Working(u) => \A q \in Others(u) : ~Working(q)
      BY <3>1, WorksAlone
    <3>5. Apart'
      <4>1. Downloading(u)' => \A q \in Others(u) : ~Downloading(q) /\ ~Installing(q)
        BY <2>2, <2>4, <3>4 DEF Transits, Working
      <4>2. Installing(u)' => \A q \in Others(u) : ~Downloading(q)
        BY <2>2, <2>4, <3>4 DEF Transits, Working
      <4> QED
        BY <3>1, <3>3, <4>1, <4>2 DEF Apart, Others
    <3>6. ASSUME NEW q \in Updaters, q # u PROVE Shape(q)'
      <4>1. q \in Others(u) /\ q \in Procs
        BY <3>6 DEF Others, Procs
      <4>2. CASE Working(u)
        <5>1. ~Working(q)'
          BY <3>3, <3>4, <4>1, <4>2 DEF Working
        <5>2. /\ pc'[q] = pc[q] /\ phase'[q] = phase[q]
          BY <2>2, <3>6, <4>1 DEF Transits
        <5> QED
          BY <1>0, <5>1 DEF TypeInv, TypeOK, Working, Downloading, Installing, Recovering,
             Swapping, Shape, SwapShape, RollbackShape, PartShape, Procs
      <4>3. CASE ~Working(u)
        <5>1. UNCHANGED <<swapVars, stageVars, windows>> /\ Shape(q)
          BY <2>2, <3>1, <4>3 DEF Transits, LocalInv
        <5> QED
          BY <2>2, <3>6, <4>1, <5>1 DEF Transits, swapVars, stageVars, Shape, SwapShape,
             RollbackShape, PartShape, Staged
      <4> QED
        BY <4>2, <4>3
    <3> QED
      BY <3>2, <3>5, <3>6 DEF LocalInv
  <2> QED
    BY <2>3, <2>4 DEF SwapInv
<1> QED
  BY <1>1, <1>2, <1>3 DEF Next, Procs, Acts

\* SwapInv holds in every reachable state.
LEMMA SwapInvariant == Spec => [](FloorInv /\ SwapInv)
<1>1. Init => SwapInv
  BY DEF Init, SwapInv, CheckersOnly, Apart, Downloading, Installing, Recovering, Swapping, FilesInv,
     Shape, SwapShape, RollbackShape, PartShape, Procs
<1>2. Init => FloorInv /\ SwapInv
  BY <1>1, FloorInit
<1>3. FloorInv /\ SwapInv /\ [Next]_vars => (FloorInv /\ SwapInv)'
  BY FloorStep, SwapStep
<1> QED
  BY <1>2, <1>3, PTL DEF Spec

-----------------------------------------------------------------------------
\* However many updaters take turns and whatever operation of a swap, of a recovery or
\* of a roll-back one of them dies in, until a download meets another run the previous
\* installation lies aside only while a journal names its replacement, beside a target
\* that is missing, unfinished or that replacement: recover_interrupted_swap() never
\* has to guess (lib.rs:2112).
THEOREM BackupsAreRecoverable == Spec => []BackupIsRecoverable
<1>1. SwapInv => BackupIsRecoverable
  BY DEF SwapInv, FilesInv, BackupIsRecoverable
<1> QED
  BY <1>1, SwapInvariant, PTL

\* However many updaters take turns, until a download meets another run a partial
\* download is kept only under the binding of its own release, through every crash of
\* download() and every removal it could not make (lib.rs:684).
THEOREM PartsAreBound == Spec => []PartIsBound
<1>1. SwapInv => PartIsBound
  BY DEF SwapInv, FilesInv, PartIsBound
<1> QED
  BY <1>1, SwapInvariant, PTL

\* What an updater reports when it returns is true of the files, by what its shape says
\* of the step before.
LEMMA ReturnsTruth ==
    ASSUME TypeInv, NEW u \in Updaters, LocalInv(u), Acts(u), pc[u] # "idle", pc'[u] = "idle"
    PROVE  Truthful(u)'
<1>0. u \in Procs
  BY DEF Procs
<1> USE <1>0 DEF Goto, swapVars, stageVars, procVars, TypeInv, TypeOK, AuthKnown, Truthful
<1>1. CASE RolledBack(u)
  BY <1>1 DEF RolledBack, Return, LocalInv, Shape, RollbackShape
<1>2. CASE RestoreFails(u)
  BY <1>2 DEF RestoreFails, Return, LocalInv, FilesInv, Shape, RollbackShape
<1>3. CASE FinishSwap(u)
  BY <1>3 DEF FinishSwap, Return, LocalInv, Shape, SwapShape
<1>4. CASE Stop(u) \/ FinishCheck(u) \/ RecoverSwap(u) \/ DropBinding(u) \/ Fetch(u) \/ Authorize(u)
  <2>1. outcome'[u] \in {"none", "error"}
    BY <1>4 DEF Stop, FinishCheck, RecoverSwap, DropBinding, Fetch, Authorize, Return
  <2> QED
    BY <2>1
<1>5. CASE PruneFloor(u) \/ RemoveTarget(u) \/ RestoreBackup(u) \/ DiscardFound(u) \/ DropJournal(u)
           \/ Repaired(u) \/ Bind(u) \/ WriteBinding(u) \/ Verify(u)
  BY <1>5 DEF PruneFloor, RemoveTarget, RestoreBackup, DiscardFound, DropJournal, Repaired, Bind,
     WriteBinding, Verify
<1>6. CASE WriteJournal(u) \/ MoveAside(u) \/ MoveAsideFails(u) \/ RenameIntoPlace(u) \/ CreateTarget(u)
           \/ CopyTarget(u) \/ PlaceFails(u) \/ DiscardBackup(u) \/ Unstage(u) \/ Unbind(u)
  BY <1>6 DEF WriteJournal, MoveAside, MoveAsideFails, RenameIntoPlace, CreateTarget, CopyTarget,
     PlaceFails, Rollback, DiscardBackup, Unstage, Unbind
<1>7. \A m \in Manifests : ~AcceptManifest(u, m)
  BY DEF AcceptManifest
<1> HIDE DEF Goto, swapVars, stageVars, procVars, TypeInv, TypeOK, AuthKnown, Truthful
<1> QED
  BY <1>1, <1>2, <1>3, <1>4, <1>5, <1>6, <1>7 DEF Acts, Check, Recover, Download, Install

\* However many updaters take turns, until a download meets another run what install()
\* reports is true of the files it leaves (lib.rs:849).
THEOREM OutcomesAreTrue == Spec => OutcomeIsTrue
<1>1. FloorInv /\ SwapInv /\ [Next]_vars =>
        [\A p \in Updaters :
            ~disturbed /\ pc[p] # "idle" /\ pc'[p] = "idle" => Truthful(p)']_vars
  <2> SUFFICES ASSUME FloorInv, SwapInv, [Next]_vars, NEW u \in Updaters, ~disturbed,
                      pc[u] # "idle", pc'[u] = "idle"
               PROVE  Truthful(u)'
    OBVIOUS
  <2>1. TypeInv /\ LocalInv(u) /\ u \in Procs
    BY DEF FloorInv, SwapInv, LocalInv, Procs
  <2>2. ASSUME NEW p \in Procs, Acts(p), p \in Updaters \/ Check(p) \/ Stop(p) PROVE p = u
    <3>1. p \in Updaters \/ pc[p] \in {"idle", "prune"}
      BY DEF Procs, SwapInv, CheckersOnly
    <3>2. Transits(p)
      BY <2>1, <2>2, <3>1, Transition
    <3> QED
      BY <2>1, <3>2 DEF Transits
  <2>3. ~(UNCHANGED vars)
    BY DEF vars
  <2>4. Acts(u)
    BY <2>2, <2>3 DEF Next, Acts, Procs
  <2> QED
    BY <2>1, <2>4, ReturnsTruth
<1> QED
  BY <1>1, SwapInvariant, PTL DEF Spec, OutcomeIsTrue
=============================================================================
