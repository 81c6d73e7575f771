------------------------- MODULE SuspensionProofs -------------------------
(***************************************************************************)
(* Proofs, for any number of workers and hosts, any lease identifiers,     *)
(* durations and clock range, that the suspension handshake is sound: a    *)
(* suspended runtime is quiescent, Draining is always owned by one live    *)
(* prepare() and no wake-up is missed.                                     *)
(*                                                                         *)
(* SuspendedIsQuiescent is not inductive: the count is read in one         *)
(* critical section of prepare() and the phase is set in a later one.      *)
(* HInv carries what must hold in between: a call that decided "drained"   *)
(* keeps the count at zero, because it still owns the Draining phase and   *)
(* that phase admits nothing.                                              *)
(***************************************************************************)
EXTENDS Suspension, FiniteSetTheorems, TLAPS

Working == {w \in Workers : worker[w] = "working"}

DrainedStaysDrained ==
    /\ phase = "Suspended" => inFlight = 0
    /\ \A h \in Hosts : call[h].step = "drained" => inFlight = 0

CallsCarryLeases ==
    \A h \in Hosts : call[h].step # "idle" => call[h].lease \in SuspendLease

HInv ==
    /\ TypeOK
    /\ CountIsExact
    /\ DrainIsOwned
    /\ LeaseMatchesPhase
    /\ NoMissedWakeup
    /\ DrainedStaysDrained
    /\ CallsCarryLeases

(* No lease a request can carry is the absent lease.                       *)
LEMMA NoLeaseIsNotALease == NoLease \notin SuspendLease
  BY TimeAssumption DEF NoLease, SuspendLease, Time

(* The initial controller, active and empty, satisfies the invariant.      *)
LEMMA InitHInv == Init => HInv
<1> SUFFICES ASSUME Init PROVE HInv
  OBVIOUS
<1>1. TypeOK
  BY TimeAssumption DEF Init, TypeOK, SuspensionPhase, Time, WorkerState, PrepareCall,
     NoCall, PrepareStep
<1>2. CountIsExact
  <2>1. {w \in Workers : worker[w] = "working"} = {}
    BY DEF Init
  <2> QED BY <2>1, FS_EmptySet DEF Init, CountIsExact
<1> QED
  BY <1>1, <1>2 DEF Init, HInv, DrainIsOwned, LeaseMatchesPhase, NoMissedWakeup,
     DrainedStaysDrained, CallsCarryLeases, NoCall, Armed

(* Every step keeps the types.                                             *)
LEMMA TypeStep == TypeOK /\ [Next]_vars => TypeOK'
<1> SUFFICES ASSUME TypeOK, [Next]_vars PROVE TypeOK'
  OBVIOUS
<1> USE TimeAssumption DEF TypeOK
<1>1. ASSUME NEW w \in Workers, Admit(w) PROVE TypeOK'
  BY <1>1 DEF Admit, SuspensionPhase, LeaseAfterExpiry, WorkerState
<1>2. ASSUME NEW w \in Workers, DropPermit(w) PROVE TypeOK'
  BY <1>2 DEF DropPermit, WorkerState
<1>3. ASSUME NEW w \in Workers, NotifyDrained(w) PROVE TypeOK'
  BY <1>3 DEF NotifyDrained, WorkerState, PrepareCall
<1>4. ASSUME NEW h \in Hosts, Prepare(h) PROVE TypeOK'
  BY <1>4 DEF Prepare, PrepareCall, PrepareStep, SuspendLease, Time
<1>5. ASSUME NEW h \in Hosts, Poll(h) PROVE TypeOK'
  <2>1. CASE ArmDrain(h)
    BY <2>1 DEF ArmDrain, SuspensionPhase, PrepareCall, PrepareStep
  <2>2. CASE RefusePrepare(h)
    BY <2>2 DEF RefusePrepare, NoCall, PrepareCall, PrepareStep, Time
  <2>3. CASE EnableWake(h)
    <3>1. [call[h] EXCEPT !.step = "check", !.woken = FALSE] \in PrepareCall
      BY DEF PrepareCall, PrepareStep
    <3>2. call' = [call EXCEPT ![h] = [call[h] EXCEPT !.step = "check", !.woken = FALSE]]
      BY <2>3 DEF EnableWake
    <3> QED
      BY <2>3, <3>1, <3>2 DEF EnableWake
  <2>4. CASE CheckDrained(h)
    BY <2>4 DEF CheckDrained, PrepareCall, PrepareStep
  <2>4a. CASE PollSelect(h)
    BY <2>4a DEF PollSelect, PrepareCall, PrepareStep
  <2>5. CASE WakeUp(h)
    BY <2>5 DEF WakeUp, PrepareCall, PrepareStep
  <2>6. CASE DrainDeadline(h)
    BY <2>6 DEF DrainDeadline, PrepareCall, PrepareStep
  <2>7. CASE Decide(h)
    BY <2>7 DEF Decide, NoCall, PrepareCall, PrepareStep, Time, SuspensionPhase
  <2> QED BY <1>5, <2>1, <2>2, <2>3, <2>4, <2>4a, <2>5, <2>6, <2>7 DEF Poll
<1>6. ASSUME NEW h \in Hosts, DropPrepare(h) PROVE TypeOK'
  BY <1>6 DEF DropPrepare, NoCall, PrepareCall, PrepareStep, Time, SuspensionPhase
<1>7. ASSUME NEW id \in LeaseIds, Resume(id) PROVE TypeOK'
  BY <1>7 DEF Resume, SuspensionPhase
<1>8. CASE Status
  BY <1>8 DEF Status, PhaseAfterExpiry, LeaseAfterExpiry, SuspensionPhase
<1>9. CASE Tick
  BY <1>9 DEF Tick, Time
<1>10. CASE UNCHANGED vars
  BY <1>10 DEF vars
<1> QED
  BY <1>1, <1>2, <1>3, <1>4, <1>5, <1>6, <1>7, <1>8, <1>9, <1>10 DEF Next

(* The count follows the permits: it changes exactly in Admit and in       *)
(* WorkPermit::drop, by the one permit each of them moves.                 *)
LEMMA CountStep == TypeOK /\ CountIsExact /\ [Next]_vars => CountIsExact'
<1> SUFFICES ASSUME TypeOK, CountIsExact, [Next]_vars PROVE CountIsExact'
  OBVIOUS
<1>0. IsFiniteSet(Working) /\ inFlight = Cardinality(Working) /\ inFlight \in Nat
  BY WorkersFinite, FS_Subset, FS_CardinalityType DEF Working, CountIsExact
<1>1. ASSUME NEW w \in Workers, Admit(w) PROVE CountIsExact'
  <2>1. Working' = Working \cup {w} /\ w \notin Working
    BY <1>1 DEF Admit, Working, TypeOK
  <2>2. Cardinality(Working') = Cardinality(Working) + 1
    BY <1>0, <2>1, FS_AddElement
  <2> QED BY <1>0, <1>1, <2>2 DEF Admit, CountIsExact, Working
<1>2. ASSUME NEW w \in Workers, DropPermit(w) PROVE CountIsExact'
  <2>1. Working' = Working \ {w} /\ w \in Working
    BY <1>2 DEF DropPermit, Working, TypeOK
  <2>2. Cardinality(Working') = Cardinality(Working) - 1
    BY <1>0, <2>1, FS_RemoveElement
  <2>3. inFlight # 0
    BY <1>0, <2>1, FS_EmptySet
  <2> QED BY <1>0, <1>2, <2>2, <2>3 DEF DropPermit, CountIsExact, Working
<1>3. ASSUME inFlight' = inFlight,
             \A w \in Workers : worker'[w] = "working" <=> worker[w] = "working"
      PROVE  CountIsExact'
  <2>1. Working' = Working
    BY <1>3 DEF Working
  <2> QED BY <1>0, <1>3, <2>1 DEF CountIsExact, Working
<1>4. ASSUME NEW w \in Workers, NotifyDrained(w) PROVE CountIsExact'
  BY <1>3, <1>4 DEF NotifyDrained, TypeOK
<1>5. CASE worker' = worker /\ inFlight' = inFlight
  BY <1>3, <1>5
<1>6. ASSUME NEW h \in Hosts, Prepare(h) \/ Poll(h) \/ DropPrepare(h)
      PROVE  CountIsExact'
  BY <1>5, <1>6 DEF Prepare, Poll, DropPrepare, ArmDrain, RefusePrepare, EnableWake,
     CheckDrained, PollSelect, WakeUp, DrainDeadline, Decide
<1> QED
  BY <1>1, <1>2, <1>4, <1>5, <1>6 DEF Next, vars, Resume, Status, Tick

(* Every step keeps the whole invariant.                                   *)
LEMMA HInvStep == HInv /\ [Next]_vars => HInv'
<1> SUFFICES ASSUME HInv, [Next]_vars PROVE HInv'
  OBVIOUS
<1>0. TypeOK' /\ CountIsExact'
  BY TypeStep, CountStep DEF HInv
<1> USE <1>0, NoLeaseIsNotALease
<1> DEFINE Rest == DrainIsOwned /\ LeaseMatchesPhase /\ NoMissedWakeup
                   /\ DrainedStaysDrained /\ CallsCarryLeases
<1> USE DEF HInv
<1>1. ASSUME NEW w \in Workers, Admit(w) PROVE Rest'
  BY <1>1 DEF Admit, PhaseAfterExpiry, LeaseAfterExpiry, Expired, TypeOK,
     DrainIsOwned, LeaseMatchesPhase, NoMissedWakeup, DrainedStaysDrained, CallsCarryLeases, Armed
<1>2. ASSUME NEW w \in Workers, DropPermit(w) PROVE Rest'
  BY <1>2 DEF DropPermit, TypeOK,
     DrainIsOwned, LeaseMatchesPhase, NoMissedWakeup, DrainedStaysDrained, CallsCarryLeases
<1>3. ASSUME NEW w \in Workers, NotifyDrained(w) PROVE Rest'
  <2>1. \A h \in Hosts : /\ call'[h].step = call[h].step
                         /\ call'[h].lease = call[h].lease
                         /\ call[h].step \in {"select", "await"} => call'[h].woken
    BY <1>3 DEF NotifyDrained, TypeOK, PrepareCall, Registered
  <2> QED
    BY <1>3, <2>1 DEF NotifyDrained, TypeOK,
     DrainIsOwned, LeaseMatchesPhase, NoMissedWakeup, DrainedStaysDrained, CallsCarryLeases
<1>4. ASSUME NEW h \in Hosts, Prepare(h) PROVE Rest'
  BY <1>4, TimeAssumption DEF Prepare, TypeOK, SuspendLease, Time, PrepareCall,
     DrainIsOwned, LeaseMatchesPhase, NoMissedWakeup, DrainedStaysDrained, CallsCarryLeases, Armed
<1>5. ASSUME NEW h \in Hosts, Poll(h) PROVE Rest'
  <2>1. CASE ArmDrain(h)
    BY <2>1 DEF ArmDrain, PhaseAfterExpiry, Expired, TypeOK, PrepareCall,
       DrainIsOwned, LeaseMatchesPhase, NoMissedWakeup, DrainedStaysDrained, CallsCarryLeases, Armed
  <2>2. CASE RefusePrepare(h)
    BY <2>2 DEF RefusePrepare, NoCall, TypeOK, PrepareCall,
       DrainIsOwned, LeaseMatchesPhase, NoMissedWakeup, DrainedStaysDrained, CallsCarryLeases, Armed
  <2>3. CASE EnableWake(h)
    BY <2>3 DEF EnableWake, TypeOK, PrepareCall,
       DrainIsOwned, LeaseMatchesPhase, NoMissedWakeup, DrainedStaysDrained, CallsCarryLeases, Armed
  <2>4. CASE CheckDrained(h)
    BY <2>4 DEF CheckDrained, TypeOK, PrepareCall,
       DrainIsOwned, LeaseMatchesPhase, NoMissedWakeup, DrainedStaysDrained, CallsCarryLeases, Armed
  <2>4a. CASE PollSelect(h)
    BY <2>4a DEF PollSelect, TypeOK, PrepareCall,
       DrainIsOwned, LeaseMatchesPhase, NoMissedWakeup, DrainedStaysDrained, CallsCarryLeases, Armed
  <2>5. CASE WakeUp(h)
    BY <2>5 DEF WakeUp, TypeOK, PrepareCall,
       DrainIsOwned, LeaseMatchesPhase, NoMissedWakeup, DrainedStaysDrained, CallsCarryLeases, Armed
  <2>6. CASE DrainDeadline(h)
    BY <2>6 DEF DrainDeadline, TypeOK, PrepareCall,
       DrainIsOwned, LeaseMatchesPhase, NoMissedWakeup, DrainedStaysDrained, CallsCarryLeases, Armed
  <2>7. CASE Decide(h)
    BY <2>7 DEF Decide, NoCall, TypeOK, PrepareCall,
       DrainIsOwned, LeaseMatchesPhase, NoMissedWakeup, DrainedStaysDrained, CallsCarryLeases, Armed
  <2> QED BY <1>5, <2>1, <2>2, <2>3, <2>4, <2>4a, <2>5, <2>6, <2>7 DEF Poll
<1>6. ASSUME NEW h \in Hosts, DropPrepare(h) PROVE Rest'
  BY <1>6 DEF DropPrepare, NoCall, TypeOK, PrepareCall,
     DrainIsOwned, LeaseMatchesPhase, NoMissedWakeup, DrainedStaysDrained, CallsCarryLeases, Armed
<1>7. ASSUME NEW id \in LeaseIds, Resume(id) PROVE Rest'
  BY <1>7 DEF Resume, PhaseAfterExpiry, Expired, TypeOK,
     DrainIsOwned, LeaseMatchesPhase, NoMissedWakeup, DrainedStaysDrained, CallsCarryLeases
<1>8. CASE Status
  BY <1>8 DEF Status, PhaseAfterExpiry, LeaseAfterExpiry, Expired, TypeOK,
     DrainIsOwned, LeaseMatchesPhase, NoMissedWakeup, DrainedStaysDrained, CallsCarryLeases
<1>9. CASE Tick
  BY <1>9 DEF Tick, DrainIsOwned, LeaseMatchesPhase, NoMissedWakeup, DrainedStaysDrained,
     CallsCarryLeases
<1>10. CASE UNCHANGED vars
  BY <1>10 DEF vars, DrainIsOwned, LeaseMatchesPhase, NoMissedWakeup, DrainedStaysDrained,
     CallsCarryLeases
<1> QED
  BY <1>1, <1>2, <1>3, <1>4, <1>5, <1>6, <1>7, <1>8, <1>9, <1>10 DEF Next

(* The invariant of the suspension controller holds in every reachable     *)
(* state.                                                                  *)
THEOREM SuspensionInvariant == Spec => []HInv
  BY InitHInv, HInvStep, PTL DEF Spec

(* The types hold; no deadline leaves the representable time.              *)
THEOREM SuspensionTypes == Spec => []TypeOK
<1>1. HInv => TypeOK
  BY DEF HInv
<1> QED BY <1>1, SuspensionInvariant, PTL

(* in_flight counts exactly the permits outstanding.                       *)
THEOREM PermitsAreCounted == Spec => []CountIsExact
<1>1. HInv => CountIsExact
  BY DEF HInv
<1> QED BY <1>1, SuspensionInvariant, PTL

(* A suspended runtime has no unit of work holding a permit.               *)
THEOREM SuspensionIsQuiescent == Spec => []SuspendedIsQuiescent
<1>1. HInv => SuspendedIsQuiescent
  <2> SUFFICES ASSUME HInv, phase = "Suspended"
               PROVE  \A w \in Workers : worker[w] # "working"
    BY DEF SuspendedIsQuiescent
  <2>1. IsFiniteSet(Working) /\ Cardinality(Working) = 0
    BY WorkersFinite, FS_Subset DEF Working, HInv, CountIsExact, DrainedStaysDrained
  <2>2. Working = {}
    BY <2>1, FS_EmptySet
  <2> QED BY <2>2 DEF Working
<1> QED BY <1>1, SuspensionInvariant, PTL

(* Draining is always owned by exactly one live prepare() call.            *)
THEOREM DrainingIsOwned == Spec => []DrainIsOwned
<1>1. HInv => DrainIsOwned
  BY DEF HInv
<1> QED BY <1>1, SuspensionInvariant, PTL

(* A prepare() asleep over a drained runtime has its wake-up delivered or  *)
(* on the way.                                                             *)
THEOREM WakeupIsNeverMissed == Spec => []NoMissedWakeup
<1>1. HInv => NoMissedWakeup
  BY DEF HInv
<1> QED BY <1>1, SuspensionInvariant, PTL
=============================================================================
