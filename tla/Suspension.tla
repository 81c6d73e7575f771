---------------------------- MODULE Suspension ----------------------------
(***************************************************************************)
(* The cooperative host-suspension handshake of claw-runtime               *)
(* (crates/claw-runtime/src/suspend.rs).                                   *)
(*                                                                         *)
(* A host asks the runtime to quiesce (prepare): new work is refused, the  *)
(* work in flight drains, and the host receives a lease it must present to *)
(* resume.  The controller is one mutex-protected record plus a Notify;    *)
(* every action below is one critical section of that mutex, one Notify    *)
(* operation or one clock reading, so that permits, prepares, drops and    *)
(* the clock interleave as they do on a multi-threaded executor.           *)
(***************************************************************************)
EXTENDS Integers, FiniteSets

CONSTANTS
    Workers,        \* units of work, each holding at most one WorkPermit
    Hosts,          \* concurrent callers of prepare()
    LeaseIds,       \* lease identifiers hosts may present
    Durations,      \* drain timeouts and lease ttls a request may carry
    MaxTimestamp    \* the largest representable Timestamp; bounds the clock

ASSUME WorkersFinite == IsFiniteSet(Workers)
ASSUME TimeAssumption == MaxTimestamp \in Nat /\ Durations \subseteq Nat

VARIABLES
    phase,      \* ControllerState::phase
    inFlight,   \* ControllerState::in_flight
    lease,      \* ControllerState::lease
    now,        \* what ClockPort::now() returns
    worker,     \* where each unit of work stands
    call        \* where each prepare() call stands, with its locals

vars == <<phase, inFlight, lease, now, worker, call>>

SuspensionPhase == {"Active", "Draining", "Suspended"}

Time == 0..MaxTimestamp

SuspendLease == [id : LeaseIds, expires : Time]

NoLease == [id |-> "none", expires |-> -1]

(* "notify": the permit has left the count, notify_waiters() is still due. *)
WorkerState == {"idle", "working", "notify"}

(* The awaits and critical sections of prepare() and wait_for_drain():     *)
(*   locking  - deadlines computed from one clock reading, lock not taken  *)
(*   enable   - about to register the Notified future                      *)
(*   check    - registered, about to read the count                        *)
(*   select   - work was in flight, the select! is not polled yet          *)
(*   await    - suspended in select! over the wake-up and the deadline     *)
(*   drained, timedOut - wait_for_drain returned true or false, the guard  *)
(*              is disarmed, the lock not yet taken                          *)
PrepareStep ==
    {"idle", "locking", "enable", "check", "select", "await",
     "drained", "timedOut"}

(* The steps during which the call holds its DrainGuard transition.        *)
Armed == {"enable", "check", "select", "await", "drained", "timedOut"}

(* The steps during which the Notified future is registered.               *)
Registered == {"check", "select", "await"}

PrepareCall ==
    [step : PrepareStep, lease : SuspendLease \cup {NoLease},
     deadline : Time, woken : BOOLEAN]

NoCall ==
    [step |-> "idle", lease |-> NoLease, deadline |-> 0, woken |-> FALSE]

Init ==
    /\ phase = "Active"
    /\ inFlight = 0
    /\ lease = NoLease
    /\ now = 0
    /\ worker = [w \in Workers |-> "idle"]
    /\ call = [h \in Hosts |-> NoCall]

---------------------------------------------------------------------------
(* expire_locked: every operation first lets an expired lease self-resume. *)

Expired == phase = "Suspended" /\ now >= lease.expires

PhaseAfterExpiry == IF Expired THEN "Active" ELSE phase

LeaseAfterExpiry == IF Expired THEN NoLease ELSE lease

(* status(): reading the controller also expires the lease.                *)
Status ==
    /\ phase' = PhaseAfterExpiry
    /\ lease' = LeaseAfterExpiry
    /\ UNCHANGED <<inFlight, now, worker, call>>

---------------------------------------------------------------------------
(* Work permits.                                                           *)

(* Mutant: work is refused only once the runtime is suspended.             *)
AdmitWhileDraining(w) ==
    /\ worker[w] = "idle"
    /\ PhaseAfterExpiry # "Suspended"
    /\ phase' = PhaseAfterExpiry
    /\ lease' = LeaseAfterExpiry
    /\ inFlight' = inFlight + 1
    /\ worker' = [worker EXCEPT ![w] = "working"]
    /\ UNCHANGED <<now, call>>

(* admit(): counted only while the phase admits work.  A refusal leaves    *)
(* the state as it was (an expired lease always admits).                   *)
Admit(w) ==
    /\ worker[w] = "idle"
    /\ PhaseAfterExpiry = "Active"
    /\ phase' = "Active"
    /\ lease' = LeaseAfterExpiry
    /\ inFlight' = inFlight + 1
    /\ worker' = [worker EXCEPT ![w] = "working"]
    /\ UNCHANGED <<now, call>>

(* Mutant: the zero test reads the count before the decrement.             *)
DropPermitReadsStaleCount(w) ==
    /\ worker[w] = "working"
    /\ inFlight' = IF inFlight = 0 THEN 0 ELSE inFlight - 1
    /\ worker' = [worker EXCEPT ![w] =
                    IF inFlight = 0 THEN "notify" ELSE "idle"]
    /\ UNCHANGED <<phase, lease, now, call>>

(* WorkPermit::drop, under the lock: leave the count, remember whether it  *)
(* reached zero.                                                           *)
DropPermit(w) ==
    /\ worker[w] = "working"
    /\ inFlight' = IF inFlight = 0 THEN 0 ELSE inFlight - 1
    /\ worker' = [worker EXCEPT ![w] =
                    IF inFlight' = 0 THEN "notify" ELSE "idle"]
    /\ UNCHANGED <<phase, lease, now, call>>

(* Mutant: without enable() a future is registered only once it is polled. *)
NotifyPolledOnly(w) ==
    /\ worker[w] = "notify"
    /\ worker' = [worker EXCEPT ![w] = "idle"]
    /\ call' = [h \in Hosts |->
                  IF call[h].step = "await"
                    THEN [call[h] EXCEPT !.woken = TRUE]
                    ELSE call[h]]
    /\ UNCHANGED <<phase, inFlight, lease, now>>

(* WorkPermit::drop, after the unlock: notify_waiters() wakes exactly the  *)
(* futures registered by now.                                              *)
NotifyDrained(w) ==
    /\ worker[w] = "notify"
    /\ worker' = [worker EXCEPT ![w] = "idle"]
    /\ call' = [h \in Hosts |->
                  IF call[h].step \in Registered
                    THEN [call[h] EXCEPT !.woken = TRUE]
                    ELSE call[h]]
    /\ UNCHANGED <<phase, inFlight, lease, now>>

---------------------------------------------------------------------------
(* prepare().                                                              *)

(* Both deadlines come from one clock reading taken before the lock; a     *)
(* deadline beyond MaxTimestamp is refused as DeadlineOverflow.            *)
Prepare(h) ==
    /\ call[h].step = "idle"
    /\ \E id \in LeaseIds, drain \in Durations, ttl \in Durations :
          /\ now + drain <= MaxTimestamp
          /\ now + ttl <= MaxTimestamp
          /\ call' = [call EXCEPT ![h] =
                        [step |-> "locking",
                         lease |-> [id |-> id, expires |-> now + ttl],
                         deadline |-> now + drain, woken |-> FALSE]]
    /\ UNCHANGED <<phase, inFlight, lease, now, worker>>

(* Under the lock: DrainGuard::arm moves an active controller to Draining. *)
ArmDrain(h) ==
    /\ call[h].step = "locking"
    /\ PhaseAfterExpiry = "Active"
    /\ phase' = "Draining"
    /\ lease' = call[h].lease
    /\ call' = [call EXCEPT ![h].step = "enable"]
    /\ UNCHANGED <<inFlight, now, worker>>

(* Under the lock: AlreadyDraining or AlreadySuspended.                    *)
RefusePrepare(h) ==
    /\ call[h].step = "locking"
    /\ PhaseAfterExpiry # "Active"
    /\ call' = [call EXCEPT ![h] = NoCall]
    /\ UNCHANGED <<phase, inFlight, lease, now, worker>>

(* wait_for_drain: register the Notified future, then read the count.      *)
EnableWake(h) ==
    /\ call[h].step = "enable"
    /\ call' = [call EXCEPT ![h].step = "check", ![h].woken = FALSE]
    /\ UNCHANGED <<phase, inFlight, lease, now, worker>>

CheckDrained(h) ==
    /\ call[h].step = "check"
    /\ call' = [call EXCEPT ![h].step =
                  IF inFlight = 0 THEN "drained" ELSE "select"]
    /\ UNCHANGED <<phase, inFlight, lease, now, worker>>

PollSelect(h) ==
    /\ call[h].step = "select"
    /\ call' = [call EXCEPT ![h].step = "await"]
    /\ UNCHANGED <<phase, inFlight, lease, now, worker>>

(* The wake-up arm, tried first: the select! is biased.                    *)
WakeUp(h) ==
    /\ call[h].step = "await"
    /\ call[h].woken
    /\ call' = [call EXCEPT ![h].step =
                  IF inFlight = 0 THEN "drained" ELSE "enable"]
    /\ UNCHANGED <<phase, inFlight, lease, now, worker>>

(* Mutant: no deadline, the drain waits for the work alone.                *)
DrainDeadlineNever(h) == FALSE

(* The deadline arm: sleep_until(deadline) elapsed.                        *)
DrainDeadline(h) ==
    /\ call[h].step = "await"
    /\ ~call[h].woken
    /\ now >= call[h].deadline
    /\ call' = [call EXCEPT ![h].step =
                  IF inFlight = 0 THEN "drained" ELSE "timedOut"]
    /\ UNCHANGED <<phase, inFlight, lease, now, worker>>

(* The guard is disarmed and the outcome installed under the lock.         *)
Decide(h) ==
    /\ call[h].step \in {"drained", "timedOut"}
    /\ IF call[h].step = "drained"
         THEN phase' = "Suspended" /\ lease' = lease
         ELSE phase' = "Active" /\ lease' = NoLease
    /\ call' = [call EXCEPT ![h] = NoCall]
    /\ UNCHANGED <<inFlight, now, worker>>

(* Mutant: a future dropped without a guard leaves its transition behind.  *)
DropPrepareUnguarded(h) ==
    /\ call[h].step = "await"
    /\ call' = [call EXCEPT ![h] = NoCall]
    /\ UNCHANGED <<phase, lease, inFlight, now, worker>>

(* The caller drops the prepare() future at its await: DrainGuard::drop    *)
(* rolls back the transition if it still owns it.                          *)
DropPrepare(h) ==
    /\ call[h].step = "await"
    /\ IF phase = "Draining" /\ lease.id = call[h].lease.id
         THEN phase' = "Active" /\ lease' = NoLease
         ELSE UNCHANGED <<phase, lease>>
    /\ call' = [call EXCEPT ![h] = NoCall]
    /\ UNCHANGED <<inFlight, now, worker>>

(* resume(): only an unexpired suspension, only with its own lease; a      *)
(* refusal changes nothing but an expiry, which Status covers.             *)
Resume(id) ==
    /\ PhaseAfterExpiry = "Suspended"
    /\ lease.id = id
    /\ phase' = "Active"
    /\ lease' = NoLease
    /\ UNCHANGED <<inFlight, now, worker, call>>

Tick ==
    /\ now < MaxTimestamp
    /\ now' = now + 1
    /\ UNCHANGED <<phase, inFlight, lease, worker, call>>

---------------------------------------------------------------------------
Poll(h) ==
    \/ ArmDrain(h) \/ RefusePrepare(h) \/ EnableWake(h) \/ CheckDrained(h)
    \/ PollSelect(h) \/ WakeUp(h) \/ DrainDeadline(h) \/ Decide(h)

Next ==
    \/ \E w \in Workers : Admit(w) \/ DropPermit(w) \/ NotifyDrained(w)
    \/ \E h \in Hosts : Prepare(h) \/ Poll(h) \/ DropPrepare(h)
    \/ \E id \in LeaseIds : Resume(id)
    \/ Status
    \/ Tick

Spec == Init /\ [][Next]_vars

(* A prepare() future that can make progress is polled, and a permit whose *)
(* drop began completes it.  Nothing obliges work to finish, and the clock *)
(* is not assumed to advance.                                              *)
PollFairness ==
    /\ \A h \in Hosts : WF_vars(Poll(h))
    /\ \A w \in Workers : WF_vars(NotifyDrained(w))

WakeSpec == Spec /\ PollFairness

---------------------------------------------------------------------------
(* Properties.                                                             *)

(* Types; deadlines and lease ends stay within the representable time.     *)
TypeOK ==
    /\ phase \in SuspensionPhase
    /\ inFlight \in Nat
    /\ lease \in SuspendLease \cup {NoLease}
    /\ now \in Time
    /\ worker \in [Workers -> WorkerState]
    /\ call \in [Hosts -> PrepareCall]

(* A suspended runtime is quiescent: while the host holds the lease no     *)
(* unit of work holds a permit, although the count is read and the phase   *)
(* is set in two different critical sections of prepare().                 *)
SuspendedIsQuiescent ==
    phase = "Suspended" => \A w \in Workers : worker[w] # "working"

(* in_flight counts exactly the permits outstanding, so neither a lost     *)
(* decrement can block suspension for ever nor a double one admit work     *)
(* into a drained runtime.                                                 *)
CountIsExact ==
    inFlight = Cardinality({w \in Workers : worker[w] = "working"})

(* The Draining phase always belongs to exactly one live prepare() call,   *)
(* whose lease is the one installed: a runtime is never left refusing work *)
(* by a call that timed out, was dropped or was refused.                   *)
DrainIsOwned ==
    /\ phase = "Draining" <=> \E h \in Hosts : call[h].step \in Armed
    /\ \A g, h \in Hosts :
          call[g].step \in Armed /\ call[h].step \in Armed => g = h
    /\ \A h \in Hosts : call[h].step \in Armed => lease = call[h].lease

(* The lease is present exactly while a suspension is being prepared or    *)
(* held; an active runtime carries none.                                   *)
LeaseMatchesPhase == phase = "Active" <=> lease = NoLease

(* A prepare() asleep in select! over a drained runtime has its wake-up    *)
(* delivered or on the way: the permit drop between the read of the count  *)
(* and the await is never missed.                                          *)
NoMissedWakeup ==
    \A h \in Hosts :
        call[h].step \in {"select", "await"} /\ inFlight = 0 /\ ~call[h].woken
            => \E w \in Workers : worker[w] = "notify"

(* A drain whose deadline has passed ends even when the work it waits for  *)
(* never does: prepare() gives up or suspends, and the runtime is released.*)
DrainEnds ==
    \A h \in Hosts :
        call[h].step \in Armed /\ now >= call[h].deadline ~> call[h].step \notin Armed

(* Once the work is gone the drain ends without help from the clock: the   *)
(* registered wake-up alone is enough.                                     *)
DrainedRuntimeSuspends ==
    phase = "Draining" /\ inFlight = 0 ~> phase # "Draining"
=============================================================================
