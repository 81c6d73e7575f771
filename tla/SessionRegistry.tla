-------------------------- MODULE SessionRegistry --------------------------
(***************************************************************************)
(* The conversation registry of claw-runtime and the operations that share *)
(* it (crates/claw-runtime/src/runtime.rs): submit, the turn task with its *)
(* LiveTurnGuard, the idle sweep, LRU eviction, destroy_session,           *)
(* reload_sessions and shutdown.                                           *)
(*                                                                         *)
(* The registry is one mutex; remembered approvals live behind the         *)
(* broker's mutex and are forgotten after the registry is unlocked.  Every *)
(* action is one critical section, one await or one token operation, so    *)
(* the operations interleave as on the daemon's multi-threaded executor.   *)
(*                                                                         *)
(* Data left out: what a turn computes (it runs, may remember approvals    *)
(* and ends or is stuck), so that cancelling its token changes nothing     *)
(* here: it may notice and end at any time, or never; the pinned model's   *)
(* name (select_model is its effect on the registry); absolute access      *)
(* orders (lru keeps each entry's place among them).                       *)
(***************************************************************************)
EXTENDS Integers, FiniteSets

CONSTANTS
    Sessions,       \* conversation identifiers
    Submits,        \* submit() calls; the turn each may start has its name
    Retirers,       \* destroy_session() and reload_sessions() calls
    Capacity,       \* most conversations the registry owns
    Ttl,            \* idle_ttl
    MaxTime,        \* bound on the clock
    WithShutdown,   \* whether the instance shuts the runtime down
    None

Sweeper == "sweeper"        \* one host thread: sweep_sessions(), select_model()
Shutdown == "shutdown"      \* the caller of shutdown()

Procs == Submits \cup Retirers \cup {Sweeper, Shutdown}

ASSUME ProcsAssumption ==
    Submits \cap Retirers = {} /\ {Sweeper, Shutdown} \cap (Submits \cup Retirers) = {}

ASSUME RegistryAssumption ==
    /\ Capacity \in Nat \ {0} /\ Ttl \in Nat /\ MaxTime \in Nat
    /\ WithShutdown \in BOOLEAN
    /\ IsFiniteSet(Sessions)

VARIABLES
    \* ConversationRegistry
    entries,        \* session -> ManagedConversation or None
    lru,            \* session -> its entry's place in the order of access_order:
                    \* 1 for the least recently accessed, 0 with no entry
    generation,
    \* ApprovalBroker::remembered, as far as ownership goes
    memory,
    \* submit() calls and their turn tasks
    pc, session, readGen, abort,
    permits,        \* suspension permits held
    finished,       \* LiveTurn::finished tokens fired
    tracked,        \* tasks in the TaskTracker
    \* sessions a caller removed and still has to forget_session()
    cleanup,
    \* destroy_session() and reload_sessions() calls
    rpc, idle, forgotten, active,
    victim,         \* the turn a retirement has aborted and waits for
    \* shutdown() and the clock
    down, now,
    lastReload      \* history: the generation installed by the last reload

registry == <<entries, lru, generation>>
turns == <<pc, session, readGen, abort, permits, finished, tracked>>
retirement == <<rpc, idle, forgotten, active, victim>>
vars == <<registry, memory, turns, cleanup, retirement, down, now, lastReload>>

---------------------------------------------------------------------------
ManagedConversation ==
    [lastAccess : 0..MaxTime, generation : Nat,
     live : Submits \cup {None}, retiring : BOOLEAN]

ASSUME NoneAssumption ==
    None \notin Submits /\ None \notin Sessions /\ None \notin ManagedConversation

(* Whose decisions the broker remembers for a session: nobody's, those of  *)
(* the conversation the registry owns, or those of one it no longer owns.  *)
Memory == {"none", "own", "stale"}

SubmitStep ==
    {"idle", "sweep", "generation", "loading", "recheck", "claim", "spawn",
     "running", "release", "retired", "permit", "signal", "ending",
     "done", "refused"}

(* TurnAbortState: nothing yet, handle stored, abort requested before the  *)
(* handle was stored, or the task told to abort.                           *)
AbortState == {"none", "installed", "requested", "fired"}

RetireStep == {"idle", "destroy", "clean", "joining", "aborting", "done"}

Owned == {s \in Sessions : entries[s] # None}

Init ==
    /\ entries = [s \in Sessions |-> None]
    /\ lru = [s \in Sessions |-> 0]
    /\ generation = 0
    /\ memory = [s \in Sessions |-> "none"]
    /\ pc = [u \in Submits |-> "idle"]
    /\ session = [u \in Submits |-> None]
    /\ readGen = [u \in Submits |-> 0]
    /\ abort = [u \in Submits |-> "none"]
    /\ permits = {} /\ finished = {} /\ tracked = {}
    /\ cleanup = [p \in Procs |-> {}]
    /\ rpc = [r \in Retirers |-> "idle"]
    /\ idle = [r \in Retirers |-> {}]
    /\ forgotten = [r \in Retirers |-> {}]
    /\ active = [r \in Retirers |-> {}]
    /\ victim = [r \in Retirers |-> None]
    /\ down = "up"
    /\ now = 0
    /\ lastReload = 0

---------------------------------------------------------------------------
(* Registry primitives, each used inside one critical section.             *)

ForgetOwnership(gone) ==
    [s \in Sessions |-> IF s \in gone /\ memory[s] = "own" THEN "stale" ELSE memory[s]]

(* sweep(): idle for strictly longer than the ttl.  A retiring entry is    *)
(* not exempt.                                                             *)
Expired ==
    {s \in Owned : entries[s].live = None /\ now > entries[s].lastAccess + Ttl}

(* The places of the entries in keep, in the given order of access.        *)
Ordered(order, keep) ==
    [s \in Sessions |->
       IF s \in keep THEN Cardinality({t \in keep : order[t] <= order[s]}) ELSE 0]

(* next_access(): s is now the most recently accessed entry of keep.       *)
Touched(keep, s) ==
    Ordered([lru EXCEPT ![s] = Cardinality(Sessions) + 1], keep \cup {s})

(* Removes the given entries; what they remembered is no longer owned.     *)
RemoveEntries(gone) ==
    /\ entries' = [s \in Sessions |-> IF s \in gone THEN None ELSE entries[s]]
    /\ lru' = Ordered(lru, Owned \ gone)
    /\ memory' = ForgetOwnership(gone)

(* Mutant: a busy conversation may be evicted.                             *)
EvictableBusy == {s \in Owned : ~entries[s].retiring}

(* make_room(): the least recently used idle entry that is not retiring.   *)
Evictable == {s \in Owned : entries[s].live = None /\ ~entries[s].retiring}

LeastRecent == CHOOSE s \in Evictable :
    \A t \in Evictable : lru[s] <= lru[t]

HasRoom(s) == s \in Owned \/ Cardinality(Owned) < Capacity \/ Evictable # {}

Evicted(s) ==
    IF s \in Owned \/ Cardinality(Owned) < Capacity THEN {} ELSE {LeastRecent}

(* Inserts or refreshes the entry of s after making room for it.           *)
UpdateEntry(s, gen, live) ==
    /\ entries' = [t \in Sessions |->
                     IF t = s THEN [lastAccess |-> now, generation |-> gen,
                                    live |-> live, retiring |-> FALSE]
                     ELSE IF t \in Evicted(s) THEN None ELSE entries[t]]
    /\ lru' = Touched(Owned \ Evicted(s), s)
    /\ memory' = ForgetOwnership(Evicted(s))

(* finish_retirement(): removes the tombstone it was started for.          *)
Removable(s, gen) ==
    /\ s \in Owned
    /\ entries[s].retiring /\ entries[s].live = None /\ entries[s].generation = gen

FinishRetirement(s, gen) == RemoveEntries(IF Removable(s, gen) THEN {s} ELSE {})

---------------------------------------------------------------------------
(* cleanup_sessions(): forget_session() for one removed session, outside   *)
(* the registry lock.                                                      *)
Cleanup(p, s) ==
    /\ s \in cleanup[p]
    /\ memory' = [memory EXCEPT ![s] = "none"]
    /\ cleanup' = [cleanup EXCEPT ![p] = @ \ {s}]
    /\ UNCHANGED <<registry, turns, retirement, down, now, lastReload>>

(* sweep_sessions() called by the host, or first by select_model().        *)
Sweep ==
    /\ cleanup[Sweeper] = {}
    /\ Expired # {}
    /\ RemoveEntries(Expired)
    /\ cleanup' = [cleanup EXCEPT ![Sweeper] = Expired]
    /\ UNCHANGED <<generation, turns, retirement, down, now, lastReload>>

(* Mutant: the conversation evicted for the new one is not cleaned up.     *)
SelectModelKeeps(s) ==
    /\ cleanup[Sweeper] = {}
    /\ s \in Owned => ~entries[s].retiring
    /\ HasRoom(s)
    /\ UpdateEntry(s, IF s \in Owned THEN entries[s].generation ELSE generation,
                   IF s \in Owned THEN entries[s].live ELSE None)
    /\ UNCHANGED <<generation, turns, cleanup, retirement, down, now, lastReload>>

(* select_model(), any time after its sweep, which is the action above:    *)
(* pins a model, creating the conversation if needed.  To an entry that    *)
(* exists the query model() does the same.                                 *)
SelectModel(s) ==
    /\ cleanup[Sweeper] = {}
    /\ s \in Owned => ~entries[s].retiring
    /\ HasRoom(s)
    /\ UpdateEntry(s, IF s \in Owned THEN entries[s].generation ELSE generation,
                   IF s \in Owned THEN entries[s].live ELSE None)
    /\ cleanup' = [cleanup EXCEPT ![Sweeper] = Evicted(s)]
    /\ UNCHANGED <<generation, turns, retirement, down, now, lastReload>>

---------------------------------------------------------------------------
(* submit_with().                                                          *)

Goto(u, step) == pc' = [pc EXCEPT ![u] = step]

(* The session and the generation of a call go out of scope with it.      *)
DropCall(u) ==
    /\ session' = [session EXCEPT ![u] = None]
    /\ readGen' = [readGen EXCEPT ![u] = 0]

(* Refused: the permit, if any, is dropped with the call.                  *)
Refuse(u) == Goto(u, "refused") /\ permits' = permits \ {u} /\ DropCall(u)

SubmitAdmitted(u, s) ==
    /\ pc[u] = "idle"
    /\ down = "up"
    /\ Goto(u, "sweep")
    /\ session' = [session EXCEPT ![u] = s]
    /\ permits' = permits \cup {u}
    /\ UNCHANGED <<registry, memory, readGen, abort, finished, tracked, cleanup,
                   retirement, down, now, lastReload>>

SubmitSweeps(u) ==
    /\ pc[u] = "sweep"
    /\ RemoveEntries(Expired)
    /\ cleanup' = [cleanup EXCEPT ![u] = Expired]
    /\ Goto(u, "generation")
    /\ UNCHANGED <<generation, session, readGen, abort, permits, finished,
                   tracked, retirement, down, now, lastReload>>

SubmitReadsGeneration(u) ==
    /\ pc[u] = "generation"
    /\ cleanup[u] = {}
    /\ readGen' = [readGen EXCEPT ![u] = generation]
    /\ Goto(u, "loading")
    /\ UNCHANGED <<registry, memory, session, abort, permits, finished, tracked,
                   cleanup, retirement, down, now, lastReload>>

(* load_session() and next_turn() are awaited here; they may fail, and the *)
(* caller may drop the future.                                             *)
SubmitLoads(u) ==
    /\ pc[u] = "loading"
    /\ \/ Goto(u, "recheck") /\ UNCHANGED <<permits, session, readGen>>
       \/ Refuse(u)
    /\ UNCHANGED <<registry, memory, abort, finished, tracked,
                   cleanup, retirement, down, now, lastReload>>

(* The second look at the shutdown token.                                  *)
SubmitRechecks(u) ==
    /\ pc[u] = "recheck"
    /\ IF down = "up" THEN Goto(u, "claim") /\ UNCHANGED <<permits, session, readGen>>
                      ELSE Refuse(u)
    /\ UNCHANGED <<registry, memory, abort, finished, tracked,
                   cleanup, retirement, down, now, lastReload>>

(* Mutant: the generation read before the await is not compared.           *)
ClaimableUnfenced(u) ==
    LET s == session[u]
    IN  /\ s \in Owned => ~entries[s].retiring /\ entries[s].live = None
        /\ HasRoom(s)

(* Whether claim() accepts: not fenced, not retiring, not busy, room left. *)
Claimable(u) ==
    LET s == session[u]
    IN  /\ readGen[u] = generation
        /\ s \in Owned => ~entries[s].retiring /\ entries[s].live = None
        /\ HasRoom(s)

Claim(u) ==
    /\ pc[u] = "claim"
    /\ IF Claimable(u)
         THEN /\ UpdateEntry(session[u], readGen[u], u)
              /\ cleanup' = [cleanup EXCEPT ![u] = Evicted(session[u])]
              /\ Goto(u, "spawn")
              /\ UNCHANGED <<permits, session, readGen>>
         ELSE /\ Refuse(u)
              /\ UNCHANGED <<entries, lru, memory, cleanup>>
    /\ UNCHANGED <<generation, abort, finished, tracked,
                   retirement, down, now, lastReload>>

(* tracker.spawn(): the guard moves into the tracked task.                 *)
Spawn(u) ==
    /\ pc[u] = "spawn"
    /\ cleanup[u] = {}
    /\ tracked' = tracked \cup {u}
    /\ Goto(u, "running")
    /\ UNCHANGED <<registry, memory, session, readGen, abort, permits, finished,
                   cleanup, retirement, down, now, lastReload>>

(* install_turn_abort(), after the task already runs.                      *)
InstallAbort(u) ==
    /\ u \in tracked
    /\ abort[u] \in {"none", "requested"}
    /\ abort' = [abort EXCEPT ![u] = IF @ = "requested" THEN "fired" ELSE "installed"]
    /\ UNCHANGED <<registry, memory, pc, session, readGen, permits, finished,
                   tracked, cleanup, retirement, down, now, lastReload>>

---------------------------------------------------------------------------
(* The turn task.                                                          *)

(* An operator answers one of its approvals "for this session".            *)
Remember(u) ==
    /\ pc[u] = "running"
    /\ memory' = [memory EXCEPT ![session[u]] = "own"]
    /\ UNCHANGED <<registry, turns, cleanup, retirement, down, now, lastReload>>

(* run() returned: completed, failed or noticed its cancellation.          *)
TurnEnds(u) ==
    /\ pc[u] = "running"
    /\ Goto(u, "release")
    /\ UNCHANGED <<registry, memory, session, readGen, abort, permits, finished,
                   tracked, cleanup, retirement, down, now, lastReload>>

(* The task was aborted: its future, and with it the guard, is dropped.    *)
TurnAborted(u) ==
    /\ pc[u] = "running"
    /\ abort[u] = "fired"
    /\ Goto(u, "release")
    /\ UNCHANGED <<registry, memory, session, readGen, abort, permits, finished,
                   tracked, cleanup, retirement, down, now, lastReload>>

(* LiveTurnGuard::drop, release(): under the lock, only its own turn.      *)
Release(u) ==
    LET s == session[u]
        mine == s \in Owned /\ entries[s].generation = readGen[u] /\ entries[s].live = u
        retiring == mine /\ entries[s].retiring
    IN  /\ pc[u] = "release"
        /\ IF mine
             THEN /\ entries' = [entries EXCEPT ![s].live = None, ![s].lastAccess = now]
                  /\ lru' = Touched(Owned, s)
             ELSE UNCHANGED <<entries, lru>>
        /\ cleanup' = [cleanup EXCEPT ![u] = IF retiring THEN {s} ELSE {}]
        /\ Goto(u, IF retiring THEN "retired" ELSE "permit")
        /\ UNCHANGED <<generation, memory, session, readGen, abort, permits,
                       finished, tracked, retirement, down, now, lastReload>>

(* ... then, for a retiring session, cleanup and finish_retirement().      *)
ReleaseRetired(u) ==
    /\ pc[u] = "retired"
    /\ cleanup[u] = {}
    /\ FinishRetirement(session[u], readGen[u])
    /\ Goto(u, "permit")
    /\ UNCHANGED <<generation, session, readGen, abort, permits, finished,
                   tracked, cleanup, retirement, down, now, lastReload>>

(* ... then the permit ...                                                 *)
ReleasePermit(u) ==
    /\ pc[u] = "permit"
    /\ permits' = permits \ {u}
    /\ Goto(u, "signal") /\ DropCall(u)
    /\ UNCHANGED <<registry, memory, abort, finished, tracked,
                   cleanup, retirement, down, now, lastReload>>

(* Mutant: the terminal signal may fire before the permit is released.     *)
SignalFinishedEarly(u) ==
    /\ pc[u] \in {"permit", "signal"}
    /\ finished' = finished \cup {u}
    /\ Goto(u, IF pc[u] = "permit" THEN "permit" ELSE "ending")
    /\ UNCHANGED <<registry, memory, session, readGen, abort, permits, tracked,
                   cleanup, retirement, down, now, lastReload>>

(* ... and only then the terminal signal.                                  *)
SignalFinished(u) ==
    /\ pc[u] = "signal"
    /\ finished' = finished \cup {u}
    /\ Goto(u, "ending")
    /\ UNCHANGED <<registry, memory, session, readGen, abort, permits, tracked,
                   cleanup, retirement, down, now, lastReload>>

TaskEnds(u) ==
    /\ pc[u] = "ending"
    /\ tracked' = tracked \ {u}
    /\ abort' = [abort EXCEPT ![u] = "none"]
    /\ Goto(u, "done")
    /\ UNCHANGED <<registry, memory, session, readGen, permits, finished,
                   cleanup, retirement, down, now, lastReload>>

---------------------------------------------------------------------------
(* destroy_session() and reload_sessions().                                *)

RetireGoto(r, step) == rpc' = [rpc EXCEPT ![r] = step]

(* Marks the given sessions retiring and splits them into idle ones, with  *)
(* the generation of their tombstone, and active turns.                    *)
RetireSessions(r, set) ==
    /\ generation' = generation + 1
    /\ entries' = [s \in Sessions |->
                     IF s \in set \cap Owned
                       THEN [entries[s] EXCEPT !.retiring = TRUE] ELSE entries[s]]
    /\ idle' = [idle EXCEPT ![r] =
                  {<<s, entries[s].generation>> :
                     s \in {t \in set \cap Owned : entries[t].live = None}}]
    /\ active' = [active EXCEPT ![r] =
                    {entries[s].live : s \in set \cap Owned} \ {None}]
    /\ RetireGoto(r, "clean")
    /\ UNCHANGED <<lru, memory, turns, forgotten, victim, down, now>>

DestroySweeps(r) ==
    /\ rpc[r] = "idle"
    /\ RemoveEntries(Expired)
    /\ cleanup' = [cleanup EXCEPT ![r] = Expired]
    /\ RetireGoto(r, "destroy")
    /\ UNCHANGED <<generation, turns, idle, forgotten, active, victim, down,
                   now, lastReload>>

Destroy(r, s) ==
    /\ rpc[r] = "destroy"
    /\ cleanup[r] = {}
    /\ RetireSessions(r, {s})
    /\ UNCHANGED <<cleanup, lastReload>>

Reload(r) ==
    /\ rpc[r] = "idle"
    /\ RetireSessions(r, Sessions)
    /\ lastReload' = generation + 1
    /\ UNCHANGED cleanup

(* An idle session keeps its tombstone through approval cleanup ...        *)
RetireForgets(r) ==
    /\ rpc[r] = "clean"
    /\ forgotten[r] = {}
    /\ \E item \in idle[r] :
          /\ memory' = [memory EXCEPT ![item[1]] = "none"]
          /\ idle' = [idle EXCEPT ![r] = @ \ {item}]
          /\ forgotten' = [forgotten EXCEPT ![r] = {item}]
    /\ UNCHANGED <<registry, turns, cleanup, rpc, active, victim, down, now,
                   lastReload>>

(* ... and loses it afterwards.                                            *)
RetireFinishes(r) ==
    /\ rpc[r] = "clean"
    /\ \E item \in forgotten[r] : FinishRetirement(item[1], item[2])
    /\ forgotten' = [forgotten EXCEPT ![r] = {}]
    /\ UNCHANGED <<generation, turns, cleanup, rpc, idle, active, victim, down,
                   now, lastReload>>

(* Active turns are then joined.                                *)
RetireCancels(r) ==
    /\ rpc[r] = "clean"
    /\ idle[r] = {} /\ forgotten[r] = {}
    /\ RetireGoto(r, "joining")
    /\ UNCHANGED <<registry, memory, pc, session, readGen, abort, permits,
                   finished, tracked, cleanup, idle, forgotten, active, victim,
                   down, now, lastReload>>

RetireJoins(r) ==
    /\ rpc[r] \in {"joining", "aborting"}
    /\ active[r] \subseteq finished
    /\ active' = [active EXCEPT ![r] = {}]
    /\ victim' = [victim EXCEPT ![r] = None]
    /\ RetireGoto(r, "done")
    /\ UNCHANGED <<registry, memory, turns, cleanup, idle, forgotten, down, now,
                   lastReload>>

(* session_retire_timeout elapsed.                                         *)
RetireTimesOut(r) ==
    /\ rpc[r] = "joining"
    /\ ~(active[r] \subseteq finished)
    /\ RetireGoto(r, "aborting")
    /\ UNCHANGED <<registry, memory, turns, cleanup, idle, forgotten, active,
                   victim, down, now, lastReload>>

(* Mutant: a request that comes before the handle is lost.                 *)
AbortRequestLost(us) ==
    [u \in Submits |->
       IF u \in us /\ abort[u] = "installed" THEN "fired" ELSE abort[u]]

(* request_turn_abort(): fires a stored handle, or leaves word for         *)
(* install_turn_abort().                                                   *)
AbortRequested(us) ==
    [u \in Submits |->
       IF u \notin us THEN abort[u]
       ELSE IF abort[u] = "none" THEN "requested"
       ELSE IF abort[u] = "installed" THEN "fired" ELSE abort[u]]

(* abort_retiring_turn() for the turns still running, one after the other. *)
RetireAborts(r) ==
    /\ rpc[r] = "aborting"
    /\ victim[r] \in finished \cup {None}
    /\ \E u \in active[r] \ finished :
          /\ abort' = AbortRequested({u})
          /\ victim' = [victim EXCEPT ![r] = u]
    /\ UNCHANGED <<registry, memory, pc, session, readGen, permits, finished,
                   tracked, cleanup, rpc, idle, forgotten, active, down, now,
                   lastReload>>

(* The caller drops the future while it joins: RetirementAbortGuard::drop. *)
RetireDropped(r) ==
    /\ rpc[r] \in {"joining", "aborting"}
    /\ abort' = AbortRequested(active[r] \ finished)
    /\ active' = [active EXCEPT ![r] = {}]
    /\ victim' = [victim EXCEPT ![r] = None]
    /\ RetireGoto(r, "done")
    /\ UNCHANGED <<registry, memory, pc, session, readGen, permits, finished,
                   tracked, cleanup, idle, forgotten, down, now, lastReload>>

---------------------------------------------------------------------------
(* shutdown().                                                             *)

ShutdownGoto(step) == down' = step

(* The root token every turn's cancel token is a child of.                 *)
ShutdownCancels ==
    /\ WithShutdown
    /\ down = "up"
    /\ ShutdownGoto("closing")
    /\ UNCHANGED <<registry, memory, pc, session, readGen, abort, permits,
                   finished, tracked, cleanup, retirement, now, lastReload>>

(* tracker.close(), tracker.wait(): resolves once no task is tracked.      *)
ShutdownJoins ==
    /\ down = "closing"
    /\ tracked = {}
    /\ ShutdownGoto("joined")
    /\ UNCHANGED <<registry, memory, turns, cleanup, retirement, now,
                   lastReload>>

ShutdownClears ==
    /\ down = "joined"
    /\ RemoveEntries(Owned)
    /\ cleanup' = [cleanup EXCEPT ![Shutdown] = Owned]
    /\ ShutdownGoto("cleaning")
    /\ UNCHANGED <<generation, turns, retirement, now, lastReload>>

ShutdownResolves ==
    /\ down = "cleaning"
    /\ cleanup[Shutdown] = {}
    /\ ShutdownGoto("down")
    /\ UNCHANGED <<registry, memory, turns, cleanup, retirement, now,
                   lastReload>>

Tick ==
    /\ now < MaxTime
    /\ now' = now + 1
    /\ UNCHANGED <<registry, memory, turns, cleanup, retirement, down,
                   lastReload>>

---------------------------------------------------------------------------
(* Steps that never wait for anybody else.                                 *)
GuardStep(u) ==
    \/ Release(u) \/ ReleaseRetired(u) \/ ReleasePermit(u) \/ SignalFinished(u)
    \/ TaskEnds(u) \/ TurnAborted(u) \/ InstallAbort(u)
    \/ Spawn(u) \/ \E s \in Sessions : Cleanup(u, s)

SubmitStepOf(u) ==
    \/ \E s \in Sessions : SubmitAdmitted(u, s)
    \/ SubmitSweeps(u) \/ SubmitReadsGeneration(u) \/ SubmitLoads(u)
    \/ SubmitRechecks(u) \/ Claim(u)

RetireProgress(r) ==
    \/ RetireForgets(r) \/ RetireFinishes(r) \/ RetireCancels(r) \/ RetireJoins(r)
    \/ RetireTimesOut(r) \/ RetireAborts(r)

Next ==
    \/ \E u \in Submits : SubmitStepOf(u) \/ GuardStep(u) \/ Remember(u) \/ TurnEnds(u)
    \/ \E r \in Retirers :
          \/ DestroySweeps(r) \/ Reload(r) \/ RetireProgress(r) \/ RetireDropped(r)
          \/ \E s \in Sessions : Destroy(r, s) \/ Cleanup(r, s)
    \/ Sweep \/ \E s \in Sessions : SelectModel(s) \/ Cleanup(Sweeper, s)
    \/ ShutdownCancels \/ ShutdownJoins \/ ShutdownClears \/ ShutdownResolves
    \/ \E s \in Sessions : Cleanup(Shutdown, s)
    \/ Tick

Spec == Init /\ [][Next]_vars

(* Running threads make progress, an aborted task is dropped and a         *)
(* retirement is polled, timer included.  A turn need not ever end by      *)
(* itself.                                                                 *)
FairSpec ==
    /\ Spec
    /\ \A u \in Submits : WF_vars(GuardStep(u))
    /\ \A r \in Retirers : WF_vars(RetireProgress(r))

---------------------------------------------------------------------------
(* Properties.                                                             *)

(* Types; the registry never owns more conversations than its capacity,    *)
(* whichever of submit and select_model adds them.                         *)
TypeOK ==
    /\ entries \in [Sessions -> ManagedConversation \cup {None}]
    /\ Cardinality(Owned) <= Capacity
    /\ generation \in Nat /\ lastReload \in Nat
    /\ memory \in [Sessions -> Memory]
    /\ pc \in [Submits -> SubmitStep]
    /\ session \in [Submits -> Sessions \cup {None}]
    /\ readGen \in [Submits -> Nat]
    /\ abort \in [Submits -> AbortState]
    /\ permits \subseteq Submits /\ finished \subseteq Submits
    /\ tracked \subseteq Submits
    /\ cleanup \in [Procs -> SUBSET Sessions]
    /\ rpc \in [Retirers -> RetireStep]
    /\ active \in [Retirers -> SUBSET Submits]
    /\ victim \in [Retirers -> Submits \cup {None}]
    /\ lru \in [Sessions -> Nat]
    /\ idle \in [Retirers -> SUBSET (Sessions \X Nat)]
    /\ forgotten \in [Retirers -> SUBSET (Sessions \X Nat)]
    /\ down \in {"up", "closing", "joined", "cleaning", "down"}
    /\ now \in 0..MaxTime

Cleared == down \in {"cleaning", "down"}

(* Until shutdown() has cleared the registry, a turn is registered as its  *)
(* session's live turn exactly from its claim to its release: no running   *)
(* turn is unregistered (two could then run in one session) and none stays *)
(* registered after it is gone (every later submit would be refused).      *)
LiveExactlyWhileRunning ==
    ~Cleared =>
    \A u \in Submits :
        pc[u] \in {"spawn", "running", "release"}
            <=> \E s \in Owned : entries[s].live = u /\ session[u] = s

(* Whoever observes `finished` also observes that the turn is no longer    *)
(* live and holds no suspension permit.                                    *)
FinishedMeansReleased ==
    \A u \in finished :
        /\ u \notin permits
        /\ \A s \in Owned : entries[s].live # u

(* A turn that read its generation before a reload never runs unfenced     *)
(* after it: what is live and not retiring started after the last reload.  *)
ReloadFencesOldTurns ==
    \A s \in Owned :
        entries[s].live # None /\ ~entries[s].retiring
            => readGen[entries[s].live] >= lastReload

(* Until shutdown() has cleared the registry, whoever removed a            *)
(* conversation is still about to forget what it remembered: no sweep,     *)
(* eviction, retirement or release leaves approvals behind for good        *)
(* (runtime.rs:1066).                                                      *)
LeftoversAreForgotten ==
    ~Cleared => \A s \in Sessions : memory[s] = "stale" => \E p \in Procs : s \in cleanup[p]

(* Violated.  approval.rs:90 says of the remembered decisions "so its      *)
(* ownership matches the bounded conversation registry": a new             *)
(* conversation never finds those of its predecessor.                      *)
MemoryIsOwned == ~Cleared => \A s \in Owned : memory[s] # "stale"

(* A retirement never waits for a turn it aborted in vain: the handle has  *)
(* fired, or is not stored yet and install_turn_abort() will fire it.      *)
VictimIsAborted ==
    \A r \in Retirers :
        rpc[r] = "aborting" /\ victim[r] \notin finished \cup {None}
            => abort[victim[r]] \in {"requested", "fired"}

(* Once shutdown() resolved, no turn task is left running.                 *)
ShutdownLeavesNothing == down = "down" => tracked = {}

(* A destroy or reload returns even when a turn ignores its cancellation:  *)
(* it is aborted, also when the request comes before the handle.           *)
RetirementReturns == \A r \in Retirers : rpc[r] = "clean" ~> rpc[r] = "done"
=============================================================================
