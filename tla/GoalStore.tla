----------------------------- MODULE GoalStore -----------------------------
(***************************************************************************)
(* Durable session goals: the file store (crates/claw-goals/src/store.rs), *)
(* the goal service that reads, changes and saves through it               *)
(* (crates/claw-runtime/src/goal.rs) and the conflict retries of the goal  *)
(* tool and the goal commands (crates/claw-goals/src/retry.rs, tool.rs,    *)
(* command.rs).  Every process has the store open; each store operation    *)
(* holds the store's file lock, but a service operation is several of them *)
(* with nothing held in between, and load() takes no lock at all.          *)
(*                                                                         *)
(* A publication is a rename followed by the sync of the directory, so the *)
(* state is kept twice: what a process reads, and what a power cut leaves. *)
(* One session; a goal is its ordinal, a record keeps its objective, its   *)
(* creation time, its status, whether it carries progress and its          *)
(* revision.  The platform is one that can sync a directory.               *)
(***************************************************************************)
EXTENDS Naturals, Sequences, FiniteSets

CONSTANTS Procs,         \* processes with the store open
          Objectives,    \* texts a goal may be set to
          Times,         \* readings of the clock
          None,          \* no record, no process, no goal
          Faults,        \* what may fail: "crash", "io", "power"
          MaxGoals,      \* max_goals_per_session
          Attempts,      \* MAX_CONFLICT_ATTEMPTS
          MaxOrdinal,    \* bound on generated ordinals
          MaxRevision    \* bound on the revisions of an active goal

ASSUME LimitsAssumption ==
    /\ MaxGoals \in Nat /\ Attempts \in Nat \ {0}
    /\ MaxOrdinal \in Nat /\ MaxRevision \in Nat
    /\ Times \subseteq Nat
    /\ None \notin Procs
    /\ Faults \subseteq {"crash", "io", "power"}

Ordinals == 1 .. MaxOrdinal
GoalRecord == [objective : Objectives, at : Times, status : {"active", "closed", "superseded"},
               progress : BOOLEAN, revision : Nat \ {0}]

ASSUME NoneAssumption == None \notin GoalRecord

VARIABLES
    recs,       \* goals/<goal>.json as read
    idx,        \* sessions/<session>.json as read
    safeRecs,   \* the directory entries of goals/ a power cut leaves
    safeIdx,    \* the directory entry of sessions/ a power cut leaves
    lock,       \* holder of the store's file lock
    pc,         \* what each process does next
    kind,       \* the call it serves
    objective,  \* the objective of a start
    tries,      \* conflict attempts so far
    goal,       \* the goal it loads or saves
    draft,      \* the record it saves
    prev,       \* the goal to supersede after the save, with its record
    todo,       \* older active goals left to repair
    acked,      \* (history) last record of each goal a save of it was acknowledged for
    written     \* (history) the same, of the saves that wrote the record themselves

fileVars == <<recs, idx, safeRecs, safeIdx>>
callVars == <<kind, objective, tries, goal, draft, prev, todo>>
ackVars == <<acked, written>>
vars == <<fileVars, lock, pc, callVars, ackVars>>

\* What an earlier life of the store left: goals that were noted on and closed, their
\* progress not yet compacted, or none.
NotedAndClosed ==
    {[objective |-> o, at |-> t, status |-> "closed", progress |-> TRUE, revision |-> 3] :
        o \in Objectives, t \in Times}

Init ==
    /\ \E n \in 0 .. MaxOrdinal : \E left \in [1 .. n -> NotedAndClosed] :
          /\ recs = [g \in Ordinals |-> IF g <= n THEN left[g] ELSE None]
          /\ idx = [goals |-> [i \in 1 .. n |-> i], high |-> n]
    /\ safeRecs = recs /\ safeIdx = idx
    /\ lock = None
    /\ pc = [p \in Procs |-> "down"]
    /\ kind = [p \in Procs |-> "none"]
    /\ objective = [p \in Procs |-> None]
    /\ tries = [p \in Procs |-> 0]
    /\ goal = [p \in Procs |-> 0]
    /\ draft = [p \in Procs |-> None]
    /\ prev = [p \in Procs |-> None]
    /\ todo = [p \in Procs |-> {}]
    /\ acked = recs /\ written = recs

Indexed == {idx.goals[i] : i \in DOMAIN idx.goals}
Dangling == \E g \in Indexed : recs[g] = None
Active == {g \in Indexed : recs[g] # None /\ recs[g].status = "active"}
MaxOf(S) == CHOOSE n \in S : \A m \in S : m <= n
MinOf(S) == CHOOSE n \in S : \A m \in S : n <= m

\* GoalService::active(): the last active goal of the index.
Newest(S) == LET i == MaxOf({j \in DOMAIN idx.goals : idx.goals[j] \in S}) IN idx.goals[i]

Goto(p, l) == pc' = [pc EXCEPT ![p] = l]
Unlock(p) == lock' = IF lock = p THEN None ELSE lock

\* The goal, record and predecessor of an attempt go out of scope with it.
Forget(p) ==
    /\ goal' = [goal EXCEPT ![p] = 0]
    /\ draft' = [draft EXCEPT ![p] = None]
    /\ prev' = [prev EXCEPT ![p] = None]

\* The call of p is over: its lock is released and its locals are gone.
End(p, l) ==
    /\ Goto(p, l) /\ Unlock(p)
    /\ kind' = [kind EXCEPT ![p] = "none"]
    /\ objective' = [objective EXCEPT ![p] = None]
    /\ tries' = [tries EXCEPT ![p] = 0]
    /\ Forget(p)
    /\ todo' = [todo EXCEPT ![p] = {}]

Return(p) == End(p, "idle")

-----------------------------------------------------------------------------
(* FileGoalStore::open() and recover().                                     *)

\* Recovery lists every goal that has a record: the entries it finds keep their
\* places, dangling ones are pruned, and orphans follow in order of creation.
\* (The code breaks ties of the clock by the identifier's text, which is the order
\* of the ordinals while they have equally many digits.)
Recorded == {g \in Ordinals : recs[g] # None}
Orphans == Recorded \ Indexed
Place(g) == CHOOSE i \in DOMAIN idx.goals : idx.goals[i] = g
OlderOrphan(g, h) == recs[g].at < recs[h].at \/ (recs[g].at = recs[h].at /\ g < h)

Precedes(g, h) ==
    \/ g \in Indexed /\ h \in Indexed /\ Place(g) < Place(h)
    \/ g \in Indexed /\ h \notin Indexed
    \/ g \notin Indexed /\ h \notin Indexed /\ OlderOrphan(g, h)

InOrder(S) ==
    CHOOSE s \in [1 .. Cardinality(S) -> S] :
        \A i, j \in DOMAIN s : i < j => Precedes(s[i], s[j])

\* The high-water mark is raised before the pruning and again after the adoption.
HighWater == MaxOf({idx.high} \cup Indexed \cup Orphans)

\* Mutant: entries without a record are kept.
RecoveredUnpruned == [goals |-> InOrder(Recorded \cup Indexed), high |-> HighWater]

\* Mutant: orphans are left where they are.
RecoveredUnadopted == [goals |-> InOrder(Recorded \cap Indexed), high |-> HighWater]

Recovered == [goals |-> InOrder(Recorded), high |-> HighWater]

Open(p) ==
    /\ pc[p] = "down" /\ lock = None
    /\ \/ Recovered = idx /\ Goto(p, "idle") /\ UNCHANGED <<idx, lock>>
       \/ /\ Recovered # idx
          /\ idx' = Recovered
          /\ lock' = p
          /\ Goto(p, "opening")
    /\ UNCHANGED <<recs, safeRecs, safeIdx, callVars, ackVars>>

FinishOpen(p) ==
    /\ pc[p] = "opening"
    /\ safeIdx' = idx
    /\ Unlock(p) /\ Goto(p, "idle")
    /\ UNCHANGED <<recs, idx, safeRecs, callVars, ackVars>>

-----------------------------------------------------------------------------
(* The calls.                                                               *)

\* start_with_conflict_recovery() of the goal tool or of /goal.
Start(p, o) ==
    /\ pc[p] = "idle"
    /\ kind' = [kind EXCEPT ![p] = "start"]
    /\ objective' = [objective EXCEPT ![p] = o]
    /\ tries' = [tries EXCEPT ![p] = 1]
    /\ Goto(p, "ordinal")
    /\ UNCHANGED <<fileVars, lock, goal, draft, prev, todo, ackVars>>

\* retry_conflicts() around a progress note or a close.
Update(p, k) ==
    /\ pc[p] = "idle"
    /\ kind' = [kind EXCEPT ![p] = k]
    /\ tries' = [tries EXCEPT ![p] = 1]
    /\ Goto(p, "target")
    /\ UNCHANGED <<fileVars, lock, objective, goal, draft, prev, todo, ackVars>>

\* compact_closed_history(): the progress of every closed goal is dropped, in the order
\* of the index and under one lock from the first read to the last write.
ToCompact == {g \in Indexed : recs[g] # None /\ recs[g].status # "active" /\ recs[g].progress}

CompactOne(p) ==
    /\ \E g \in ToCompact :
          /\ \A h \in ToCompact : Place(g) <= Place(h)
          /\ goal' = [goal EXCEPT ![p] = g]
          /\ draft' = [draft EXCEPT ![p] = [recs[g] EXCEPT !.progress = FALSE, !.revision = @ + 1]]
    /\ Goto(p, "write")

Compact(p) ==
    /\ pc[p] = "idle" /\ lock = None /\ ~Dangling
    /\ CompactOne(p)
    /\ kind' = [kind EXCEPT ![p] = "compact"]
    /\ lock' = p
    /\ UNCHANGED <<fileVars, objective, tries, prev, todo, ackVars>>

\* next_goal_ordinal(): read under the lock, reserved only by a later save.
NextOrdinal(p) ==
    /\ pc[p] = "ordinal" /\ lock = None /\ idx.high < MaxOrdinal
    /\ goal' = [goal EXCEPT ![p] = idx.high + 1]
    /\ Goto(p, "orphan")
    /\ UNCHANGED <<fileVars, lock, kind, objective, tries, draft, prev, todo, ackVars>>

\* is_equivalent_new_goal().
Equivalent(r, o) ==
    r # None /\ r.objective = o /\ r.status = "active" /\ ~r.progress /\ r.revision = 1

\* start() loads the goal of that ordinal without the lock: an equivalent orphan
\* is saved again as it is, anything else is left to the save to refuse.
LoadOrphan(p) ==
    /\ pc[p] = "orphan"
    /\ \/ /\ Equivalent(recs[goal[p]], objective[p])
          /\ draft' = [draft EXCEPT ![p] = recs[goal[p]]]
       \/ /\ ~Equivalent(recs[goal[p]], objective[p])
          /\ \E now \in Times :
                draft' = [draft EXCEPT ![p] = [objective |-> objective[p], at |-> now,
                             status |-> "active", progress |-> FALSE, revision |-> 1]]
    /\ Goto(p, "previous")
    /\ UNCHANGED <<fileVars, lock, kind, objective, tries, goal, prev, todo, ackVars>>

\* set() and start() remember the goal to supersede; list() refuses a dangling index.
ListPrevious(p) ==
    /\ pc[p] = "previous" /\ lock = None
    /\ \/ Dangling /\ Return(p)
       \/ /\ ~Dangling
          /\ prev' = [prev EXCEPT ![p] = IF Active = {} THEN None
                        ELSE [goal |-> Newest(Active), record |-> recs[Newest(Active)]]]
          /\ Goto(p, "save")
          /\ UNCHANGED <<lock, kind, objective, tries, goal, draft, todo>>
    /\ UNCHANGED <<fileVars, ackVars>>

\* apply(): the active goal is looked up, then loaded again without the lock.
ListTarget(p) ==
    /\ pc[p] = "target" /\ lock = None
    /\ \/ (Dangling \/ Active = {}) /\ Return(p)
       \/ /\ ~Dangling /\ Active # {}
          /\ goal' = [goal EXCEPT ![p] = Newest(Active)]
          /\ Goto(p, "load")
          /\ UNCHANGED <<lock, kind, objective, tries, draft, prev, todo>>
    /\ UNCHANGED <<fileVars, ackVars>>

Changed(r, k) ==
    IF k = "progress" THEN [r EXCEPT !.progress = TRUE, !.revision = @ + 1]
    ELSE [r EXCEPT !.status = IF k = "close" THEN "closed" ELSE "superseded", !.revision = @ + 1]

\* require_active(), then record_progress() or close() prepare the next revision.
\* A closed goal is an error, except that the repair of older goals skips it.
LoadTarget(p) ==
    LET r == recs[goal[p]] IN
    /\ pc[p] = "load"
    /\ \/ /\ r # None /\ r.status = "active" /\ r.revision < MaxRevision
          /\ draft' = [draft EXCEPT ![p] = Changed(r, kind[p])]
          /\ Goto(p, "save")
          /\ UNCHANGED <<lock, kind, objective, tries, goal, prev, todo>>
       \/ /\ r # None /\ r.status # "active" /\ kind[p] = "repair"
          /\ todo' = [todo EXCEPT ![p] = @ \ {goal[p]}]
          /\ tries' = [tries EXCEPT ![p] = 0]
          /\ Goto(p, "repair") /\ Forget(p)
          /\ UNCHANGED <<lock, kind, objective>>
       \/ /\ r = None \/ (r.status # "active" /\ kind[p] # "repair")
          /\ Return(p)
    /\ UNCHANGED <<fileVars, ackVars>>

-----------------------------------------------------------------------------
(* save_blocking().                                                         *)

IsNew(p) == goal[p] \notin Indexed
Adopts(p) == IsNew(p) /\ recs[goal[p]] = draft[p]
\* Mutant: the caller's revision is believed.
ExpectedAny(p) == draft[p].revision

Expected(p) == IF recs[goal[p]] = None THEN 1 ELSE recs[goal[p]].revision + 1
OverBudget(p) == IsNew(p) /\ Len(idx.goals) >= MaxGoals

\* A conflict: a start looks whether its goal is the active one after all, the
\* others try again, a bounded number of times.
Conflict(p) ==
    \/ /\ kind[p] = "start" /\ Goto(p, "recover") /\ Forget(p)
       /\ UNCHANGED <<lock, kind, objective, tries, todo>>
    \/ /\ kind[p] # "start" /\ tries[p] < Attempts
       /\ tries' = [tries EXCEPT ![p] = @ + 1]
       /\ Goto(p, IF kind[p] = "repair" THEN "load" ELSE "target")
       /\ IF kind[p] = "repair" THEN UNCHANGED <<goal, draft, prev>> ELSE Forget(p)
       /\ UNCHANGED <<lock, kind, objective, todo>>
    \/ kind[p] # "start" /\ tries[p] >= Attempts /\ Return(p)

\* The checks, all before the first byte is written.
Save(p) ==
    /\ pc[p] = "save" /\ lock = None
    /\ \/ /\ ~Adopts(p) /\ draft[p].revision # Expected(p)
          /\ Conflict(p)
       \/ /\ Adopts(p) \/ draft[p].revision = Expected(p)
          /\ OverBudget(p)
          /\ Return(p)
       \/ /\ Adopts(p) \/ draft[p].revision = Expected(p)
          /\ ~OverBudget(p)
          /\ lock' = p
          /\ Goto(p, IF Adopts(p) THEN "adopt" ELSE "write")
          /\ UNCHANGED callVars
    /\ UNCHANGED <<fileVars, ackVars>>

\* with_store_lock() gives up while another process holds the lock: Busy is a
\* conflict to its callers, except to the history() of the repair.
Busy(p) ==
    /\ pc[p] \in {"ordinal", "previous", "target", "save", "recover", "history"} /\ lock # None
    /\ \/ pc[p] \notin {"recover", "history"} /\ Conflict(p)
       \/ /\ pc[p] = "recover" /\ tries[p] < Attempts
          /\ tries' = [tries EXCEPT ![p] = @ + 1]
          /\ Goto(p, "ordinal")
          /\ UNCHANGED <<lock, kind, objective, goal, draft, prev, todo>>
       \/ (pc[p] = "history" \/ (pc[p] = "recover" /\ tries[p] >= Attempts)) /\ Return(p)
    /\ UNCHANGED <<fileVars, ackVars>>

PublishRecord(p) ==
    /\ pc[p] = "write"
    /\ recs' = [recs EXCEPT ![goal[p]] = draft[p]]
    /\ Goto(p, "syncRecord")
    /\ UNCHANGED <<idx, safeRecs, safeIdx, lock, callVars, ackVars>>

PublishIndex(p) ==
    /\ pc[p] \in {"index", "adopt"}
    /\ idx' = [goals |-> Append(idx.goals, goal[p]), high |-> MaxOf({idx.high, goal[p]})]
    /\ Goto(p, IF pc[p] = "adopt" THEN "syncAdopt" ELSE "syncIndex")
    /\ UNCHANGED <<recs, safeRecs, safeIdx, lock, callVars, ackVars>>

\* The save is acknowledged.  A start goes on to supersede the goal it replaces,
\* a repair to the next older goal, a compaction, still locked, to the next closed one.
Superseded(r) == [r EXCEPT !.status = "superseded", !.revision = @ + 1]

Saved(p) ==
    \/ /\ kind[p] = "start" /\ prev[p] # None
       /\ goal' = [goal EXCEPT ![p] = prev[p].goal]
       /\ draft' = [draft EXCEPT ![p] = Superseded(prev[p].record)]
       /\ prev' = [prev EXCEPT ![p] = None]
       /\ Unlock(p) /\ Goto(p, "save")
       /\ UNCHANGED <<kind, objective, tries, todo>>
    \/ /\ kind[p] = "repair"
       /\ todo' = [todo EXCEPT ![p] = @ \ {goal[p]}]
       /\ tries' = [tries EXCEPT ![p] = 0]
       /\ Unlock(p) /\ Goto(p, "repair") /\ Forget(p)
       /\ UNCHANGED <<kind, objective>>
    \/ /\ kind[p] = "compact" /\ CompactOne(p)
       /\ UNCHANGED <<lock, kind, objective, tries, prev, todo>>
    \/ /\ kind[p] # "repair" /\ prev[p] = None
       /\ kind[p] = "compact" => ToCompact = {}
       /\ Return(p)

\* Its caller is told, or is about to be when the rest of a compaction succeeds.
Acknowledge(p, wrote) ==
    /\ acked' = [acked EXCEPT ![goal[p]] = draft[p]]
    /\ written' = IF wrote THEN [written EXCEPT ![goal[p]] = draft[p]] ELSE written

\* Mutant: the directory is not synced before the acknowledgement.
SyncRecordSkipped(p) ==
    /\ pc[p] = "syncRecord"
    /\ \/ IsNew(p) /\ Goto(p, "index") /\ UNCHANGED <<lock, callVars, ackVars>>
       \/ ~IsNew(p) /\ Saved(p) /\ Acknowledge(p, TRUE)
    /\ UNCHANGED fileVars

\* The directory of the record is synced; an indexed goal needs no more.
SyncRecord(p) ==
    /\ pc[p] = "syncRecord"
    /\ safeRecs' = recs
    /\ \/ IsNew(p) /\ Goto(p, "index") /\ UNCHANGED <<lock, callVars, ackVars>>
       \/ ~IsNew(p) /\ Saved(p) /\ Acknowledge(p, TRUE)
    /\ UNCHANGED <<recs, idx, safeIdx>>

\* The directory of the index is synced.  The record of an adopted orphan was written
\* by another call: its own directory is not synced again.
SyncIndex(p) ==
    /\ pc[p] \in {"syncIndex", "syncAdopt"}
    /\ safeIdx' = idx
    /\ Saved(p) /\ Acknowledge(p, pc[p] = "syncIndex")
    /\ UNCHANGED <<recs, idx, safeRecs>>

\* A rename or a sync fails: what was published stays, the call returns an error.
IoFails(p) ==
    /\ "io" \in Faults /\ lock = p
    /\ End(p, IF pc[p] = "opening" THEN "down" ELSE "idle")
    /\ UNCHANGED <<fileVars, ackVars>>

-----------------------------------------------------------------------------
(* start_with_conflict_recovery() after a conflict.                         *)

\* The goal is there already when the active one has the objective asked for.
Committed(p) == Active # {} /\ recs[Newest(Active)].objective = objective[p]

RecoverStart(p) ==
    /\ pc[p] = "recover" /\ lock = None
    /\ \/ Dangling /\ Return(p)
       \/ /\ ~Dangling /\ Committed(p)
          /\ goal' = [goal EXCEPT ![p] = Newest(Active)]
          /\ Goto(p, "history")
          /\ UNCHANGED <<lock, kind, objective, tries, draft, prev, todo>>
       \/ /\ ~Dangling /\ ~Committed(p)
          /\ \/ /\ tries[p] < Attempts
                /\ tries' = [tries EXCEPT ![p] = @ + 1]
                /\ Goto(p, "ordinal")
                /\ UNCHANGED <<lock, kind, objective, goal, draft, prev, todo>>
             \/ tries[p] >= Attempts /\ Return(p)
    /\ UNCHANGED <<fileVars, ackVars>>

\* repair_older_active_goals(): every other active goal of a fresh history.
ListHistory(p) ==
    /\ pc[p] = "history" /\ lock = None
    /\ \/ Dangling /\ Return(p)
       \/ /\ ~Dangling
          /\ todo' = [todo EXCEPT ![p] = Active \ {goal[p]}]
          /\ kind' = [kind EXCEPT ![p] = "repair"]
          /\ objective' = [objective EXCEPT ![p] = None]
          /\ tries' = [tries EXCEPT ![p] = 0]
          /\ Goto(p, "repair") /\ Forget(p)
          /\ UNCHANGED lock
    /\ UNCHANGED <<fileVars, ackVars>>

Repair(p) ==
    /\ pc[p] = "repair"
    /\ \/ todo[p] = {} /\ Return(p)
       \/ /\ todo[p] # {}
          /\ goal' = [goal EXCEPT ![p] = MinOf(todo[p])]
          /\ tries' = [tries EXCEPT ![p] = 1]
          /\ Goto(p, "load")
          /\ UNCHANGED <<lock, kind, objective, draft, prev, todo>>
    /\ UNCHANGED <<fileVars, ackVars>>

-----------------------------------------------------------------------------
\* A process is killed; the operating system drops its lock.
Crash(p) ==
    /\ "crash" \in Faults /\ pc[p] # "down"
    /\ End(p, "down")
    /\ UNCHANGED <<fileVars, ackVars>>

\* The machine stops: a rename whose directory was not synced may be undone.
PowerCut ==
    /\ "power" \in Faults /\ \E p \in Procs : pc[p] # "down"
    /\ \E lost \in SUBSET Ordinals, i \in {idx, safeIdx} :
          /\ recs' = [g \in Ordinals |-> IF g \in lost THEN safeRecs[g] ELSE recs[g]]
          /\ idx' = i
    /\ safeRecs' = recs' /\ safeIdx' = idx'
    /\ lock' = None
    /\ pc' = [p \in Procs |-> "down"]
    /\ kind' = [p \in Procs |-> "none"]
    /\ objective' = [p \in Procs |-> None]
    /\ tries' = [p \in Procs |-> 0]
    /\ goal' = [p \in Procs |-> 0]
    /\ draft' = [p \in Procs |-> None]
    /\ prev' = [p \in Procs |-> None]
    /\ todo' = [p \in Procs |-> {}]
    /\ UNCHANGED ackVars

Step(p) ==
    \/ Open(p) \/ FinishOpen(p) \/ NextOrdinal(p) \/ LoadOrphan(p) \/ ListPrevious(p)
    \/ ListTarget(p) \/ LoadTarget(p) \/ Save(p) \/ Busy(p) \/ PublishRecord(p)
    \/ PublishIndex(p) \/ SyncRecord(p) \/ SyncIndex(p) \/ RecoverStart(p)
    \/ ListHistory(p) \/ Repair(p)

Next ==
    \/ \E p \in Procs : Step(p) \/ Compact(p) \/ IoFails(p) \/ Crash(p)
    \/ \E p \in Procs, o \in Objectives : Start(p, o)
    \/ \E p \in Procs, k \in {"progress", "close"} : Update(p, k)
    \/ PowerCut

Spec == Init /\ [][Next]_vars

-----------------------------------------------------------------------------
(* Properties.                                                              *)

Up == \E p \in Procs : pc[p] \notin {"down", "opening"}

\* Goal g is still there as record r, with its objective and at no earlier revision,
\* and is listed whenever a process has the store open.
Kept(g, r) ==
    /\ recs[g] # None
    /\ recs[g].objective = r.objective /\ recs[g].at = r.at
    /\ recs[g].revision >= r.revision
    /\ Up => g \in Indexed /\ g <= idx.high

\* A goal whose own write was acknowledged survives any crashes, failed calls and
\* power cuts (store.rs:24).
WrittenIsKept ==
    \A g \in Ordinals : written[g] # None => Kept(g, written[g])

\* Whatever way a save went, nothing but a power cut loses the goal it acknowledged:
\* no kill, failed call, conflict, repair, recovery or compaction (store.rs:1037).
OnlyPowerLosesGoals ==
    [][\A g \in Ordinals :
          acked'[g] # None /\ ~Kept(g, acked[g])'
             => PowerCut \/ (acked[g] # None /\ ~Kept(g, acked[g]))]_vars

\* Violated.  store.rs:25 "A write is only acknowledged once both steps have run" and
\* lib.rs:28 "an acknowledged write survives both the process and a power cut": every
\* acknowledged goal is kept, the adopted ones too.
AcknowledgedIsKept ==
    \A g \in Ordinals : acked[g] # None => Kept(g, acked[g])

\* While the store is open the index names no missing record and no goal twice,
\* and a record it does not name sits at the ordinal the next start receives, where
\* that start can adopt it (goal.rs:293, store.rs:36).
IndexIsWhole ==
    Up => /\ ~Dangling
          /\ Cardinality(Indexed) = Len(idx.goals)
          /\ Orphans \subseteq {idx.high + 1}

\* Every change of a record that processes see is one revision after the one it
\* replaces and never opens a closed goal again, although records are loaded
\* without the lock they are saved under (store.rs:1015).
RevisionsAreLinear ==
    [][(\E p \in Procs : pc'[p] # "down") =>
         \A g \in Ordinals : recs[g] # None /\ recs'[g] # recs[g] =>
            /\ recs'[g] # None
            /\ recs'[g].revision = recs[g].revision + 1
            /\ recs[g].status # "active" => recs'[g].status = recs[g].status]_vars

\* Violated.  goal.rs:187 "neither dropping this future between the two writes nor
\* a failure of the second write can leave the session with no active goal": as long
\* as no goal was closed on request, a session that was given one has an active one.
AlwaysHasGoal ==
    Up /\ Indexed # {} /\ (\A g \in Indexed : recs[g] # None => recs[g].status # "closed")
       => Active # {}
=============================================================================
