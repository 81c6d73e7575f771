# GTA Claw: formal models

TLA+ models of the agent runtime, its durable state, the gateway's event bus, the
goal store and the updater in this repository, the
TLC configurations that check them on small instances, and TLAPS proofs of the
results that should hold at every size. Every definition is translated from the
Rust source; `PROJECT.json` maps each one to its file and lines.

To run: `tlc -config Suspension.cfg MCSuspension` (and likewise for the other
configurations in the table below), `tlapm SuspensionProofs.tla` (and likewise
`ApprovalBrokerProofs`, `SessionRegistryProofs`, `TurnExecutionProofs`,
`DurableRunsProofs`, `UpdaterProofs`, `GatewayEventsProofs`, `GoalStoreProofs`).

## 1. The system

GTA Claw is a Rust workspace: about thirty library crates, a daemon that
composes them, a command line, a terminal UI, mobile hosts and an updater. A
message arrives from a messaging channel or a gateway client, becomes a durable
*run*, is executed as a *turn* of a session (rounds of model calls and tool
calls, some of which wait for an operator's approval), and its answer is stored,
announced and delivered. The daemon runs on a multi-threaded tokio executor, so
the steps between two awaits of different tasks really interleave, and storage
operations run on blocking threads that outlive the future that asked for them.

### Inventory

| Component | State | Operations | Hard because |
|---|---|---|---|
| Host suspension `claw-runtime/suspend.rs` | phase, permits in flight, lease | admit, drop permit, prepare (drain), status, resume | two critical sections in one call; notify after unlock; dropped futures; lease expiry |
| Approval broker `claw-runtime/approval.rs` | pending prompts, remembered decisions, identifier counter | request, resolve, withdraw_all, forget | answer races deadline, cancellation, drop; adapter awaits between the steps |
| Conversation registry `claw-runtime/runtime.rs` | live turns, LRU, generation, tombstones | submit, select_model, sweep, destroy, reload, shutdown | values read before an await and used after it; cleanup outside the lock |
| Session machine `claw-application/model/session.rs`, `claw-runtime/session.rs` | state and history of a turn | transitions, restore | must accept whatever was stored |
| Turn execution `claw-runtime/runtime.rs` | machine, rounds, revision, cancel and pause | the steps of `run` and `drive` | every await can fail, be cancelled or be aborted |
| State store `claw-state/lib.rs`, `runtime.rs` | key/value records, recovery fence | compared commits on blocking workers | unknown commits, worker panics, commits of turns long gone |
| Durable runs `claw-state/runs.rs` | runs, markers, outbox, owners, deliveries, receipts | admit, claim, bind, cancel, finish, acknowledge, deliver, receipt, settle, recovery | redelivery, lost answers, crash between any two records |
| Ingress hosts and channel workers `gta-claw-daemon/adapters` | tasks, "storage failed" flag | run_channel_message, gateway_submit, gateway_abort, reply sending | at-least-once input over at-most-once effects |
| Tool executor `claw-runtime/tool.rs` | none of its own | gates of a tool call | authority may be revoked between gates |
| Gateway `claw-gateway` | subscribers with bounded queues and byte accounts, ordinals, device grants with a generation | publish, subscribe, deliver, revalidate, pair, revoke, shutdown | ordinal taken before the lock, counts kept without it, grants that change under live connections |
| Goals `claw-goals`, `claw-runtime/goal.rs` | record files and an index file per session | start, progress, close, compact, retry, recover | two files, crash and power cut in between, one service operation is several locked ones |
| Provider SDK `claw-provider-sdk` | circuit breaker, retries | admit, success, failure, drop | late results of earlier epochs |
| Updater `gta-claw-updater` | installation, backup, journal, staged artifact, floor files | check, download, install, recover, roll back | crash between renames, a daemon checking at the same time |
| Migration, rescue | journals, backups | apply, roll back | crash between steps |
| MCP, ACP, relay, plugins, workers | sessions, tokens, fencing generations | connect, refresh, admit | reconnects and stale generations |
| Configuration, security, discovery | snapshots, pairings | reload, pair, authorise | notification order |
| Domain, protocol, providers, tools, skills, memory, HTTP API, clients, observability | mostly stateless | conversions, calls to the outside | data, not control |

`PROJECT.json` lists them all with their status, and under `hazards` the places
where this code can go wrong in ways a test hardly reaches, each at its line.

### How the modelled parts interact

- `submit` claims a session in the registry, holds a suspension permit for as
  long as the turn lives, and spawns the turn execution.
- The turn execution persists through the store, asks the approval broker, and
  releases registry entry and permit at its end, in this order.
- Destroying or reloading sessions cancels turns, waits for them with a timeout,
  aborts the rest and makes the broker forget the session's decisions.
- The daemon's hosts admit and claim runs in the store, execute them as turns and
  store their results; channel workers deliver the replies under a claim.
- Runs and turns announce themselves through the gateway's bus; a connection
  delivers what its device may see at the moment of the delivery.
- The goal tool and the goal commands of several processes share one store.
- The daemon's update monitor and the updater share the floor and its lock.

The models meet at these interfaces: `SessionRegistry` has the permit and the
remembered approvals as variables of its own (the promises `Suspension` and
`ApprovalBroker` make), `TurnExecution` reduces the registry to the one live
turn, and `DurableRuns` reduces a turn to its outcome. The store's operation
(read, then commit with comparison, then perhaps an unknown outcome) is modelled
twice, over the records each model needs. `GatewayEvents`, `GoalStore` and
`Updater` share no state with the others in the code either: the bus receives
drafts from anywhere, the goal store and the updater own their files. Within each
of them the parts that do interact are composed: bus, connection, directory and
server handle; file store, goal service and conflict retries; check, download,
install and recovery.

## 2. Modules

| Module | Models | Lines of the source |
|---|---|---|
| `Suspension` | `SuspensionController`: permits, `prepare` split at its awaits, the drop guard, `notify_one`/`notify_waiters` | `suspend.rs` |
| `SuspensionProofs` | its inductive invariant and theorems | |
| `ApprovalBroker` | `request` from cache lookup to return, `resolve`, `withdraw_all`, `forget`, the pending guard, adapter futures | `approval.rs` |
| `ApprovalBrokerProofs` | its inductive invariant and theorems | |
| `SessionRegistry` | claim, eviction, expiry, spawn, abort handle, release, retirement, reload, shutdown | `runtime.rs` |
| `SessionRegistryProofs` | its inductive invariant and theorems | |
| `SessionContract` | the transition table and the machine (constants only) | `session.rs` (both) |
| `SessionHistory` | abstract: what a reader of the stored session may see over time (`Spec`), and what is left of it after a reset (`SpecUnlessReset`) | |
| `TurnExecution` | submit's choice of identity, `run`, `drive`, `quiesce`, and the session, journal and turn operations of the store; implements `SessionHistory!SpecUnlessReset` | `runtime.rs` (both), `lib.rs` |
| `TurnExecutionProofs` | its four invariants, the theorems and the step simulation of `SessionHistory` | |
| `DurableRuns` | the run store, the hosts and the reply delivery that use it, crash and both recoveries | `runs.rs`, `agent_runtime.rs`, `channels.rs` |
| `DurableRunsProofs` | its two inductive invariants and theorems | |
| `GatewayEvents` | `EventBus::publish` split at its lock, the byte account and the queue, `DeviceDirectory`, and a connection's negotiation, `revalidate`, `deliver` and shutdown flush | `events.rs`, `connection.rs`, `authority.rs`, `server.rs` |
| `GatewayEventsProofs` | the freshness of grants, what a subscriber receives, the byte counts | |
| `GoalStore` | `FileGoalStore` with its lock, recovery and compaction, `GoalService`, the retries, failed calls, killed processes, power cuts | `store.rs`, `retry.rs`, `goal.rs` |
| `GoalStoreProofs` | its inductive invariant and theorems | |
| `Updater` | acceptance into the floor, staging and resumption, authorisation, the swap of both platforms, roll-back, recovery | `lib.rs` of the updater |
| `UpdaterProofs` | two inductive invariants and their theorems | |
| `MC*` | small instances for TLC | |

Conventions. A definition keeps the name of the function it stands for where
that is possible. A process that awaits is a program counter per caller; whatever
happens under one lock is one action. Definitions introduced by "Mutant:" are
plausible bugs of the definition below them; each property is checked against
one to show that it can fail.

### Correspondence in short

*Suspension.* `call[h]` is one `prepare()` future: `arm` (first critical
section), `select` (the `Notified` future is enabled, the count is read),
`await`, then `drained` or `timedOut`, then `Decide` (second critical section).
Dropping it at any await runs the guard. `DropPermit` decrements under the lock;
`NotifyDrained` is the notification after it.

*ApprovalBroker.* `step[c]` is one `request()` future. The one-shot channel is
`channel[c]`; a responder dropped without an answer closes it. `PortYields` says
which of the adapter's futures may suspend: the daemon's do not, the port allows
it.

*SessionRegistry.* `entries` is the registry map, `lru[s]` the place of an entry in
the order of `access_order`, `readGen[u]` the generation a
submit read before its await, `memory[s]` whether the broker remembers decisions
of this or of a previous conversation. Retirement is split at each lock and each
await. One host thread calls `sweep_sessions()` and `select_model()`, which is a
sweep and, any time later, `SelectModel`; the query `model()` refreshes an existing
entry as `SelectModel` does, and the refresh of a running turn is overwritten when
it is released, so neither has an action of its own.

*TurnExecution.* `op[e]` is the store operation a turn has under way; it goes on
when the turn is aborted. `rev[e]` is the revision the turn believes in, `sess`
the stored snapshot. A provider round is "open" until its report is stored.
Tool batches and approvals are their outcome. A reset of the session removes the
stored pointer and never overlaps a live turn, which `destroy_session` ends first;
operations of aborted turns may still be on their workers then. `SessionHistory!Spec`
is the promise of the port (identities only grow, a stale save changes nothing);
`SpecUnlessReset` adds `StaleBegin`, the one step by which the code departs from it,
possible only after a reset (run `turn_stale`).

*DurableRuns.* `op[c]` holds what a caller's operation read (`seen`) and how it
stands; `Commits` compares, `CommitUnknown` may or may not have written and
raises the fence, `Conflicts` reads again where the code loops. A host keeps
only its run. `sent`, `executed` and `acked` are history variables.
Claiming a delivery re-admits the run first in the code; since the run is
terminal then, the model goes to the delivery claim directly.

*GatewayEvents.* `ppc[q]` is one `publish()`: ordinal, lock, one `Offer` per
subscriber, bytes added after `try_send`, removal of the lagging ones. `cpc[c]`
is a connection task; `bytes` may go below zero where the code's unsigned count
would wrap. `admitted`, `taken` and `wire` are history: what fan-out meant for a
connection, what its task took, and the sequence numbers its peer saw. One event
class per draft: an audience, a required scope and a size; events of a topic
group or bound to a device are left out, their filters being pure.

*GoalStore.* `recs` and `idx` are the files as any process reads them, `safeRecs`
and `safeIdx` the directory entries a power cut leaves. `pc[p]` follows one call
through the service and the store; `lock` is the store's file lock, held within a
store operation and never between two. `Busy` is the lock refused after its
attempts. `acked` records every save a caller was told of, `written` those of them
that wrote the record themselves: adopting an identical orphan only lists it.
Compaction (`ToCompact`, `CompactOne`) takes one record at a time, in the order of
the index, under a lock it keeps throughout.
Budgets in bytes, record texts and the retention of closed goals are left out:
`OverBudget` is the count, and a refusal of bytes ends a call in the same way.
Recovery is stated by what it leaves: `Recovered` lists exactly the goals with a
record, the ones that were listed in their places and the orphans after them in
order of creation (`Precedes`).

*Updater.* An object on disk is the release it holds; equal digests are equal
releases. `plan[p]` holds what is left of a recovery or a roll-back, taken in the
order the code has. `phase` says whether download() or the swap called recovery.
`Stop` is a killed process as well as an error returned at once: both leave the
files as they are and release the lock. `prior` is history, and so is `disturbed`:
some download ran beside another download or beside an install, which nothing in
`lib.rs` excludes, since `download()` takes no lock. Until then several updaters only
share files one after the other or under the lock, and the properties of the swap
are about that. Where downloads do overlap the model keeps the steps of each but
not the mixing of bytes within one file (`Staged` is what an install accepts as
its artifact).

## 3. Runs

| Run | Instance | Checks |
|---|---|---|
| `suspension` | 2 workers, 2 hosts, 2 lease ids, durations 1–2, clock to 3 | quiescence, ownership of the drain, no missed wake-up; drains end, drained runtimes suspend |
| `approval` | 2 calls of two sessions (of one, or one of each) and one tool, authenticated or not, 2 identifiers of which 0 or 1 are used up, adapter futures that suspend | no orphan entries, decisions were accepted and accepted answers are honoured unless interrupted or too late, memory from operators of the session only, the exhausted counter evicts nobody |
| `registry` | 2 sessions, 2 submits, 1 retirement, capacity 1, expiry at once | registration exactly while running, finished means released, reload fences old turns, an aborted turn is really aborted, whoever removes a conversation forgets its approvals |
| `turn_store` | 2 turns, a reset, unknown commits, 1 crash | one owner per turn identity, calls journalled before they are made and never twice, record and journal agree, the stored pointer implements `SessionHistory!SpecUnlessReset` |
| `turn_drive` | 1 turn, every input kind, 2 rounds | stored snapshots restorable, a cancelled turn ends |
| `turn_stale` | 3 turns, a reset, no crash | expected violation of `SessionHistory!Spec`, see section 6 |
| `durable_runs` | 1 message, 1 request, 2 hosts, 1 client, quota 1, 2 segments, 1 crash | executed once, segments sent once, results stay announced, reopening succeeds, indexes agree and the quota is kept, terminal is final, cancellation reaches the turn |
| `gateway_events` | 2 publishers, 1 connection, 2 grants, 3 kinds of event, queue of 2 events or 3 bytes, 3 publications, 1 change of the directory | received is a prefix of admitted and the gap names the first missed, byte counts are sane where they decide, grants are fresh, shutdown is flushed |
| `goal_store` | 2 processes, 2 objectives, 2 goals, 2 revisions while active, 2 attempts, every fault, a store that starts empty or with a closed goal to compact | goals whose write was acknowledged are kept, nothing but a power cut loses any acknowledged goal, the index is whole, revisions are linear |
| `goal_lost` | the same, no faults | expected violation, see section 6 |
| `updater_swap` | 2 updaters, 3 manifests, both platforms, every operation may fail | until a download meets another run: the backup is recoverable, parts are bound, outcomes are true, swaps are authorised, the floor never falls |
| `updater_loss` | 1 updater | expected violation, see section 6 |

Why these bounds suffice for the cases that matter: two callers are enough for
every race of the pairs of critical sections in the code (each property relates
at most two callers and one record); a capacity, quota or identifier range of
one or two makes the limit and the step beyond it reachable; two rounds and two
segments distinguish the first, an intermediate and the last; one crash can fall
between any two records, recovery included, since recovery is itself split into
its commits. One connection suffices for the gateway because fan-out
treats subscribers one at a time and they share nothing but the lock; three
publications overflow a queue of two, or one that two large events fill. One
generation change is followed by every interleaving of the two reads and the two
writes it consists of; the proof covers any number. Two goals let one replace,
supersede or repair the other, two revisions let a save be stale; the code's
three attempts differ from two only in how often it tries. Three manifests are an
update, its successor that revokes it, and a second manifest of a used sequence.
`MaxTurn`, `MaxRevision`, `MaxTime` and `MaxTimestamp` stand for
the ends of the integer ranges, and the code's checked arithmetic is what the
guards model. Runs without deadlock checking are those whose callers stop for
good when their calls are used up; `suspension`, `approval` and the updater's runs
never stop. `updater_swap` does not explore what follows a download that met another
run (`CONSTRAINT Undisturbed`): `BackupIsRecoverable`, `PartIsBound` and `OutcomeIsTrue`
say nothing of such states, and `disturbed` never becomes false again; for the other
two the proofs cover them. It has no process in `Checkers`: an updater whose check ends
the run does all that a checking daemon does, and the proofs have any number of both.
Symmetry is used in runs without temporal properties or whose only temporal
properties are action properties and a refinement without fairness.

Fairness. `Suspension!WakeSpec`: a prepare future that can make progress is
polled and a permit drop that began completes; neither work nor the clock is
obliged to proceed. `TurnExecution!FairSpec`: blocking workers run and a *cancelled* turn
is scheduled, since each of its awaits races the cancel token or belongs to the
store; other turns may wait for ever. That is what an executor with free
threads, tokio's timers and the tracked blocking pool provide.
`ApprovalBroker!FairSpec` (futures are polled, the clock advances, no operator has
to answer) with `RequestReturns`, and `SessionRegistry!FairSpec` (the release guard
runs and the retirement is polled; a turn need not end by itself) with
`RetirementReturns`, are stated for smaller instances than the ones above: the
former holds with one identifier and `MaxTime = 1` (85,184 states), the latter
with one session and no expiry. The safety part of each is in the runs
(`WaiterStaysAnswerable`, `VictimIsAborted`).

## 4. Proofs

Every invariant and action property the passing runs check is also a theorem, for
every value of the constants. The assumptions are named in the modules and are of
three sorts: limits are numbers (`TimeAssumption`, `BrokerAssumption`,
`RegistryAssumption`, `TurnAssumption`, `LimitsAssumption`, `BoundsAssumption`),
sets that are counted are finite (`WorkersFinite`, the sessions of
`RegistryAssumption`), and names do not collide (`NoneAssumption` in several modules,
`NamesAssumption`, `ProcsAssumption`, `DraftsAssumption`, `ManifestsAssumption`): the
value that stands for "nothing" is none of the things it is told apart from, and a
publisher's program counter that names a connection is no other program counter.
TLC evaluates all of them in every run.

None of the properties is inductive as it stands. Each module below says first what
the code keeps true between its steps.

**`SuspensionProofs`**, for any finite set of workers, any hosts, leases and durations
and any clock range: `SuspensionTypes`, `PermitsAreCounted`,
`SuspensionIsQuiescent`, `DrainingIsOwned`, `WakeupIsNeverMissed`. `prepare()` reads
the count in one critical section and sets the phase in another. `HInv` adds what
holds in between: a call that decided "drained" still owns the Draining phase
(`DrainIsOwned`), that phase admits nothing, so the count it read stays zero
(`DrainedStaysDrained`); and the count is the number of permits (`CountIsExact`),
which turns a zero count into "nobody is working". The lease parts are needed because
Draining can end by expiry, resume, timeout and drop, and each of them must meet its
own lease.

**`ApprovalBrokerProofs`**, for any calls, sessions, tools, deadlines and identifier
limit: `NoEntryIsOrphaned`, `WaitersStayAnswerable`, `DecisionsWereAccepted`,
`MemoryIsFromOperators`, `AcceptedAnswersCount`. `BrokerInv` rests on one fact: an
identifier belongs to one call for ever, because the counter only grows and an
exhausted counter refuses (`IdsAreOwned`). Then the entry of a call is removed by its
answer, by its own waiter or by `withdraw_all()` and by nothing else; an entry stands
for an unanswered call (`EntryIsUnanswered`), and what travels through the one-shot
channel is what was accepted (`ChannelCarriesAccepted`). `AcceptedAnswersCount` needs
in addition, for each point of `request()`, what it makes of an answer that was
accepted already (`Honours`): the channel is not closed any more, and the call turns to
withdrawing only when it was interrupted or the deadline had passed, both of which
stay true.

**`SessionRegistryProofs`**, for any finite set of conversations, any submits and
retirements, any capacity and ttl: `TurnsAreRegistered`, `FinishedTurnsAreReleased`,
`OldTurnsAreFenced`, `AbortsAreNotLost`, `CapacityIsKept`, `NothingIsLeftBehind`. `RegistryInv` follows a turn
from its claim to its release on both sides: a registered turn is under way with the
generation of its entry (`RegisteredHolds`), and a turn under way is registered
(`HoldingIsRegistered`); what a submit read before its await is not newer than the
registry (`Fences`), and the victim a retirement remembers is still the turn it asked
to abort (`Victims`). That `make_room()` finds an idle entry to evict needs the least
member of a set of places, which is proved from well-foundedness.
`NothingIsLeftBehind` rests on `MemoryInv`: what a sweep or an eviction removed is in
the cleanup of the call that removed it, and what `finish_retirement()` will be called
with is a tombstone or gone, and remembers nothing once its approvals are forgotten
(`Tombstones`). An entry created anew has a later generation (`Aged`), which keeps a
late `finish_retirement()` off it; how a step may change the map at all is stated once
(`Evolves`).

**`TurnExecutionProofs`**, for any executions, resets, crashes, rounds and limits:
`TurnsHaveOneOwner`, `CallsFollowTheJournal`, `RecordsMatchJournals`,
`StoredIsRestorable`, `DriveIsLegal` and the refinement `StoredSessionIsHistory`.
Operations of aborted executions commit long after them, so the argument is in
layers. `Control`: where an execution stands, which is live and what it has given to
the workers. `Journal`: an acknowledged journal write makes its execution the only
writer of that journal (`OneWriter`), and a journal or turn operation that has read
will compare with what it read. `Session`: how far what an execution believes
(`turn`, `rev`, `machine`) is from what is stored; an execution that was told its
snapshot was stored owns its identity (`Owns`, `OneOwner`), and one that is stale can
be seen to be (`StaleShows`). `Orderly` fits each point of `drive()` to the states its
machine can have there. The refinement maps the stored snapshot to `SessionHistory`
and shows a step of `SpecUnlessReset`, or a stutter, for each action; before the first
reset this is the strict `Spec`, since `StaleBegin` needs one.

**`DurableRunsProofs`**, for any runs, hosts, clients, quota, segments and crashes. An
operation reads at one moment and commits at another; `DInv` relates the two:
`PendingOps` says what an operation that is about to commit has read, so that the
comparison at the commit makes it true of the record again; `Records` says what the
records of one run imply about each other; `CallerOf` ties an operation to the place
its host is at; `Holders` follows the permission to execute from the committed claim
to the committed result. It gives `WorkStartsOnce`, `ResultsAreFinal` and
`ReopenAlwaysSucceeds`. `EInv` on top of it gives `QuotaIsKept`, `IndexesAlwaysAgree`,
`ResultsStayAnnounced`, `RepliesGoOutOnce`, `DeliveriesAreReceipted` and
`CancellationsArrive`: a delivery has one sender, which knows how far it got
(`Senders`); what a commit relies on without comparing it again, nothing takes back
(`Reliances`); a cancellation on record is known to the turn, to a client that will
tell it, or to the binding that has not looked yet (`Cancels`). The proof separates
what a commit may do to the records (`Effect`, one case per operation) from what a
caller may do without touching them (`CallerMoves`).

**`UpdaterProofs`** has two invariants. For any number of updaters, daemons and
manifests, `FloorInv` gives `UpdaterTypes`, `SwapsAreAuthorized` and
`FloorsNeverFall`: while any floor file exists one is the highest and only one has its
sequence (`HasTop`), whoever checks, prunes or swaps holds the lock (`LockHeld`), the
process that prunes has written the highest file (`PrunesBelow`: a death in the middle
of pruning leaves a lower file behind, never only lower files), and the authorisation
of a swap stays that of the floor while the lock is held (`Authorised`). `SwapInv`,
also for any number of updaters and daemons, gives `BackupsAreRecoverable`,
`PartsAreBound` and `OutcomesAreTrue`. It says that as long as no download was
disturbed, downloads have no company (`Apart`), the files are what a recovery can
resolve (`FilesInv`), and every updater has the shape its program counter calls for:
`SwapShape` says which of target, backup and journal exist during a swap and what they
hold, `RollbackShape` what a plan of a recovery or roll-back still has to do,
`PartShape` whose bytes the part holds. The argument that one updater does not upset
another has two parts: two installs exclude each other by the lock (`LockHeld`), and a
download excludes both by `Apart`; so whoever touches a file is the only one whose
shape speaks of it (`WorksAlone`), and each action is a step of its own process alone
(`Transits`). Without the hypothesis that no download was disturbed the three
statements are false: see `RollbackHasPrevious` in section 6.

**`GatewayEventsProofs`**, for any connections, grants, publishers, drafts, limits and
changes of the directory. `FreshInv` gives `GrantsAreFresh`: no connection is ahead of
the directory (`NotAhead`), so a scope beyond the grant implies a generation that is
about to change or already has; this is why the generation is read before the grant
and bumped after it. `BusInv` gives `NothingIsSkipped`, `ShutdownReachesPeers` and
`QueuesAreBounded`: the lock has one holder, which offers its envelope once to each
subscriber (`Fanning`), who missed one is gone or about to be removed (`Removed`), the
shutdown event is published once and before it is signalled (`Announcing`), and what
is left of a flush covers its place in the queue (`Flushing`). `Accounted` gives
`BytesDecideRightly`: a count is the size of its queue, less what the holder of the
lock has enqueued and not yet added, plus what the connection has taken and not yet
subtracted.

**`GoalStoreProofs`**, for any processes, goals, revisions and attempts: `GoalsAlways`,
`WrittenGoalsAreKept`, `OnlyPowerCutsLoseGoals`, `IndexesAreWhole`,
`RevisionsStayLinear`. Records are
loaded without the lock they are saved under, so `GoalInv` says what a record in hand
can be compared with the stored one: its next revision, or already replaced
(`Derived`, `Prior`); an ordinal in hand is the next one or taken (`Fresh`). Of the
holder of the lock it says how far its writes have come (`Writes`), and of the disk
that the entry a power cut leaves is not older than the last acknowledged write
(`Durable`). An adopted orphan has no such entry; that only a power cut can lose it
follows from how a step may change the files at all (`FileSteps`).
A step of the holder moves the files forward only (`Forward`), which keeps what the
others have in hand; recovery may take entries out of the index, but only when nobody
has the store open.

Some facts are inductions: that a finite set of goals can be put in an order, has a
greatest member, or what the sizes of a queue add up to. They are proved by the
smallest counterexample: the library's `WFMin` (every non-empty set has a member
minimal in a well-founded relation) is first-order, and is applied to the set of sets,
or of numbers, for which the fact would fail.

## 5. Only model-checked

Liveness and everything that uses fairness, which the prover does not handle:
`DrainEnds`, `DrainedRuntimeSuspends` and `CancelledTurnEnds`, at the bounds of
section 3. The statements of section 6 that fail are TLC's counterexamples.

## 6. Findings

Three runs show a statement of the repository violated by what the code does
(quoted in `PROJECT.json`):

- `turn_stale`: the revisions of a session start again after a reset. The first save
  of a turn that was aborted before the reset, still on its worker, passes the
  comparison of revisions and identities of `save_session` (`claw-state/runtime.rs`
  384–398) over the turn that took the same identity since, and sets it back to
  Queued, although the port asks the adapter to "reject a stale write"
  (`ports/state.rs` 119). It takes three executions and a reset.
- `updater_loss`: a run that dies between writing the swap journal and moving the
  installation aside leaves a journal, the old target and no backup. Recovery
  takes that for a fresh install that failed and removes the target.
- `goal_lost`: a start that met a conflict finds its goal committed and repairs
  "older" active goals of a history it reads afterwards; a goal that replaced its
  own in between is closed with them, and none is active.

Statements that are defined in the modules, fail, and have no run of their own; of
the first four the configuration named shows the counterexample:

- `SessionRegistry!MemoryIsOwned` (`Registry_stale_memory.cfg`): sweep and eviction
  remove the entry under the lock and forget its approvals after it, without the
  tombstone that destroy uses, so a conversation created in between finds those of its
  predecessor (`runtime.rs` 1194), although the remembered map is said to match the
  registry (`approval.rs` 90). `LeftoversAreForgotten` is what does hold.
- `GatewayEvents!EmptyQueueAdmits` (`Gateway_empty_queue.cfg`): `recv()` takes an
  envelope first and lowers the byte count after it, so a publisher in between finds an
  empty queue that is charged for the envelope just taken, and the subscriber is marked
  as lagging. The comment says "An empty queue always admits one envelope" (`events.rs`
  735). `BytesReadAreSane` is what does hold: the count exceeds the queue by at most
  that one envelope.
- `GoalStore!AcknowledgedIsKept` (`Goal_adopted.cfg`): a save that finds its record
  already there, written by a process that was killed before it synced the directory,
  lists it and returns without syncing the directory either; a power cut then loses an
  acknowledged goal, although "A write is only acknowledged once both steps have run"
  (`store.rs` 25, 1037). `WrittenIsKept` and `OnlyPowerLosesGoals` are what does hold.
- `Updater!RollbackHasPrevious` (`Updater_overlap.cfg`): `download()` runs recovery
  without the lock `install()` holds. A second run takes the swap of the first for
  interrupted and puts the backup back; the first one's replacement fails, its
  roll-back removes the target, which is the old installation, and has no backup to
  restore (`lib.rs` 674, 3245), although "The installation itself is fail-safe"
  (`lib.rs` 849).
- `ApprovalBroker!TimedOutMeansExpired`: `withdraw_all(reason)` does not carry its
  reason to the waiter, which then reports an expiry before its deadline
  (`approval.rs` 344, 555).
- `ApprovalBroker!NoOrphanPrompt`: an entry withdrawn between its insertion and its
  presentation is dismissed before it is shown, and never again.
- `SessionRegistry!ShutdownLeavesNothing`: between submit's second check and its
  spawn another thread can complete `shutdown()` (`runtime.rs` 1393, 1714).
- `Updater!RecoveryIsPossible`: a recovery that dies after removing the target of
  a fresh install and before dropping the journal is refused from then on.
- `GatewayEvents!WireSequenceIsConsecutive`: the connection's broadcast counter
  advances for targeted events too (`connection.rs` 354), so the broadcasts a peer
  sees are numbered with holes; `claw-gateway-client` (`client.rs` 1483–1502)
  treats a hole as a gap and reconnects.

Observations without a statement to contradict:

- Two overlapping retirements of one session can erase the decisions of the
  conversation created between them (the checked instances have one retirement).
- A failed save of a terminal state leaves the turn record ahead of the session
  record (`runtime.rs` 1897).
- Updater: recovery is not idempotent, since a death after the restored backup and
  before the dropped journal meets the case of `updater_loss`. A Windows fresh install that fails while copying leaves its partial target without
  a journal.
- Gateway: the flush at shutdown delivers without revalidating.
- Goals: a crash between a replacement and the supersession leaves two active
  goals, and closing the newer brings the older back. Orphans created at the same
  instant are ordered by the text of their identifiers, so the tenth sorts before the
  ninth. An orphan with another
  objective refuses new starts until the store is reopened.

## 7. What is not modelled

- Texts, digests, encodings, timestamps (except where a deadline decides),
  diagnostics and metrics: no property is about them.
- Context loading, memory retrieval, summaries, tool and provider internals:
  data and outside effects. A tool batch or a provider call is its outcome.
- In `DurableRuns`: poll cursors, gateway resume records and provider delivery
  status; sessions shared by several runs; host task panics, which set the
  "storage failed" flag and leave the run to recovery.
- In `GatewayEvents`: requests, rate limits, topic filters, framing, nodes (only
  operators connect) and the client's side of a reconnect.
- In `GoalStore`: several sessions (they share the lock and nothing else), schema
  migration of an index, platforms that cannot sync a directory.
- In `Updater`: signatures, URL and path checks, archive extraction, clocks.
- Disk corruption and manual edits: recovery refuses such databases, and the
  models start from what the program itself wrote.
- The remaining components of section 1, with the reason in `PROJECT.json`. Most of
  the repository's lines are conversions, user interfaces, request mapping, tests
  and adapters to services outside; the models cover the parts whose correctness
  depends on the order of steps.

## 8. Plan

Order: what decides whether work is done twice or lost comes first.

1. Done: suspension, approvals, registry, turn execution with the store, durable
   runs, gateway events, goal store, updater; the proofs of section 4, which leave no
   checked safety property unproved.
2. Telegram batch cursor and Discord resume on top of `DurableRuns`: nothing is
   skipped, and what is polled again is not executed again.
3. Tool executor gates with revocation between them, composed with
   `ApprovalBroker`'s promise.
4. The gateway client's sequence tracker and reconnection, composed with
   `GatewayEvents`; an abstract "prefix, then one gap" specification.
5. Migration roll-back, circuit breaker epochs, worker fencing, plugin life cycle,
   MCP token refresh.
6. Pure algorithms: segmentation of replies against a reference definition,
   merge of configuration layers.
