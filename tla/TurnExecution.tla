--------------------------- MODULE TurnExecution ---------------------------
(***************************************************************************)
(* The turns of one session and the durable state they write:              *)
(* submit's choice of a turn identity, TurnExecution::run and drive        *)
(* (crates/claw-runtime/src/runtime.rs), and DurableStateStore's session,  *)
(* journal and turn operations (crates/claw-state/src/runtime.rs).         *)
(*                                                                         *)
(* A store operation runs on a blocking thread: it reads, and commits      *)
(* later with a comparison; it goes on when the turn that issued it is     *)
(* aborted, and a crash may cut it anywhere.  So at any time there may be  *)
(* commits under way of turns that are long gone, submits holding what     *)
(* they loaded before another turn ran, and a reset of the session.        *)
(*                                                                         *)
(* Data left out: messages, streamed text, tool arguments, timestamps and  *)
(* goals; a provider round is "open" until its response report is stored.  *)
(* The registry is reduced to the one live turn of the session (see        *)
(* SessionRegistry), tools and approvals to their outcome.                 *)
(***************************************************************************)
EXTENDS Integers, Sequences, SessionContract

CONSTANTS
    Executions,     \* submit() calls, each with the turn it may run
    MaxTurn,        \* the last turn identity (u64::MAX in the code)
    MaxRevision,    \* the last session revision (u64::MAX in the code)
    MaxRounds,      \* RuntimeConfig::max_rounds
    MaxCrashes,     \* bound on process crashes
    Inputs,         \* what turns begin with: subset of direct, goal, top
    Resets,         \* remove_session() calls
    None

ASSUME TurnAssumption ==
    /\ MaxTurn \in Nat /\ MaxRevision \in Nat /\ MaxRounds \in Nat \ {0} /\ MaxCrashes \in Nat
    /\ Inputs \subseteq {"direct", "goal", "top"}
    /\ Executions \cap Resets = {} /\ None \notin Executions

VARIABLES
    \* the database: session/, turn-high-water/, provider-rounds/, turn/
    sess, highWater, journal, record,
    fence,          \* recovery_required: writes refused until reopened
    \* executions
    live,           \* the registry's live turn
    pc, turn, rev,  \* the identity and revision the submit loaded
    machine, rounds, journalRev,
    draft,          \* the rounds of the journal write under way
    then,           \* where a store operation returns to, by its outcome
    op,             \* the store operation under way
    cancel, pause,  \* the cancel token and the pause flag
    reset,          \* remove_session() calls
    crashes,
    \* history
    admitted,       \* executions told that a snapshot of theirs is stored
    called,         \* <<execution, turn, round>> for every provider call
    illegal         \* executions whose machine refused an event

store == <<sess, highWater, journal, record, fence>>
local == <<turn, rev, machine, rounds, journalRev, draft>>
control == <<cancel, pause, reset, crashes>>
history == <<admitted, called, illegal>>
vars == <<store, live, pc, local, then, op, control, history>>

---------------------------------------------------------------------------
Turns == 0 .. MaxTurn               \* TurnId::FIRST is 0
Absent == -1                        \* no turn-high-water record

NoSession == [turn |-> Absent, machine |-> NewMachine, rev |-> 0]
SessionSnapshot == [turn : Turns, machine : TurnStateMachine, rev : Nat]

Rounds == Seq({"open", "reported"})
NoJournal == [rounds |-> <<>>, rev |-> 0, closed |-> FALSE]
ProviderRoundJournal == [rounds : Rounds, rev : Nat, closed : BOOLEAN]

NoRecord == [state |-> "none", rounds |-> <<>>]
TurnRecord == [state : SessionState, rounds : Rounds]

(* The three kinds of write, and how far one has come: handed to a worker, *)
(* having read what it will compare with, done.                            *)
NoOp == [kind |-> "none", phase |-> "none", seen |-> None]
OpKind == {"session", "journal", "turn", "none"}
OpPhase == {"queued", "read", "ok", "failed", "none"}

Nowhere == [ok |-> "idle", err |-> "idle"]

Init ==
    /\ sess = NoSession /\ highWater = Absent
    /\ journal = [t \in Turns |-> NoJournal] /\ record = [t \in Turns |-> NoRecord]
    /\ fence = FALSE
    /\ live = None
    /\ pc = [e \in Executions |-> "idle"]
    /\ turn = [e \in Executions |-> 0] /\ rev = [e \in Executions |-> 0]
    /\ machine = [e \in Executions |-> NewMachine]
    /\ rounds = [e \in Executions |-> <<>>] /\ draft = [e \in Executions |-> <<>>]
    /\ journalRev = [e \in Executions |-> 0]
    /\ then = [e \in Executions |-> Nowhere]
    /\ op = [e \in Executions |-> NoOp]
    /\ cancel = {} /\ pause = {}
    /\ reset = [r \in Resets |-> NoOp]
    /\ crashes = 0
    /\ admitted = {} /\ called = {} /\ illegal = {}

---------------------------------------------------------------------------
(* DurableStateStore::operation() and the writes it runs.                  *)

(* What the operation of e compares its commit with.                       *)
Seen(e) ==
    CASE op[e].kind = "session" -> <<sess, highWater>>
      [] OTHER                  -> <<journal[turn[e]]>>

(* Mutant: the revision the turn read is not compared.                     *)
SessionAcceptedBlind(e) ==
    /\ rev[e] < MaxRevision
    /\ turn[e] >= highWater
    /\ sess = NoSession => turn[e] # highWater

(* Mutant: after a reset the newest identity may be taken again.           *)
SessionAcceptedAfterReset(e) ==
    /\ sess.rev = rev[e] /\ rev[e] < MaxRevision
    /\ turn[e] >= highWater

(* save_session(): the stored revision is the one loaded, and the turn is  *)
(* not older than the newest one, nor that one after a reset.              *)
SessionAccepted(e) ==
    /\ sess.rev = rev[e] /\ rev[e] < MaxRevision
    /\ turn[e] >= highWater
    /\ sess = NoSession => turn[e] # highWater

(* validate_update(): one more open round, or the first report of the last *)
(* one, on top of the stored journal.                                      *)
AppendsOrReports(old, new) ==
    \/ /\ Len(new) = Len(old) + 1
       /\ SubSeq(new, 1, Len(old)) = old
       /\ new[Len(new)] = "open"
    \/ /\ Len(new) = Len(old) /\ Len(old) > 0
       /\ SubSeq(new, 1, Len(new) - 1) = SubSeq(old, 1, Len(old) - 1)
       /\ old[Len(old)] = "open" /\ new[Len(new)] = "reported"

(* save_provider_journal().                                                *)
JournalAccepted(e) ==
    LET stored == journal[turn[e]]
    IN  /\ record[turn[e]] = NoRecord
        /\ ~stored.closed
        /\ stored.rev = journalRev[e]
        /\ AppendsOrReports(stored.rounds, draft[e])

(* save_turn(): no other result owns the identity and the journal, if any, *)
(* holds the same rounds.  (An identical result would be accepted as well; *)
(* run() never saves one twice.)                                           *)
TurnAccepted(e) ==
    LET stored == journal[turn[e]]
    IN  /\ record[turn[e]] = NoRecord
        /\ stored # NoJournal => ~stored.closed /\ stored.rounds = rounds[e]

Accepted(e) ==
    CASE op[e].kind = "session" -> SessionAccepted(e)
      [] op[e].kind = "journal" -> JournalAccepted(e)
      [] OTHER                  -> TurnAccepted(e)

(* The outcome waits for the turn, or for nobody if the turn is gone.      *)
Finish(e, phase) ==
    op' = [op EXCEPT ![e] = IF pc[e] = "saving" THEN [@ EXCEPT !.phase = phase, !.seen = None]
                            ELSE NoOp]

(* The worker has read the database.                                       *)
OpReads(e) ==
    /\ op[e].phase = "queued"
    /\ IF Accepted(e)
         THEN op' = [op EXCEPT ![e].phase = "read", ![e].seen = Seen(e)]
         ELSE Finish(e, "failed")
    /\ UNCHANGED <<store, live, pc, local, then, control, history>>

(* No permit, store closed, storage failed before the commit, or the       *)
(* worker panicked, which fences the store.                                *)
OpFails(e) ==
    /\ op[e].phase = "queued"
    /\ Finish(e, "failed")
    /\ fence' \in {fence, TRUE}
    /\ UNCHANGED <<sess, highWater, journal, record, live, pc, local, then, control, history>>

(* Mutant: the record is published without sealing the journal.            *)
PublishUnsealed(e) ==
    LET t == turn[e]
    IN  \/ /\ op[e].kind = "session"
           /\ sess' = [turn |-> t, machine |-> machine[e], rev |-> rev[e] + 1]
           /\ highWater' = t
           /\ UNCHANGED <<journal, record>>
        \/ /\ op[e].kind = "journal"
           /\ journal' = [journal EXCEPT ![t] = [rounds |-> draft[e],
                                                  rev |-> journalRev[e] + 1, closed |-> FALSE]]
           /\ UNCHANGED <<sess, highWater, record>>
        \/ /\ op[e].kind = "turn"
           /\ record' = [record EXCEPT ![t] = [state |-> machine[e].state,
                                                rounds |-> rounds[e]]]
           /\ UNCHANGED <<sess, highWater, journal>>

(* The records the operation of e publishes.                               *)
Publish(e) ==
    LET t == turn[e]
    IN  \/ /\ op[e].kind = "session"
           /\ sess' = [turn |-> t, machine |-> machine[e], rev |-> rev[e] + 1]
           /\ highWater' = t
           /\ UNCHANGED <<journal, record>>
        \/ /\ op[e].kind = "journal"
           /\ journal' = [journal EXCEPT ![t] = [rounds |-> draft[e],
                                                  rev |-> journalRev[e] + 1, closed |-> FALSE]]
           /\ UNCHANGED <<sess, highWater, record>>
        \/ /\ op[e].kind = "turn"
           /\ record' = [record EXCEPT ![t] = [state |-> machine[e].state,
                                                rounds |-> rounds[e]]]
           /\ journal' = [journal EXCEPT ![t] = [rounds |-> rounds[e], rev |-> @.rev + 1,
                                                  closed |-> TRUE]]
           /\ UNCHANGED <<sess, highWater>>

Unpublished == UNCHANGED <<sess, highWater, journal, record>>

Unchanged(e) ==
    /\ op[e].seen = Seen(e)
    /\ op[e].kind = "turn" => record[turn[e]] = NoRecord

(* commit(): refused while fenced or when a compared record changed.       *)
OpRefused(e) ==
    /\ op[e].phase = "read"
    /\ fence \/ ~Unchanged(e)
    /\ Finish(e, "failed")
    /\ UNCHANGED <<store, live, pc, local, then, control, history>>

OpCommits(e) ==
    /\ op[e].phase = "read"
    /\ ~fence /\ Unchanged(e)
    /\ Publish(e)
    /\ Finish(e, "ok")
    /\ UNCHANGED <<fence, live, pc, local, then, control, history>>

(* The database reports a failed commit: it may have happened or not, and  *)
(* every later write is refused.                                           *)
OpUnknown(e) ==
    /\ op[e].phase = "read"
    /\ ~fence /\ Unchanged(e)
    /\ fence' = TRUE
    /\ Publish(e) \/ Unpublished
    /\ Finish(e, "failed")
    /\ UNCHANGED <<live, pc, local, then, control, history>>

(* The awaiting turn takes the answer up.                                  *)
OpReturns(e) ==
    /\ pc[e] = "saving"
    /\ op[e].phase \in {"ok", "failed"}
    /\ LET ok == op[e].phase = "ok"
       IN  /\ pc' = [pc EXCEPT ![e] = IF ok THEN then[e].ok ELSE then[e].err]
           /\ rev' = [rev EXCEPT ![e] = IF ok /\ op[e].kind = "session" THEN @ + 1 ELSE @]
           /\ rounds' = [rounds EXCEPT ![e] =
                           IF ok /\ op[e].kind = "journal" THEN draft[e] ELSE @]
           /\ journalRev' = [journalRev EXCEPT ![e] =
                               IF ok /\ op[e].kind = "journal" THEN @ + 1 ELSE @]
           /\ admitted' = IF ok /\ op[e].kind = "session" THEN admitted \cup {e} ELSE admitted
    /\ op' = [op EXCEPT ![e] = NoOp]
    /\ then' = [then EXCEPT ![e] = Nowhere]
    /\ draft' = [draft EXCEPT ![e] = <<>>]
    /\ UNCHANGED <<store, live, turn, machine, control, called, illegal>>

---------------------------------------------------------------------------
(* channel_command("reset"): destroy_session(), then remove_session(), all *)
(* under the write side of the daemon's admission lock.  Every submit      *)
(* holds the read side from before its first read until it has its claim.  *)

Resetting == \E r \in Resets : reset[r].phase \in {"queued", "read"}

(* The lock is taken and the live turn of the session is cancelled.        *)
ResetBegins(r) ==
    /\ reset[r] = NoOp /\ ~Resetting
    /\ \A e \in Executions : pc[e] \notin {"nextTurn", "claim"}
    /\ reset' = [reset EXCEPT ![r] = [kind |-> "session", phase |-> "queued", seen |-> None]]
    /\ cancel' = cancel \cup ({live} \cap Executions)
    /\ UNCHANGED <<store, live, pc, local, then, op, pause, crashes, history>>

(* The turn was joined or aborted; what it left to the store's workers     *)
(* goes on.  remove_session() reads the pointer, finds none, or fails.     *)
ResetReads(r) ==
    /\ reset[r].phase = "queued"
    /\ live = None
    /\ \/ /\ sess # NoSession
          /\ reset' = [reset EXCEPT ![r] = [@ EXCEPT !.phase = "read", !.seen = sess]]
          /\ UNCHANGED fence
       \/ /\ reset' = [reset EXCEPT ![r].phase = "ok"]
          /\ fence' \in {fence, TRUE}
    /\ UNCHANGED <<sess, highWater, journal, record, live, pc, local, then, op, cancel, pause,
                   crashes, history>>

(* It deletes the pointer it read; high-water mark and turns stay.         *)
ResetCommits(r) ==
    /\ reset[r].phase = "read"
    /\ \/ /\ fence \/ sess # reset[r].seen
          /\ UNCHANGED <<sess, fence>>
       \/ /\ ~fence /\ sess = reset[r].seen
          /\ \/ sess' = NoSession /\ UNCHANGED fence
             \/ sess' \in {sess, NoSession} /\ fence' = TRUE
    /\ reset' = [reset EXCEPT ![r] = [@ EXCEPT !.phase = "ok", !.seen = None]]
    /\ UNCHANGED <<highWater, journal, record, live, pc, local, then, op, cancel, pause,
                   crashes, history>>

---------------------------------------------------------------------------
(* submit_with(): the identity of the turn.                                *)

Goto(e, step) == pc' = [pc EXCEPT ![e] = step]

(* load_session(): one past the stored turn, on top of its revision.       *)
LoadSession(e) ==
    /\ pc[e] = "idle"
    /\ ~Resetting
    /\ \/ /\ sess # NoSession
          /\ sess.turn < MaxTurn
          /\ turn' = [turn EXCEPT ![e] = sess.turn + 1]
          /\ rev' = [rev EXCEPT ![e] = sess.rev]
          /\ Goto(e, "claim")
       \/ /\ sess = NoSession
          /\ Goto(e, "nextTurn")
          /\ UNCHANGED <<turn, rev>>
    /\ UNCHANGED <<store, live, machine, rounds, journalRev, draft, then, op, control, history>>

(* next_turn(): one past the high-water mark.                              *)
NextTurn(e) ==
    /\ pc[e] = "nextTurn"
    /\ highWater < MaxTurn
    /\ turn' = [turn EXCEPT ![e] = highWater + 1]
    /\ Goto(e, "claim")
    /\ UNCHANGED <<store, live, rev, machine, rounds, journalRev, draft, then, op, control,
                   history>>

(* Suspended, shutting down, a read failed, no identity is left, or the    *)
(* registry refuses: the session has a live turn, or the submit is stale.  *)
SubmitRefused(e) ==
    /\ pc[e] \in {"idle", "nextTurn", "claim"}
    /\ Goto(e, "ended")
    /\ UNCHANGED <<store, live, local, then, op, control, history>>

Claim(e) ==
    /\ pc[e] = "claim"
    /\ live = None
    /\ live' = e
    /\ Goto(e, "enqueue")
    /\ UNCHANGED <<store, local, then, op, control, history>>

---------------------------------------------------------------------------
(* TurnExecution::run() and drive().                                       *)

(* Hands one write to the store and waits for it.                          *)
Save(e, kind, ok, err) ==
    /\ op' = [op EXCEPT ![e] = [kind |-> kind, phase |-> "queued", seen |-> None]]
    /\ then' = [then EXCEPT ![e] = [ok |-> ok, err |-> err]]
    /\ Goto(e, "saving")

(* advance(): applies the event to the machine and saves the snapshot; an  *)
(* error of either is the error of the caller.                             *)
Advance(e, event, ok, err) ==
    /\ IF accepts(machine[e].state, event)
         THEN /\ machine' = [machine EXCEPT ![e] = Applied(@, event)]
              /\ Save(e, "session", ok, err)
              /\ UNCHANGED illegal
         ELSE /\ Goto(e, err)
              /\ illegal' = illegal \cup {e}
              /\ UNCHANGED <<machine, op, then>>
    /\ UNCHANGED <<store, live, turn, rev, rounds, journalRev, draft, control, admitted,
                   called>>

(* persist_provider_journal() of the given rounds.                         *)
SaveJournal(e, new, ok, err) ==
    /\ draft' = [draft EXCEPT ![e] = new]
    /\ Save(e, "journal", ok, err)
    /\ UNCHANGED <<store, live, turn, rev, machine, rounds, journalRev, control, history>>

(* Only the control point changes.                                         *)
Step(e, step) ==
    /\ Goto(e, step)
    /\ UNCHANGED <<store, live, local, then, op, control, history>>

LastRound(e) == rounds[e][Len(rounds[e])]

(* persist_provider_report(): the adapter has no report or the one already *)
(* stored, a first one to store, or an invalid or contradicting one.       *)
PersistReport(e, ok, err) ==
    \/ Step(e, ok)
    \/ /\ LastRound(e) = "open"
       /\ SaveJournal(e, [rounds[e] EXCEPT ![Len(rounds[e])] = "reported"], ok, err)
    \/ Step(e, err)

(* Any port the step awaits may fail, which ends drive() with an error.    *)
Fails(e) == Step(e, "failing")

Enqueue(e) == pc[e] = "enqueue" /\ Advance(e, "Enqueue", "start", "release")

Start(e) == pc[e] = "start" /\ Advance(e, "Start", "boot", "release")

(* Context bootstrap, then a direct tool, a goal directive or the rounds.  *)
Bootstrap(e) ==
    /\ pc[e] = "boot"
    /\ Fails(e) \/ \E input \in Inputs : Step(e, input)

(* An authenticated goal directive passes through the approval states.     *)
GoalDirective(e) ==
    \/ pc[e] = "goal" /\ Advance(e, "Stream", "goalAsk", "failing")
    \/ pc[e] = "goalAsk" /\ Advance(e, "RequestApproval", "goalRun", "failing")
    \/ /\ pc[e] = "goalRun"
       /\ Advance(e, "ResolveApproval", "goalDone", "failing") \/ Fails(e)
    \/ /\ pc[e] = "goalDone"
       /\ \/ Step(e, "top") \/ Fails(e)
          \/ Advance(e, "Cancel", "record", "failing")
          \/ Advance(e, "Block", "record", "failing")

(* quiesce(): a turn that is cancelled, or whose authority was revoked,    *)
(* stops; a paused one waits.                                              *)
Quiesce(e, step, wait, next) ==
    /\ pc[e] = step
    /\ \/ Advance(e, "Cancel", "record", "failing")
       \/ e \notin cancel /\ e \in pause /\ Advance(e, "Pause", wait, "failing")
       \/ e \notin cancel /\ e \notin pause /\ Step(e, next)

(* Mutant: a paused turn waits for the operator alone.                     *)
PausedDeaf(e, wait, next) ==
    /\ pc[e] = wait
    /\ e \notin pause
    /\ Advance(e, "Resume", next, "failing")

(* The pause ends with the flag, or with a cancellation.                   *)
Paused(e, wait, next) ==
    /\ pc[e] = wait
    /\ \/ e \notin pause /\ Advance(e, "Resume", next, "failing")
       \/ e \in pause /\ e \in cancel /\ Advance(e, "Cancel", "record", "failing")

Top(e) ==
    \/ Quiesce(e, "top", "paused", "budget") \/ Paused(e, "paused", "budget")
    \/ Quiesce(e, "direct", "directPaused", "directOpen")
    \/ Paused(e, "directPaused", "directOpen")

(* Mutant: the provider is called before the round is in the journal.      *)
AdmitUnjournalled(e) ==
    /\ pc[e] = "budget"
    /\ rounds' = [rounds EXCEPT ![e] = Append(@, "open")]
    /\ Goto(e, "call")
    /\ UNCHANGED <<store, live, turn, rev, machine, journalRev, draft, then, op, control,
                   history>>

(* The budget may be spent or unknown; otherwise the round is journalled   *)
(* before anything is sent to the provider.                                *)
Admit(e) ==
    /\ pc[e] = "budget"
    /\ \/ Advance(e, "Block", "record", "failing")
       \/ Fails(e)
       \/ SaveJournal(e, Append(rounds[e], "open"), "call", "failing")

(* start_round(), unless cancelled while the journal was written.          *)
CallProvider(e) ==
    /\ pc[e] = "call"
    /\ IF e \in cancel
         THEN Advance(e, "Cancel", "record", "failing")
         ELSE /\ called' = called \cup {<<e, turn[e], Len(rounds[e])>>}
              /\ Goto(e, "opening")
              /\ UNCHANGED <<store, live, local, then, op, control, admitted, illegal>>

(* The cancellation is polled before the opening stream.                   *)
Opening(e) ==
    /\ pc[e] = "opening"
    /\ \/ e \in cancel /\ Advance(e, "Cancel", "record", "failing")
       \/ e \notin cancel /\ (Fails(e) \/ PersistReport(e, "opened", "failing"))

(* Only the first round of a turn still has to announce its stream.        *)
Opened(e) ==
    /\ pc[e] = "opened"
    /\ IF accepts(machine[e].state, "Stream")
         THEN Advance(e, "Stream", "stream", "failing")
         ELSE Step(e, "stream")

(* The chunks: the stream breaks, is cancelled or ends.                    *)
Stream(e) ==
    \/ /\ pc[e] = "stream"
       /\ \/ PersistReport(e, "failing", "failing")
          \/ e \in cancel /\ PersistReport(e, "cancelled", "failing")
          \/ PersistReport(e, "decide", "failing")
    \/ pc[e] = "cancelled" /\ Advance(e, "Cancel", "record", "failing")

(* The round's message: malformed, final, or with tool calls, which may be *)
(* disabled or unauthorised.  Only a tool can have changed the workspace.  *)
Decide(e) ==
    /\ pc[e] = "decide"
    /\ \/ Fails(e)
       \/ Advance(e, "Complete", "record", "failing")
       \/ Len(rounds[e]) > 1 /\ Advance(e, "CompleteWithChanges", "record", "failing")
       \/ Advance(e, "Block", "record", "failing")
       \/ Step(e, "tool")

(* One tool call, with or without an approval.                             *)
Tool(e, from, waiting, bare, done) ==
    \/ /\ pc[e] = from
       /\ Advance(e, "RequestApproval", waiting, "failing") \/ Step(e, bare)
    \/ /\ pc[e] = waiting
       /\ Advance(e, "ResolveApproval", done, "failing") \/ Fails(e)
    \/ /\ pc[e] = bare
       /\ Step(e, done) \/ Fails(e)

(* After a tool: cancelled, the next call, the next round, or no round     *)
(* left.                                                                   *)
ToolDone(e) ==
    /\ pc[e] = "toolDone"
    /\ \/ Advance(e, "Cancel", "record", "failing")
       \/ /\ e \notin cancel
          /\ \/ Step(e, "tool") \/ Fails(e)
             \/ Len(rounds[e]) < MaxRounds /\ Step(e, "top")
             \/ Len(rounds[e]) >= MaxRounds /\ Advance(e, "Block", "record", "failing")

(* drive_direct_tool(): one tool call and no provider round.               *)
DirectTool(e) ==
    \/ /\ pc[e] = "directOpen"
       /\ Advance(e, "Stream", "directTool", "failing") \/ Fails(e)
    \/ Tool(e, "directTool", "directWaiting", "directBare", "directDone")
    \/ /\ pc[e] = "directDone"
       /\ \/ Advance(e, "Cancel", "record", "failing")
          \/ /\ e \notin cancel
             /\ \E event \in {"Block", "Complete", "CompleteWithChanges"} :
                   Advance(e, event, "record", "failing")

(* An error of drive(): the turn fails unless its machine already ended.   *)
Failing(e) ==
    /\ pc[e] = "failing"
    /\ IF accepts(machine[e].state, "Fail")
         THEN Advance(e, "Fail", "record", "release")
         ELSE Step(e, "record")

(* persist_turn(), the last write of run().                                *)
PersistTurn(e) ==
    /\ pc[e] = "record"
    /\ Save(e, "turn", "release", "release")
    /\ UNCHANGED <<store, live, local, control, history>>

(* A task that is gone, with its token, keeps nothing but its identity and *)
(* what a store operation under way still uses.                            *)
Gone(e) ==
    /\ live' = None
    /\ Goto(e, "ended")
    /\ cancel' = cancel \ {e} /\ pause' = pause \ {e}
    /\ then' = [then EXCEPT ![e] = Nowhere]
    /\ IF op[e] = NoOp
         THEN /\ machine' = [machine EXCEPT ![e] = NewMachine]
              /\ rev' = [rev EXCEPT ![e] = 0]
              /\ rounds' = [rounds EXCEPT ![e] = <<>>]
              /\ draft' = [draft EXCEPT ![e] = <<>>]
              /\ journalRev' = [journalRev EXCEPT ![e] = 0]
         ELSE UNCHANGED <<machine, rev, rounds, draft, journalRev>>
    /\ UNCHANGED <<store, turn, op, reset, crashes, history>>

(* The task ends and its guard releases the session.                       *)
Release(e) == pc[e] = "release" /\ Gone(e)

---------------------------------------------------------------------------
(* The surroundings.                                                       *)

(* A retirement aborts the task at an await: the store operation goes on.  *)
Abort(e) == live = e /\ Gone(e)

Cancel(e) ==
    /\ live = e
    /\ e \notin cancel
    /\ cancel' = cancel \cup {e}
    /\ UNCHANGED <<store, live, pc, local, then, op, pause, reset, crashes, history>>

(* set_paused(), where quiesce() may see the difference.                   *)
SetPaused(e) ==
    /\ live = e
    /\ pc[e] \in {"top", "direct", "paused", "directPaused"}
    /\ pause' = IF e \in pause THEN pause \ {e} ELSE pause \cup {e}
    /\ UNCHANGED <<store, live, pc, local, then, op, cancel, reset, crashes, history>>

(* The process dies and reopens its database.                              *)
Crash ==
    /\ crashes < MaxCrashes
    /\ crashes' = crashes + 1
    /\ fence' = FALSE
    /\ live' = None
    /\ pc' = [e \in Executions |-> IF pc[e] = "idle" THEN "idle" ELSE "ended"]
    /\ op' = [e \in Executions |-> NoOp]
    /\ then' = [e \in Executions |-> Nowhere]
    /\ machine' = [e \in Executions |-> NewMachine]
    /\ rev' = [e \in Executions |-> 0] /\ journalRev' = [e \in Executions |-> 0]
    /\ rounds' = [e \in Executions |-> <<>>] /\ draft' = [e \in Executions |-> <<>>]
    /\ cancel' = {} /\ pause' = {}
    /\ reset' = [r \in Resets |-> IF reset[r] = NoOp THEN NoOp
                                  ELSE [reset[r] EXCEPT !.phase = "ok", !.seen = None]]
    /\ UNCHANGED <<sess, highWater, journal, record, turn, history>>

---------------------------------------------------------------------------
Submit(e) == LoadSession(e) \/ NextTurn(e) \/ SubmitRefused(e) \/ Claim(e)

Worker(e) == OpReads(e) \/ OpFails(e) \/ OpRefused(e) \/ OpCommits(e) \/ OpUnknown(e)

Run(e) ==
    \/ OpReturns(e) \/ Enqueue(e) \/ Start(e) \/ Bootstrap(e) \/ GoalDirective(e)
    \/ Top(e) \/ Admit(e) \/ CallProvider(e) \/ Opening(e) \/ Opened(e) \/ Stream(e)
    \/ Decide(e) \/ Tool(e, "tool", "toolWaiting", "toolBare", "toolDone") \/ ToolDone(e)
    \/ DirectTool(e) \/ Failing(e) \/ PersistTurn(e) \/ Release(e)

Next ==
    \/ \E e \in Executions :
          Submit(e) \/ Worker(e) \/ Run(e) \/ Abort(e) \/ Cancel(e) \/ SetPaused(e)
    \/ \E r \in Resets : ResetBegins(r) \/ ResetReads(r) \/ ResetCommits(r)
    \/ Crash

Spec == Init /\ [][Next]_vars

(* Blocking workers run, and a cancelled turn is scheduled: every await of *)
(* it races the cancel token or is one of the store's.  Turns that are not *)
(* cancelled may wait for ever.                                            *)
FairSpec ==
    /\ Spec
    /\ \A e \in Executions : WF_vars(Worker(e)) /\ WF_vars(e \in cancel /\ Run(e))

---------------------------------------------------------------------------
(* Properties.                                                             *)

(* Types of the stored records, the machines and the operations under way. *)
TypeOK ==
    /\ sess \in SessionSnapshot \cup {NoSession}
    /\ highWater \in Turns \cup {Absent}
    /\ \A t \in Turns :
          /\ journal[t].rounds \in Rounds /\ journal[t].rev \in Nat
          /\ journal[t].closed \in BOOLEAN
          /\ record[t] = NoRecord \/ record[t].state \in SessionState
    /\ fence \in BOOLEAN
    /\ live \in Executions \cup {None}
    /\ turn \in [Executions -> Turns]
    /\ machine \in [Executions -> TurnStateMachine]
    /\ \A e \in Executions :
          /\ rev[e] \in Nat /\ journalRev[e] \in Nat
          /\ rounds[e] \in Rounds /\ draft[e] \in Rounds
          /\ op[e].kind \in OpKind /\ op[e].phase \in OpPhase
    /\ cancel \subseteq Executions /\ pause \subseteq Executions

(* A turn identity is given to one execution: of all that chose it from    *)
(* the same stale reading, before or after a reset, at most one is ever    *)
(* told that it was saved, and so goes on to run.                          *)
OneOwnerPerTurn ==
    \A e, f \in admitted : turn[e] = turn[f] => e = f

(* Whatever is sent to a provider was durably journalled before, and no    *)
(* round of a turn is sent twice, whoever runs it.                         *)
CallsAreJournalled ==
    /\ \A c \in called : c[3] <= Len(journal[c[2]].rounds)
    /\ \A c, d \in called : c[2] = d[2] /\ c[3] = d[3] => c = d

(* A terminal record and the sealed journal of its turn agree.             *)
RecordMatchesJournal ==
    \A t \in Turns :
        record[t] # NoRecord
            => journal[t].closed /\ journal[t].rounds = record[t].rounds

(* A stored snapshot is one that restore() accepts after a restart.        *)
SnapshotRestorable == Restorable(sess.machine)

(* drive() never asks its machine for a transition the contract forbids,   *)
(* however pauses, approvals, rounds and failed saves follow each other.   *)
NeverIllegal == illegal = {}

WasReset == \E r \in Resets : reset[r].phase = "ok"

History == INSTANCE SessionHistory
             WITH stored <- sess.machine, newest <- highWater, wasReset <- WasReset

(* Whatever commits outlive their turns, the stored session pointer is a   *)
(* session history, and only in a session that was reset may an identity   *)
(* be begun a second time (claw-state/src/runtime.rs:384).                 *)
HistoryUnlessReset == History!SpecUnlessReset

(* Violated.  ports/state.rs:119: the adapter rejects a stale write with   *)
(* Conflict, so the stored pointer is a session history, reset or not.     *)
StoredHistoryIsLegal == History!Spec

(* A cancelled turn gives its session back, paused or not.                 *)
CancelledTurnEnds ==
    \A e \in Executions : live = e /\ e \in cancel ~> live # e
=============================================================================
