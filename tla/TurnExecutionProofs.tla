-------------------------- MODULE TurnExecutionProofs --------------------------
(***************************************************************************)
(* What is proved of the turns of a session, for any number of submits,    *)
(* resets and crashes, any number of rounds and any limits.  Three         *)
(* invariants, each resting on the one before it:                          *)
(*   Control  - where an execution stands, which of them is live and what  *)
(*              it has given to the store's workers;                       *)
(*   Journal  - which execution may write the journal of a turn;           *)
(*   Session  - how far what an execution believes is from what is stored. *)
(***************************************************************************)
EXTENDS TurnExecution, SequenceTheorems, TLAPS

Before == {"idle", "nextTurn", "claim"}

\* The points of run() and drive() between two awaits of the store.
Drive == {"enqueue", "start", "boot", "direct", "goal", "top", "goalAsk", "goalRun", "goalDone",
          "paused", "directPaused", "budget", "directOpen", "call", "opening", "opened",
          "stream", "cancelled", "decide", "tool", "toolWaiting", "toolBare", "toolDone",
          "directTool", "directWaiting", "directBare", "directDone", "failing", "record",
          "release"}

Points == Before \cup Drive \cup {"saving", "ended"}

\* In drive(), or waiting there for the store.
Running(e) == pc[e] \in Drive \cup {"saving"}

Snapshots == SessionSnapshot \cup {NoSession}

\* What a store operation may have read.
SeenValues ==
    {None} \cup (Snapshots \X (Turns \cup {Absent})) \cup {<<j>> : j \in ProviderRoundJournal}

Operations == [kind : OpKind, phase : OpPhase, seen : SeenValues]
Removals == [kind : OpKind, phase : OpPhase, seen : Snapshots \cup {None}]
Targets == [ok : Drive \cup {"idle"}, err : Drive \cup {"idle"}]

StoreTypes ==
    /\ sess \in Snapshots
    /\ highWater \in Turns \cup {Absent}
    /\ journal \in [Turns -> ProviderRoundJournal]
    /\ record \in [Turns -> TurnRecord \cup {NoRecord}]
    /\ fence \in BOOLEAN

TaskTypes ==
    /\ live \in Executions \cup {None}
    /\ pc \in [Executions -> Points]
    /\ turn \in [Executions -> Turns] /\ rev \in [Executions -> Nat]
    /\ machine \in [Executions -> TurnStateMachine]
    /\ rounds \in [Executions -> Rounds] /\ draft \in [Executions -> Rounds]
    /\ journalRev \in [Executions -> Nat]
    /\ then \in [Executions -> Targets]
    /\ cancel \subseteq Executions /\ pause \subseteq Executions

OpTypes ==
    /\ op \in [Executions -> Operations]
    /\ reset \in [Resets -> Removals]
    /\ admitted \subseteq Executions
    /\ called \subseteq Executions \X Turns \X Nat
    /\ illegal \subseteq Executions

Types == StoreTypes /\ TaskTypes /\ OpTypes

\* The live turn is the one that runs, and an operation belongs to a turn that
\* awaits it or to one that is gone.
Ownership ==
    /\ \A e \in Executions : live = e <=> Running(e)
    /\ \A e \in Executions : op[e] # NoOp => op[e].phase # "none" /\ op[e].kind # "none"
    /\ \A e \in Executions : pc[e] = "saving" => op[e] # NoOp
    /\ \A e \in Executions : pc[e] \in Before \cup Drive => op[e] = NoOp

\* What a turn has before it runs.
Unstarted ==
    \A e \in Executions : pc[e] \in Before =>
        /\ machine[e] = NewMachine /\ rounds[e] = <<>> /\ draft[e] = <<>>
        /\ journalRev[e] = 0 /\ e \notin admitted
        /\ pc[e] # "claim" => rev[e] = 0

\* Where a save returns to: an error ends the turn, and only a turn that was
\* told of its first snapshot goes on.
Returns ==
    /\ \A e \in Executions : pc[e] = "saving" =>
          /\ then[e].ok \in Drive \ {"enqueue"} /\ then[e].err \in {"failing", "release"}
          /\ op[e].kind = "turn" => then[e].ok = "release" /\ then[e].err = "release"
          /\ then[e].ok = "call" => op[e].kind = "journal"
          /\ e \notin admitted => op[e].kind = "session" /\ then[e].err = "release"
    /\ \A e \in Executions : pc[e] \in Drive \ {"enqueue", "release"} => e \in admitted
    /\ \A e \in Executions : pc[e] = "enqueue" => e \notin admitted /\ machine[e] = NewMachine

\* A reset excludes every submit that has not claimed, and waits for the turn.
ResetExcludes ==
    /\ Resetting => \A e \in Executions : pc[e] \notin {"nextTurn", "claim"}
    /\ \A r \in Resets : reset[r].phase = "read" => live = None

\* Machines are ones restore() accepts; one handed to the store has left Draft.
Machines ==
    /\ \A e \in Executions : Restorable(machine[e])
    /\ \A e \in Executions : op[e].kind = "session" => machine[e].state # "Draft"
    /\ Restorable(sess.machine)

Control == Types /\ Ownership /\ Unstarted /\ Returns /\ ResetExcludes /\ Machines

---------------------------------------------------------------------------
\* An execution whose journal write was acknowledged.
Journalled(e) ==
    \/ journalRev[e] > 0
    \/ pc[e] = "saving" /\ op[e].kind = "journal" /\ op[e].phase = "ok"
    \/ \E c \in called : c[1] = e

\* What a journal or turn operation that has read will compare with.
JournalRead(e) ==
    op[e].phase = "read" =>
        /\ op[e].kind = "journal" =>
              \E j \in ProviderRoundJournal :
                 /\ op[e].seen = <<j>>
                 /\ ~j.closed /\ j.rev = journalRev[e] /\ Len(j.rounds) <= Len(draft[e])
        /\ op[e].kind = "turn" =>
              \E j \in ProviderRoundJournal :
                 /\ op[e].seen = <<j>>
                 /\ j # NoJournal => j.rounds = rounds[e]

ReadJournal == \A e \in Executions : JournalRead(e)

\* The journal is never behind the turn that writes it.
JournalAhead ==
    \A e \in Executions :
        /\ Len(rounds[e]) <= Len(journal[turn[e]].rounds)
        /\ pc[e] = "saving" /\ op[e].kind = "journal" /\ op[e].phase = "ok"
              => Len(draft[e]) <= Len(journal[turn[e]].rounds)

\* One writer per journal.
OneWriter ==
    /\ \A e \in Executions : Journalled(e) => journal[turn[e]].rev > 0
    /\ \A e, f \in Executions :
          Journalled(e) /\ Journalled(f) /\ turn[e] = turn[f] => e = f
    /\ \A e \in Executions : pc[e] = "call" => journalRev[e] > 0

Calls ==
    /\ \A c \in called : c[2] = turn[c[1]] /\ pc[c[1]] \notin Before
    /\ \A c \in called : c[3] <= Len(journal[c[2]].rounds)

Journal ==
    /\ ReadJournal /\ JournalAhead /\ OneWriter /\ Calls
    /\ RecordMatchesJournal

---------------------------------------------------------------------------
Queued == Applied(NewMachine, "Enqueue")

\* The stored session is of the newest turn.
StoredIsNewest ==
    sess = NoSession \/ (sess.turn = highWater /\ sess.rev > 0 /\ sess.machine # NewMachine)

\* e's view of the stored session is current.
Current(e) == sess.turn = turn[e] /\ sess.rev = rev[e]

Same(e) == Current(e) => sess.machine = machine[e]

Follows(e) ==
    Current(e) => \E event \in SessionEvent :
                     /\ accepts(sess.machine.state, event)
                     /\ machine[e] = Applied(sess.machine, event)

MayFail(e) ==
    Current(e) => sess.machine = machine[e] \/ accepts(sess.machine.state, "Fail")

Stored(e) ==
    sess.turn = turn[e] /\ sess.rev = rev[e] + 1 => sess.machine = machine[e]

\* What a running turn knows of the stored machine.
Believes(e) ==
    /\ pc[e] \in Drive \ {"enqueue", "failing", "record", "release"} => Same(e)
    /\ pc[e] = "failing" => MayFail(e)
    /\ pc[e] = "saving" /\ op[e].kind = "journal" => Same(e)
    /\ pc[e] = "saving" /\ op[e].kind = "session" /\ op[e].phase = "ok" => Stored(e)
    /\ pc[e] = "saving" /\ op[e].kind = "session" /\ op[e].phase = "failed"
       /\ e \in admitted => MayFail(e)

\* What a session operation under way will write.
Writes(e) ==
    op[e].kind = "session" /\ op[e].phase \in {"queued", "read"} =>
        IF e \in admitted THEN Follows(e) ELSE machine[e] = Queued

SessionRead(e) ==
    op[e].phase = "read" /\ op[e].kind = "session" =>
        \E s \in Snapshots, h \in Turns \cup {Absent} :
           /\ op[e].seen = <<s, h>>
           /\ s.rev = rev[e] /\ turn[e] >= h
           /\ s = NoSession => turn[e] # h

\* Told of a snapshot, or about to be.
Told(e) == pc[e] = "saving" /\ op[e].kind = "session" /\ op[e].phase = "ok"
Owner(e) == e \in admitted \/ Told(e)

\* The stored session is never behind an owner of its turn.
Owns(e) ==
    /\ Owner(e) => turn[e] <= highWater
    /\ e \in admitted /\ sess.turn = turn[e] => sess.rev >= rev[e]
    /\ Told(e) /\ sess.turn = turn[e] => sess.rev >= rev[e] + 1

\* A reading is stale once its revision is; only a reset makes it look fresh
\* again, and no execution that is still there sees one between its reading and
\* its first save.
StaleShows(e) ==
    /\ e \notin admitted /\ rev[e] > 0
    /\ ~WasReset \/ Running(e) \/ pc[e] = "claim"
    => /\ sess.rev >= rev[e]
       /\ sess.rev = rev[e] => sess.turn < turn[e]

View(e) == Believes(e) /\ Writes(e) /\ SessionRead(e) /\ Owns(e) /\ StaleShows(e)

OneOwner ==
    \A e, f \in Executions : Owner(e) /\ Owner(f) /\ turn[e] = turn[f] => e = f

Session == StoredIsNewest /\ (\A e \in Executions : View(e)) /\ OneOwner

---------------------------------------------------------------------------
(* The session contract.                                                   *)

\* transition() is a function: a state and an event have one target.
LEMMA TransitionIsMove ==
    ASSUME NEW s, NEW event, accepts(s, event)
    PROVE  <<s, event, TransitionTo(s, event)>> \in Transitions
<1>1. PICK move \in Transitions : move[1] = s /\ move[2] = event
  BY DEF accepts
<1> DEFINE chosen == CHOOSE m \in Transitions : m[1] = s /\ m[2] = event
<1>2. chosen \in Transitions /\ chosen[1] = s /\ chosen[2] = event
  BY <1>1
<1>3. \A m \in Transitions : m = <<m[1], m[2], m[3]>>
  BY DEF Transitions
<1>4. chosen = <<s, event, chosen[3]>>
  BY <1>2, <1>3
<1> QED
  BY <1>2, <1>4 DEF TransitionTo

\* Where a move leads, by where it comes from.
LEMMA MoveTargets ==
    ASSUME NEW s, NEW event, NEW to, <<s, event, to>> \in Transitions
    PROVE  /\ s \in Pausable \cup {"Draft", "Paused", "Blocked"}
           /\ to \in (SessionState \ {"Draft"}) \cup {"RestorePrePause"}
           /\ to = "RestorePrePause" => s = "Paused"
           /\ to = "Paused" => s \in Pausable
           /\ event = "Fail" => to = "Failed"
           /\ event = "Enqueue" => to = "Queued"
  BY DEF Transitions, Pausable, SessionState

\* apply() keeps a machine restorable and never returns it to Draft.
LEMMA AppliedIsRestorable ==
    ASSUME NEW m \in TurnStateMachine, Restorable(m), NEW event, accepts(m.state, event)
    PROVE  /\ Applied(m, event) \in TurnStateMachine
           /\ Restorable(Applied(m, event))
           /\ Applied(m, event).state # "Draft"
<1> DEFINE to == TransitionTo(m.state, event)
<1>1. <<m.state, event, to>> \in Transitions
  BY TransitionIsMove
<1>2. /\ to \in (SessionState \ {"Draft"}) \cup {"RestorePrePause"}
      /\ to = "RestorePrePause" => m.state = "Paused"
      /\ to = "Paused" => m.state \in Pausable
  BY <1>1, MoveTargets
<1>3. m.state = "Paused" => m.prePause \in Pausable
  BY DEF Restorable
<1> HIDE DEF to
<1>4. Applied(m, event) = IF to = "RestorePrePause" THEN [state |-> m.prePause, prePause |-> "none"]
                          ELSE IF to = "Paused" THEN [state |-> to, prePause |-> m.state]
                          ELSE [state |-> to, prePause |-> "none"]
  BY DEF Applied, to
<1>5. CASE to = "RestorePrePause"
  BY <1>2, <1>3, <1>4, <1>5 DEF TurnStateMachine, Restorable, Pausable, SessionState
<1>6. CASE to = "Paused"
  BY <1>2, <1>4, <1>6 DEF TurnStateMachine, Restorable, Pausable, SessionState
<1>7. CASE to \notin {"RestorePrePause", "Paused"}
  BY <1>2, <1>4, <1>7 DEF TurnStateMachine, Restorable, Pausable, SessionState
<1> QED
  BY <1>5, <1>6, <1>7

\* Whatever state still accepts something accepts Fail, and Fail leads to one
\* machine whatever the state was.
LEMMA FailIsOpen ==
    ASSUME NEW s, NEW event, accepts(s, event)
    PROVE  accepts(s, "Fail")
<1> DEFINE to == TransitionTo(s, event)
<1>0. <<s, event, to>> \in Transitions
  BY TransitionIsMove
<1> HIDE DEF to
<1>1. s \in Pausable \cup {"Draft", "Paused", "Blocked"}
  BY <1>0, MoveTargets
<1>2. <<s, "Fail", "Failed">> \in Transitions
  BY <1>1 DEF Transitions
<1> QED
  BY <1>2 DEF accepts

\* Fail leads to Failed wherever the contract accepts it, and clears what a pause
\* remembered.
LEMMA FailApplied ==
    ASSUME NEW m, accepts(m.state, "Fail")
    PROVE  Applied(m, "Fail") = [state |-> "Failed", prePause |-> "none"]
<1> DEFINE to == TransitionTo(m.state, "Fail")
<1>0. <<m.state, "Fail", to>> \in Transitions
  BY TransitionIsMove
<1> HIDE DEF to
<1>1. to = "Failed"
  BY <1>0, MoveTargets
<1> QED
  BY <1>1 DEF Applied, to

\* A machine begins as Queued.
LEMMA QueuedApplied ==
    /\ accepts(NewMachine.state, "Enqueue")
    /\ Queued = [state |-> "Queued", prePause |-> "none"]
<1>1. <<"Draft", "Enqueue", "Queued">> \in Transitions
  BY DEF Transitions
<1>2. accepts(NewMachine.state, "Enqueue")
  BY <1>1 DEF accepts, NewMachine
<1> DEFINE to == TransitionTo(NewMachine.state, "Enqueue")
<1>3. <<NewMachine.state, "Enqueue", to>> \in Transitions
  BY <1>2, TransitionIsMove
<1> HIDE DEF to
<1>4. to = "Queued"
  BY <1>3, MoveTargets
<1> QED
  BY <1>2, <1>4 DEF Applied, Queued, to

\* restore() would accept a new machine.
LEMMA NewIsRestorable ==
    NewMachine \in TurnStateMachine /\ Restorable(NewMachine)
  BY DEF NewMachine, TurnStateMachine, Restorable, Pausable, SessionState

---------------------------------------------------------------------------
(* The steps, grouped by what they change.                                 *)

\* The steps of run() and drive() other than taking up an answer and ending.
Moves(e) ==
    \E step \in Drive \ {"enqueue", "start", "call", "release"} :
        /\ pc[e] \in Drive \ {"enqueue", "start", "call", "record", "release"}
        /\ pc[e] = "failing" => step = "record"
        /\ Step(e, step)

Advances(e) ==
    \E event \in SessionEvent, ok \in Drive \ {"enqueue", "call", "release"},
       err \in {"failing", "release"} :
        /\ pc[e] \in Drive \ {"record", "release"}
        /\ pc[e] = "enqueue" => event = "Enqueue" /\ err = "release"
        /\ pc[e] = "failing" => event = "Fail" /\ accepts(machine[e].state, "Fail")
        /\ Advance(e, event, ok, err)

Journals(e) ==
    \E new \in Rounds, ok \in Drive \ {"enqueue", "release"} :
        /\ pc[e] \in {"budget", "opening", "stream"}
        /\ SaveJournal(e, new, ok, "failing")

Calling(e) ==
    /\ pc[e] = "call"
    /\ called' = called \cup {<<e, turn[e], Len(rounds[e])>>}
    /\ Goto(e, "opening")
    /\ UNCHANGED <<store, live, local, then, op, control, admitted, illegal>>

Drives(e) == Moves(e) \/ Advances(e) \/ Journals(e) \/ Calling(e) \/ PersistTurn(e)

\* The steps of a worker.
Reads(e) ==
    /\ op[e].phase = "queued" /\ Accepted(e)
    /\ op' = [op EXCEPT ![e].phase = "read", ![e].seen = Seen(e)]
    /\ UNCHANGED <<store, live, pc, local, then, control, history>>

GivesUp(e) ==
    /\ op[e].phase \in {"queued", "read"}
    /\ Finish(e, "failed")
    /\ fence' \in {fence, TRUE}
    /\ UNCHANGED <<sess, highWater, journal, record, live, pc, local, then, control, history>>

Commits(e) ==
    /\ op[e].phase = "read"
    /\ Unchanged(e) /\ Publish(e)
    /\ \E phase \in {"ok", "failed"} : Finish(e, phase)
    /\ fence' \in {fence, TRUE}
    /\ UNCHANGED <<live, pc, local, then, control, history>>

Works(e) == Reads(e) \/ GivesUp(e) \/ Commits(e)

Signals ==
    /\ cancel' \subseteq Executions /\ pause' \subseteq Executions
    /\ UNCHANGED <<store, live, pc, local, then, op, reset, crashes, history>>

Ends(e) == live = e /\ Gone(e)

\* Writing over the last element, if there is one, leaves a sequence.
LEMMA LastIsReplaced ==
    ASSUME NEW S, NEW s \in Seq(S), NEW v \in S
    PROVE  [s EXCEPT ![Len(s)] = v] \in Seq(S)
<1>1. CASE s = <<>>
  <2>1. Len(s) = 0 /\ DOMAIN s = {}
    BY <1>1
  <2>2. [s EXCEPT ![Len(s)] = v] = s
    BY <2>1
  <2> QED
    BY <2>2
<1>2. CASE s # <<>>
  <2>1. Len(s) \in 1 .. Len(s)
    BY <1>2, EmptySeq, LenProperties
  <2> QED
    BY <2>1, ExceptSeq
<1> QED
  BY <1>1, <1>2

\* Every step of run() and drive() has one of the shapes above.
LEMMA RunShapes ==
    ASSUME NEW e \in Executions, Types, Run(e)
    PROVE  OpReturns(e) \/ Drives(e) \/ Release(e)
<1>0. rounds[e] \in Rounds /\ "open" \in {"open", "reported"} /\ "reported" \in {"open", "reported"}
  BY DEF Types, TaskTypes
<1>1. Append(rounds[e], "open") \in Rounds
  BY <1>0, AppendProperties DEF Rounds
<1>2. [rounds[e] EXCEPT ![Len(rounds[e])] = "reported"] \in Rounds
  BY <1>0, LastIsReplaced DEF Rounds
<1> DEFINE new == Append(rounds[e], "open")
           reported == [rounds[e] EXCEPT ![Len(rounds[e])] = "reported"]
<1> HIDE DEF new, reported
<1>3. CASE Enqueue(e)
  BY <1>3 DEF Enqueue, Drives, Advances, Drive, SessionEvent
<1>4. CASE Start(e)
  BY <1>4 DEF Start, Drives, Advances, Drive, SessionEvent
<1>5. CASE Bootstrap(e)
  BY <1>5, TurnAssumption DEF Bootstrap, Drives, Moves, Advances, Drive, SessionEvent, Fails
<1>6. CASE GoalDirective(e)
  BY <1>6 DEF GoalDirective, Drives, Moves, Advances, Drive, SessionEvent, Fails
<1>7. CASE Top(e)
  BY <1>7 DEF Top, Quiesce, Paused, Drives, Moves, Advances, Drive, SessionEvent, Fails
<1>8. CASE Admit(e)
  BY <1>8, <1>1 DEF Admit, new, Drives, Moves, Advances, Drive, SessionEvent, Fails,
     Journals
<1>9. CASE CallProvider(e)
  BY <1>9 DEF CallProvider, Calling, Drives, Advances, Drive, SessionEvent
<1>10. CASE Opening(e)
  BY <1>10, <1>2 DEF Opening, PersistReport, reported, Drives, Moves, Advances, Drive,
     SessionEvent, Fails, Journals
<1>11. CASE Opened(e)
  BY <1>11 DEF Opened, Drives, Moves, Advances, Drive, SessionEvent, Fails
<1>12. CASE Stream(e)
  BY <1>12, <1>2 DEF Stream, PersistReport, reported, Drives, Moves, Advances, Drive,
     SessionEvent, Fails, Journals
<1>13. CASE Decide(e)
  BY <1>13 DEF Decide, Drives, Moves, Advances, Drive, SessionEvent, Fails
<1>14. CASE Tool(e, "tool", "toolWaiting", "toolBare", "toolDone")
  BY <1>14 DEF Tool, Drives, Moves, Advances, Drive, SessionEvent, Fails
<1>15. CASE ToolDone(e)
  BY <1>15 DEF ToolDone, Drives, Moves, Advances, Drive, SessionEvent, Fails
<1>16. CASE DirectTool(e)
  BY <1>16 DEF DirectTool, Tool, Drives, Moves, Advances, Drive, SessionEvent, Fails
<1>17. CASE Failing(e)
  BY <1>17 DEF Failing, Drives, Moves, Advances, Drive, SessionEvent, Fails
<1>18. CASE PersistTurn(e)
  BY <1>18 DEF Drives
<1>19. CASE OpReturns(e)
  BY <1>19
<1>20. CASE Release(e)
  BY <1>20
<1> QED
  BY <1>3, <1>4, <1>5, <1>6, <1>7, <1>8, <1>9, <1>10, <1>11, <1>12, <1>13, <1>14, <1>15,
     <1>16, <1>17, <1>18, <1>19, <1>20 DEF Run

\* Every step of the specification has one of the shapes above.
LEMMA StepShapes ==
    ASSUME Control, [Next]_vars
    PROVE  \/ \E e \in Executions :
                 \/ LoadSession(e) \/ NextTurn(e) \/ SubmitRefused(e) \/ Claim(e)
                 \/ Works(e) \/ OpReturns(e) \/ Drives(e) \/ Ends(e)
           \/ \E r \in Resets : ResetBegins(r) \/ ResetReads(r) \/ ResetCommits(r)
           \/ Signals \/ Crash
<1> USE DEF store, local, control, history
<1>0. Types /\ \A e \in Executions : live = e <=> Running(e)
  BY DEF Control, Ownership
<1>1. ASSUME NEW e \in Executions, Submit(e)
      PROVE  LoadSession(e) \/ NextTurn(e) \/ SubmitRefused(e) \/ Claim(e)
  BY <1>1 DEF Submit
<1>2. ASSUME NEW e \in Executions, Worker(e)
      PROVE  Works(e)
  <2>1. CASE OpReads(e)
    BY <2>1 DEF OpReads, Works, Reads, GivesUp
  <2>2. CASE OpFails(e)
    BY <2>2 DEF OpFails, Works, GivesUp
  <2>3. CASE OpRefused(e)
    BY <2>3 DEF OpRefused, Works, GivesUp
  <2>4. CASE OpCommits(e)
    BY <2>4 DEF OpCommits, Works, Commits
  <2>5. CASE OpUnknown(e)
    BY <2>5 DEF OpUnknown, Works, Commits, GivesUp, Unpublished
  <2> QED
    BY <1>2, <2>1, <2>2, <2>3, <2>4, <2>5 DEF Worker
<1>3. ASSUME NEW e \in Executions, Run(e)
      PROVE  OpReturns(e) \/ Drives(e) \/ Ends(e)
  <2>1. Release(e) => Ends(e)
    BY <1>0 DEF Release, Ends, Running, Drive
  <2> QED
    BY <1>0, <1>3, <2>1, RunShapes
<1>4. ASSUME NEW e \in Executions, Abort(e)
      PROVE  Ends(e)
  BY <1>4 DEF Abort, Ends
<1>5. ASSUME NEW e \in Executions, Cancel(e) \/ SetPaused(e)
      PROVE  Signals
  BY <1>0, <1>5 DEF Cancel, SetPaused, Signals, Types, TaskTypes
<1>6. UNCHANGED vars => Signals
  BY <1>0 DEF vars, Signals, Types, TaskTypes
<1> QED
  BY <1>1, <1>2, <1>3, <1>4, <1>5, <1>6 DEF Next

\* The values variables start from or return to.
LEMMA Constants ==
    /\ NoSession \in Snapshots /\ NoJournal \in ProviderRoundJournal
    /\ Absent \in Turns \cup {Absent} /\ 0 \in Turns
    /\ NewMachine \in TurnStateMachine
    /\ <<>> \in Rounds
    /\ Nowhere \in Targets
    /\ NoOp \in Operations /\ NoOp \in Removals
<1>1. NoSession \in Snapshots /\ NewMachine \in TurnStateMachine
  BY NewIsRestorable DEF Snapshots
<1>2. <<>> \in Rounds
  BY DEF Rounds
<1>3. NoJournal \in ProviderRoundJournal
  BY <1>2 DEF NoJournal, ProviderRoundJournal
<1>4. 0 \in Turns
  BY TurnAssumption DEF Turns
<1>5. Nowhere \in Targets
  BY DEF Nowhere, Targets
<1>6. NoOp \in Operations /\ NoOp \in Removals
  BY DEF NoOp, Operations, Removals, OpKind, OpPhase, SeenValues
<1> QED
  BY <1>1, <1>2, <1>3, <1>4, <1>5, <1>6

\* Control holds at first.
LEMMA ControlInit ==
    Init => Control
<1> SUFFICES ASSUME Init PROVE Control
  OBVIOUS
<1> USE DEF Init
<1>1. Types
  <2>1. StoreTypes
    BY Constants DEF StoreTypes
  <2>2. TaskTypes
    BY Constants DEF TaskTypes, Points, Before
  <2>3. OpTypes
    BY Constants DEF OpTypes
  <2> QED
    BY <2>1, <2>2, <2>3 DEF Types
<1>2. Ownership
  BY TurnAssumption DEF Ownership, Running, Drive, NoOp
<1>3. Unstarted
  BY DEF Unstarted
<1>4. Returns
  BY DEF Returns, Drive
<1>5. ResetExcludes
  BY DEF ResetExcludes, Resetting, NoOp
<1>6. Machines
  BY NewIsRestorable DEF Machines, NoOp, NoSession
<1> QED
  BY <1>1, <1>2, <1>3, <1>4, <1>5, <1>6 DEF Control

\* Control is inductive, one lemma for each group of steps.

\* The points before, in and after drive() are different ones.
LEMMA PointFacts ==
    /\ Before \cap Drive = {} /\ Before = {"idle", "nextTurn", "claim"}
    /\ \A p \in Before \cup Drive : p # "saving" /\ p # "ended"
    /\ "enqueue" \in Drive /\ "release" \in Drive /\ "failing" \in Drive /\ "record" \in Drive
    /\ "call" \in Drive /\ "opening" \in Drive /\ "enqueue" # "release" /\ "idle" \notin Drive
    /\ Points = Before \cup Drive \cup {"saving", "ended"}
  BY DEF Points, Before, Drive

\* Submit, up to the claim of the session: whoever claims finds nobody live.
LEMMA ControlSubmit ==
    ASSUME Control, NEW e \in Executions,
           LoadSession(e) \/ NextTurn(e) \/ SubmitRefused(e) \/ Claim(e)
    PROVE  Control'
<1> USE DEF Control, Types, store, local, control, history, Goto
<1>1. CASE LoadSession(e)
  <2>a. /\ sess # NoSession => sess.turn \in Turns /\ sess.rev \in Nat
        /\ \A t \in Turns : t < MaxTurn => t + 1 \in Turns
    BY TurnAssumption DEF StoreTypes, Snapshots, SessionSnapshot, Turns
  <2>b. PICK p \in {"claim", "nextTurn"} :
           /\ pc' = [pc EXCEPT ![e] = p] /\ pc[e] = "idle" /\ ~Resetting
           /\ p # "claim" => rev' = rev
           /\ turn' \in [Executions -> Turns] /\ rev' \in [Executions -> Nat]
           /\ \A f \in Executions \ {e} : turn'[f] = turn[f] /\ rev'[f] = rev[f]
           /\ UNCHANGED <<store, live, machine, rounds, journalRev, draft, then, op, control, history>>
    BY <1>1, <2>a DEF LoadSession, TaskTypes
  <2>1. StoreTypes'
    BY <2>b, PointFacts, Constants DEF StoreTypes
  <2>2. TaskTypes'
    BY <2>b, PointFacts, Constants DEF TaskTypes
  <2>3. OpTypes'
    BY <2>b, PointFacts, Constants DEF OpTypes
  <2>4. Ownership'
    BY <2>b, PointFacts, Constants DEF TaskTypes, OpTypes, Ownership, Running
  <2>5. Unstarted'
    BY <2>b, PointFacts, Constants DEF TaskTypes, OpTypes, Unstarted
  <2>6. Returns'
    BY <2>b, PointFacts, Constants DEF TaskTypes, OpTypes, Returns
  <2>7. ResetExcludes'
    BY <2>b, PointFacts, Constants DEF TaskTypes, OpTypes, ResetExcludes, Resetting
  <2>8. Machines'
    BY <2>b, PointFacts, Constants DEF TaskTypes, OpTypes, Machines
  <2> QED
    BY <2>1, <2>2, <2>3, <2>4, <2>5, <2>6, <2>7, <2>8
<1>2. CASE NextTurn(e)
  <2>a. highWater + 1 \in Turns
    BY <1>2, TurnAssumption DEF StoreTypes, Turns, Absent, NextTurn
  <2>1. StoreTypes'
    BY <1>2, <2>a, PointFacts, Constants DEF StoreTypes, NextTurn
  <2>2. TaskTypes'
    BY <1>2, <2>a, PointFacts, Constants DEF TaskTypes, NextTurn
  <2>3. OpTypes'
    BY <1>2, <2>a, PointFacts, Constants DEF OpTypes, NextTurn
  <2>4. Ownership'
    BY <1>2, <2>a, PointFacts, Constants DEF TaskTypes, OpTypes, Ownership, Running,
       NextTurn
  <2>5. Unstarted'
    BY <1>2, <2>a, PointFacts, Constants DEF TaskTypes, OpTypes, Unstarted, NextTurn
  <2>6. Returns'
    BY <1>2, <2>a, PointFacts, Constants DEF TaskTypes, OpTypes, Returns, NextTurn
  <2>7. ResetExcludes'
    BY <1>2, <2>a, PointFacts, Constants DEF TaskTypes, OpTypes, ResetExcludes,
       Resetting, NextTurn
  <2>8. Machines'
    BY <1>2, <2>a, PointFacts, Constants DEF TaskTypes, OpTypes, Machines, NextTurn
  <2> QED
    BY <2>1, <2>2, <2>3, <2>4, <2>5, <2>6, <2>7, <2>8
<1>3. CASE SubmitRefused(e)
  <2>1. StoreTypes'
    BY <1>3, PointFacts, Constants DEF StoreTypes, SubmitRefused
  <2>2. TaskTypes'
    BY <1>3, PointFacts, Constants DEF TaskTypes, SubmitRefused
  <2>3. OpTypes'
    BY <1>3, PointFacts, Constants DEF OpTypes, SubmitRefused
  <2>4. Ownership'
    BY <1>3, PointFacts, Constants DEF TaskTypes, OpTypes, Ownership, Running, SubmitRefused
  <2>5. Unstarted'
    BY <1>3, PointFacts, Constants DEF TaskTypes, OpTypes, Unstarted, SubmitRefused
  <2>6. Returns'
    BY <1>3, PointFacts, Constants DEF TaskTypes, OpTypes, Returns, SubmitRefused
  <2>7. ResetExcludes'
    BY <1>3, PointFacts, Constants DEF TaskTypes, OpTypes, ResetExcludes, Resetting,
       SubmitRefused
  <2>8. Machines'
    BY <1>3, PointFacts, Constants DEF TaskTypes, OpTypes, Machines, SubmitRefused
  <2> QED
    BY <2>1, <2>2, <2>3, <2>4, <2>5, <2>6, <2>7, <2>8
<1>4. CASE Claim(e)
  <2>1. StoreTypes'
    BY <1>4, TurnAssumption, PointFacts, Constants DEF StoreTypes, Claim
  <2>2. TaskTypes'
    BY <1>4, TurnAssumption, PointFacts, Constants DEF TaskTypes, Claim
  <2>3. OpTypes'
    BY <1>4, TurnAssumption, PointFacts, Constants DEF OpTypes, Claim
  <2>4. Ownership'
    BY <1>4, TurnAssumption, PointFacts, Constants
       DEF TaskTypes, OpTypes, Ownership, Running, Claim
  <2>5. Unstarted'
    BY <1>4, TurnAssumption, PointFacts, Constants DEF TaskTypes, OpTypes, Unstarted, Claim
  <2>6. Returns'
    BY <1>4, TurnAssumption, PointFacts, Constants
       DEF TaskTypes, OpTypes, Returns, Claim, Unstarted
  <2>7. ResetExcludes'
    BY <1>4, TurnAssumption, PointFacts, Constants
       DEF TaskTypes, OpTypes, ResetExcludes, Resetting, Claim
  <2>8. Machines'
    BY <1>4, TurnAssumption, PointFacts, Constants DEF TaskTypes, OpTypes, Machines, Claim
  <2> QED
    BY <2>1, <2>2, <2>3, <2>4, <2>5, <2>6, <2>7, <2>8
<1> QED
  BY <1>1, <1>2, <1>3, <1>4

\* What an update of a store operation leaves in its record.
LEMMA OperationUpdate ==
    ASSUME NEW S, NEW o \in [kind : OpKind, phase : OpPhase, seen : S], NEW phase, NEW seen
    PROVE  [o EXCEPT !.phase = phase, !.seen = seen]
               = [kind |-> o.kind, phase |-> phase, seen |-> seen]
<1> DEFINE u == [o EXCEPT !.phase = phase, !.seen = seen]
<1>1. u \in [kind : {o.kind}, phase : {phase}, seen : {seen}]
  OBVIOUS
<1> HIDE DEF u
<1>2. u = [kind |-> u.kind, phase |-> u.phase, seen |-> u.seen]
  BY <1>1
<1>3. u = [kind |-> o.kind, phase |-> phase, seen |-> seen]
  BY <1>1, <1>2
<1> QED
  BY <1>3 DEF u

\* The store's workers, which go on for executions that have ended.
LEMMA ControlWork ==
    ASSUME Control, NEW e \in Executions, Works(e)
    PROVE  Control'
<1> USE DEF Control, Types, store, local, control, history, Goto
<1>1. CASE Reads(e)
  <2>a. Seen(e) \in SeenValues
    <3>1. turn[e] \in Turns /\ journal[turn[e]] \in ProviderRoundJournal
      BY DEF TaskTypes, StoreTypes
    <3> QED
      BY <3>1 DEF Seen, SeenValues, StoreTypes
  <2> DEFINE o == [kind |-> op[e].kind, phase |-> "read", seen |-> Seen(e)]
  <2>b. o \in Operations /\ o.kind = op[e].kind /\ o # NoOp
    BY <2>a DEF OpTypes, Operations, OpPhase, NoOp
  <2>c. op' = [op EXCEPT ![e] = o]
    <3>1. op' = [op EXCEPT ![e].phase = "read", ![e].seen = Seen(e)]
      BY <1>1 DEF Reads
    <3>2. op' = [op EXCEPT ![e] = [op[e] EXCEPT !.phase = "read", !.seen = Seen(e)]]
      BY <3>1 DEF OpTypes
    <3>3. [op[e] EXCEPT !.phase = "read", !.seen = Seen(e)] = o
      <4>1. op[e] \in Operations
        BY DEF OpTypes
      <4> QED
        BY <4>1, OperationUpdate DEF Operations
    <3> QED
      BY <3>2, <3>3
  <2>d. /\ op[e].phase = "queued" /\ op[e] # NoOp
        /\ UNCHANGED <<store, live, pc, local, then, control, history>>
    BY <1>1 DEF Reads, NoOp
  <2> HIDE DEF o
  <2>1. StoreTypes'
    BY <2>b, <2>c, <2>d, PointFacts DEF StoreTypes
  <2>2. TaskTypes'
    BY <2>b, <2>c, <2>d, PointFacts DEF TaskTypes
  <2>3. OpTypes'
    BY <2>b, <2>c, <2>d, PointFacts DEF OpTypes
  <2>4. Ownership'
    BY <2>b, <2>c, <2>d, PointFacts DEF TaskTypes, OpTypes, Ownership, Running, o
  <2>5. Unstarted'
    BY <2>b, <2>c, <2>d, PointFacts DEF TaskTypes, OpTypes, Unstarted
  <2>6. Returns'
    BY <2>b, <2>c, <2>d, PointFacts DEF TaskTypes, OpTypes, Returns
  <2>7. ResetExcludes'
    BY <2>b, <2>c, <2>d, PointFacts DEF TaskTypes, OpTypes, ResetExcludes, Resetting
  <2>8. Machines'
    BY <2>b, <2>c, <2>d, PointFacts DEF TaskTypes, OpTypes, Machines
  <2> QED
    BY <2>1, <2>2, <2>3, <2>4, <2>5, <2>6, <2>7, <2>8
<1>2. CASE GivesUp(e)
  <2>a. PICK o \in Operations, phase \in {"ok", "failed"} :
           /\ op' = [op EXCEPT ![e] = o]
           /\ pc[e] = "saving" => o = [kind |-> op[e].kind, phase |-> phase, seen |-> None]
           /\ pc[e] # "saving" => o = NoOp
           /\ op[e] # NoOp /\ op[e].kind # "none" /\ op[e].phase \in {"queued", "read"}
    <3>1. op[e] \in Operations /\ op[e].phase \in {"queued", "read"}
      BY <1>2 DEF GivesUp, OpTypes
    <3>2. op[e] # NoOp /\ op[e].kind # "none"
      BY <3>1 DEF NoOp, Ownership
    <3>3. PICK phase \in {"ok", "failed"} : Finish(e, phase)
      BY <1>2 DEF GivesUp
    <3> DEFINE o == IF pc[e] = "saving" THEN [kind |-> op[e].kind, phase |-> phase, seen |-> None]
                    ELSE NoOp
    <3>4. o \in Operations
      BY <3>1, Constants DEF Operations, OpPhase, SeenValues
    <3>5. [op[e] EXCEPT !.phase = phase, !.seen = None]
             = [kind |-> op[e].kind, phase |-> phase, seen |-> None]
      BY <3>1, OperationUpdate DEF Operations
    <3>6. op' = [op EXCEPT ![e] = o]
      BY <3>3, <3>5 DEF Finish
    <3> QED
      BY <3>1, <3>2, <3>4, <3>6
  <2>b. /\ UNCHANGED <<sess, highWater, journal, record, live, pc, local, then, control, history>>
        /\ fence' \in BOOLEAN
    BY <1>2 DEF GivesUp, StoreTypes
  <2>1. StoreTypes'
    BY <2>a, <2>b, PointFacts DEF StoreTypes
  <2>2. TaskTypes'
    BY <2>a, <2>b, PointFacts DEF TaskTypes
  <2>3. OpTypes'
    BY <2>a, <2>b, PointFacts DEF OpTypes
  <2>4. Ownership'
    BY <2>a, <2>b, PointFacts DEF TaskTypes, OpTypes, Ownership, Running, NoOp
  <2>5. Unstarted'
    BY <2>a, <2>b, PointFacts DEF TaskTypes, OpTypes, Unstarted
  <2>6. Returns'
    BY <2>a, <2>b, PointFacts DEF TaskTypes, OpTypes, Returns
  <2>7. ResetExcludes'
    BY <2>a, <2>b, PointFacts DEF TaskTypes, OpTypes, ResetExcludes, Resetting
  <2>8. Machines'
    BY <2>a, <2>b, PointFacts DEF TaskTypes, OpTypes, Machines, NoOp
  <2> QED
    BY <2>1, <2>2, <2>3, <2>4, <2>5, <2>6, <2>7, <2>8
<1>3. CASE Commits(e)
  <2>a. PICK o \in Operations, phase \in {"ok", "failed"} :
           /\ op' = [op EXCEPT ![e] = o]
           /\ pc[e] = "saving" => o = [kind |-> op[e].kind, phase |-> phase, seen |-> None]
           /\ pc[e] # "saving" => o = NoOp
           /\ op[e] # NoOp /\ op[e].kind # "none" /\ op[e].phase \in {"queued", "read"}
    <3>1. op[e] \in Operations /\ op[e].phase \in {"queued", "read"}
      BY <1>3 DEF Commits, OpTypes
    <3>2. op[e] # NoOp /\ op[e].kind # "none"
      BY <3>1 DEF NoOp, Ownership
    <3>3. PICK phase \in {"ok", "failed"} : Finish(e, phase)
      BY <1>3 DEF Commits
    <3> DEFINE o == IF pc[e] = "saving" THEN [kind |-> op[e].kind, phase |-> phase, seen |-> None]
                    ELSE NoOp
    <3>4. o \in Operations
      BY <3>1, Constants DEF Operations, OpPhase, SeenValues
    <3>5. [op[e] EXCEPT !.phase = phase, !.seen = None]
             = [kind |-> op[e].kind, phase |-> phase, seen |-> None]
      BY <3>1, OperationUpdate DEF Operations
    <3>6. op' = [op EXCEPT ![e] = o]
      BY <3>3, <3>5 DEF Finish
    <3> QED
      BY <3>1, <3>2, <3>4, <3>6
  <2>b. /\ UNCHANGED <<live, pc, local, then, control, history>>
        /\ fence' \in BOOLEAN
    BY <1>3 DEF Commits, StoreTypes
  <2>c. /\ turn[e] \in Turns /\ machine[e] \in TurnStateMachine /\ rev[e] \in Nat
        /\ rounds[e] \in Rounds /\ draft[e] \in Rounds /\ journalRev[e] \in Nat
    BY DEF TaskTypes
  <2>d. /\ sess' \in Snapshots /\ highWater' \in Turns \cup {Absent}
        /\ journal' \in [Turns -> ProviderRoundJournal]
        /\ record' \in [Turns -> TurnRecord \cup {NoRecord}]
        /\ sess' = sess \/ sess'.machine = machine[e]
    <3> DEFINE s == [turn |-> turn[e], machine |-> machine[e], rev |-> rev[e] + 1]
               j == [rounds |-> draft[e], rev |-> journalRev[e] + 1, closed |-> FALSE]
               k == [rounds |-> rounds[e], rev |-> journal[turn[e]].rev + 1, closed |-> TRUE]
               r == [state |-> machine[e].state, rounds |-> rounds[e]]
    <3>1. s \in Snapshots /\ s.machine = machine[e]
      BY <2>c DEF Snapshots, SessionSnapshot
    <3>2. j \in ProviderRoundJournal
      BY <2>c DEF ProviderRoundJournal
    <3>3. k \in ProviderRoundJournal
      BY <2>c DEF StoreTypes, ProviderRoundJournal
    <3>4. r \in TurnRecord
      BY <2>c DEF TurnRecord, TurnStateMachine
    <3> HIDE DEF s, j, k, r
    <3>5. \/ sess' = s /\ highWater' = turn[e] /\ UNCHANGED <<journal, record>>
          \/ journal' = [journal EXCEPT ![turn[e]] = j] /\ UNCHANGED <<sess, highWater, record>>
          \/ /\ record' = [record EXCEPT ![turn[e]] = r]
             /\ journal' = [journal EXCEPT ![turn[e]] = k]
             /\ UNCHANGED <<sess, highWater>>
      BY <1>3, <2>c DEF Commits, Publish, s, j, k, r, StoreTypes
    <3> QED
      BY <2>c, <3>1, <3>2, <3>3, <3>4, <3>5 DEF StoreTypes
  <2>1. StoreTypes'
    BY <2>a, <2>b, <2>c, <2>d, PointFacts DEF StoreTypes
  <2>2. TaskTypes'
    BY <2>a, <2>b, <2>c, <2>d, PointFacts DEF TaskTypes
  <2>3. OpTypes'
    BY <2>a, <2>b, <2>c, <2>d, PointFacts DEF OpTypes
  <2>4. Ownership'
    BY <2>a, <2>b, <2>c, <2>d, PointFacts DEF TaskTypes, OpTypes, Ownership, Running, NoOp
  <2>5. Unstarted'
    BY <2>a, <2>b, <2>c, <2>d, PointFacts DEF TaskTypes, OpTypes, Unstarted
  <2>6. Returns'
    BY <2>a, <2>b, <2>c, <2>d, PointFacts DEF TaskTypes, OpTypes, Returns
  <2>7. ResetExcludes'
    BY <2>a, <2>b, <2>c, <2>d, PointFacts DEF TaskTypes, OpTypes, ResetExcludes, Resetting
  <2>8. Machines'
    BY <2>a, <2>b, <2>c, <2>d, PointFacts DEF TaskTypes, OpTypes, Machines, NoOp
  <2> QED
    BY <2>1, <2>2, <2>3, <2>4, <2>5, <2>6, <2>7, <2>8
<1> QED
  BY <1>1, <1>2, <1>3 DEF Works

\* The answer of the store reaches the execution that waits for it.
LEMMA ControlReturn ==
    ASSUME Control, NEW e \in Executions, OpReturns(e)
    PROVE  Control'
<1> USE DEF Control, Types, store, local, control, history, Goto
<1>1. CASE OpReturns(e)
  <2>a. PICK p \in Drive \ {"enqueue"} :
           /\ pc' = [pc EXCEPT ![e] = p]
           /\ admitted \subseteq admitted' /\ admitted' \subseteq admitted \cup {e}
           /\ p # "release" => e \in admitted'
    <3> DEFINE p == IF op[e].phase = "ok" THEN then[e].ok ELSE then[e].err
    <3>1. p \in Drive \ {"enqueue"} /\ (e \notin admitted /\ op[e].phase # "ok" => p = "release")
      BY <1>1, PointFacts DEF OpReturns, Returns
    <3>2. pc' = [pc EXCEPT ![e] = p]
      BY <1>1 DEF OpReturns
    <3>3. admitted' = IF op[e].phase = "ok" /\ op[e].kind = "session" THEN admitted \cup {e} ELSE admitted
      BY <1>1 DEF OpReturns
    <3>4. e \notin admitted => op[e].kind = "session"
      BY <1>1 DEF OpReturns, Returns
    <3> QED
      BY <3>1, <3>2, <3>3, <3>4
  <2>b. /\ rev' \in [Executions -> Nat] /\ journalRev' \in [Executions -> Nat]
        /\ rounds' \in [Executions -> Rounds]
        /\ \A f \in Executions \ {e} :
              rev'[f] = rev[f] /\ journalRev'[f] = journalRev[f] /\ rounds'[f] = rounds[f]
    BY <1>1 DEF OpReturns, TaskTypes
  <2>c. /\ pc[e] = "saving"
        /\ op' = [op EXCEPT ![e] = NoOp]
        /\ then' = [then EXCEPT ![e] = Nowhere]
        /\ draft' = [draft EXCEPT ![e] = <<>>]
        /\ UNCHANGED <<store, live, turn, machine, control, called, illegal>>
    BY <1>1 DEF OpReturns
  <2>1. StoreTypes'
    BY <2>a, <2>b, <2>c, PointFacts, Constants DEF StoreTypes
  <2>2. TaskTypes'
    BY <2>a, <2>b, <2>c, PointFacts, Constants DEF TaskTypes
  <2>3. OpTypes'
    BY <2>a, <2>b, <2>c, PointFacts, Constants DEF OpTypes
  <2>4. Ownership'
    BY <2>a, <2>b, <2>c, PointFacts, Constants DEF TaskTypes, OpTypes, Ownership, Running
  <2>5. Unstarted'
    BY <2>a, <2>b, <2>c, PointFacts, Constants DEF TaskTypes, OpTypes, Unstarted
  <2>6. Returns'
    BY <2>a, <2>b, <2>c, PointFacts, Constants DEF TaskTypes, OpTypes, Returns
  <2>7. ResetExcludes'
    BY <2>a, <2>b, <2>c, PointFacts, Constants
       DEF TaskTypes, OpTypes, ResetExcludes, Resetting
  <2>8. Machines'
    BY <2>a, <2>b, <2>c, PointFacts, Constants DEF TaskTypes, OpTypes, Machines, NoOp
  <2> QED
    BY <2>1, <2>2, <2>3, <2>4, <2>5, <2>6, <2>7, <2>8
<1> QED
  BY <1>1

\* The execution goes on between two calls of the store.
LEMMA ControlDrive ==
    ASSUME Control, NEW e \in Executions, Drives(e)
    PROVE  Control'
<1> USE DEF Control, Types, store, local, control, history, Goto
<1>1. CASE Moves(e)
  <2>a. PICK step \in Drive \ {"enqueue", "start", "call", "release"} :
           /\ pc[e] \in Drive \ {"enqueue", "release"}
           /\ pc' = [pc EXCEPT ![e] = step]
           /\ UNCHANGED <<store, live, local, then, op, control, history>>
    BY <1>1 DEF Moves, Step
  <2>1. StoreTypes'
    BY <2>a, PointFacts DEF StoreTypes
  <2>2. TaskTypes'
    BY <2>a, PointFacts DEF TaskTypes
  <2>3. OpTypes'
    BY <2>a, PointFacts DEF OpTypes
  <2>4. Ownership'
    BY <2>a, PointFacts DEF TaskTypes, OpTypes, Ownership, Running
  <2>5. Unstarted'
    BY <2>a, PointFacts DEF TaskTypes, OpTypes, Unstarted
  <2>6. Returns'
    BY <2>a, PointFacts DEF TaskTypes, OpTypes, Returns
  <2>7. ResetExcludes'
    BY <2>a, PointFacts DEF TaskTypes, OpTypes, ResetExcludes, Resetting
  <2>8. Machines'
    BY <2>a, PointFacts DEF TaskTypes, OpTypes, Machines
  <2> QED
    BY <2>1, <2>2, <2>3, <2>4, <2>5, <2>6, <2>7, <2>8
<1>2. CASE Advances(e)
  <2>a. PICK event \in SessionEvent, ok \in Drive \ {"enqueue", "call", "release"},
                err \in {"failing", "release"} :
           /\ pc[e] \in Drive \ {"record", "release"}
           /\ pc[e] = "enqueue" => event = "Enqueue" /\ err = "release"
           /\ Advance(e, event, ok, err)
    BY <1>2 DEF Advances
  <2>b. pc[e] = "enqueue" => accepts(machine[e].state, event)
    BY <2>a, QueuedApplied DEF Returns
  <2>c. machine[e] \in TurnStateMachine /\ Restorable(machine[e])
    BY DEF TaskTypes, Machines
  <2>d. CASE accepts(machine[e].state, event)
    <3>p. /\ Applied(machine[e], event) \in TurnStateMachine
          /\ Restorable(Applied(machine[e], event))
          /\ Applied(machine[e], event).state # "Draft"
      BY <2>c, <2>d, AppliedIsRestorable
    <3> DEFINE o == [kind |-> "session", phase |-> "queued", seen |-> None]
               m == Applied(machine[e], event)
    <3>q. /\ op' = [op EXCEPT ![e] = o] /\ o \in Operations /\ o # NoOp
          /\ o.kind = "session" /\ o.phase # "none"
          /\ then' = [then EXCEPT ![e] = [ok |-> ok, err |-> err]]
          /\ [ok |-> ok, err |-> err] \in Targets
          /\ pc' = [pc EXCEPT ![e] = "saving"]
          /\ machine' = [machine EXCEPT ![e] = m]
          /\ UNCHANGED <<store, live, turn, rev, rounds, journalRev, draft, control, history>>
      BY <2>a, <2>d, PointFacts DEF Advance, Save, Operations, OpKind, OpPhase,
         SeenValues, NoOp, Targets
    <3> HIDE DEF o, m
    <3>r. m \in TurnStateMachine /\ Restorable(m) /\ m.state # "Draft"
      BY <3>p DEF m
    <3>1. StoreTypes'
      BY <2>a, <3>q, <3>r, PointFacts DEF StoreTypes
    <3>2. TaskTypes'
      BY <2>a, <3>q, <3>r, PointFacts DEF TaskTypes
    <3>3. OpTypes'
      BY <2>a, <3>q, <3>r, PointFacts DEF OpTypes
    <3>4. Ownership'
      BY <2>a, <3>q, <3>r, PointFacts DEF TaskTypes, OpTypes, Ownership, Running
    <3>5. Unstarted'
      BY <2>a, <3>q, <3>r, PointFacts DEF TaskTypes, OpTypes, Unstarted
    <3>6. Returns'
      BY <2>a, <3>q, <3>r, PointFacts DEF TaskTypes, OpTypes, Returns
    <3>7. ResetExcludes'
      BY <2>a, <3>q, <3>r, PointFacts DEF TaskTypes, OpTypes, ResetExcludes, Resetting
    <3>8. Machines'
      BY <2>a, <3>q, <3>r, PointFacts DEF TaskTypes, OpTypes, Machines
    <3> QED
      BY <3>1, <3>2, <3>3, <3>4, <3>5, <3>6, <3>7, <3>8
  <2>e. CASE ~accepts(machine[e].state, event)
    <3>p. /\ pc' = [pc EXCEPT ![e] = err] /\ pc[e] # "enqueue"
          /\ illegal' = illegal \cup {e}
          /\ UNCHANGED <<store, live, local, then, op, control, admitted, called>>
      BY <2>a, <2>b, <2>e DEF Advance
    <3>1. StoreTypes'
      BY <2>a, <3>p, PointFacts DEF StoreTypes
    <3>2. TaskTypes'
      BY <2>a, <3>p, PointFacts DEF TaskTypes
    <3>3. OpTypes'
      BY <2>a, <3>p, PointFacts DEF OpTypes
    <3>4. Ownership'
      BY <2>a, <3>p, PointFacts DEF TaskTypes, OpTypes, Ownership, Running
    <3>5. Unstarted'
      BY <2>a, <3>p, PointFacts DEF TaskTypes, OpTypes, Unstarted
    <3>6. Returns'
      BY <2>a, <3>p, PointFacts DEF TaskTypes, OpTypes, Returns
    <3>7. ResetExcludes'
      BY <2>a, <3>p, PointFacts DEF TaskTypes, OpTypes, ResetExcludes, Resetting
    <3>8. Machines'
      BY <2>a, <3>p, PointFacts DEF TaskTypes, OpTypes, Machines
    <3> QED
      BY <3>1, <3>2, <3>3, <3>4, <3>5, <3>6, <3>7, <3>8
  <2> QED
    BY <2>d, <2>e
<1>3. CASE Journals(e)
  <2>a. PICK new \in Rounds, ok \in Drive \ {"enqueue", "release"} :
           /\ pc[e] \in {"budget", "opening", "stream"}
           /\ SaveJournal(e, new, ok, "failing")
    BY <1>3 DEF Journals
  <2> DEFINE o == [kind |-> "journal", phase |-> "queued", seen |-> None]
  <2>b. /\ op' = [op EXCEPT ![e] = o] /\ o \in Operations /\ o # NoOp
        /\ o.kind = "journal" /\ o.phase # "none"
        /\ then' = [then EXCEPT ![e] = [ok |-> ok, err |-> "failing"]]
        /\ [ok |-> ok, err |-> "failing"] \in Targets
        /\ pc' = [pc EXCEPT ![e] = "saving"]
        /\ draft' = [draft EXCEPT ![e] = new]
        /\ UNCHANGED <<store, live, turn, rev, machine, rounds, journalRev, control, history>>
    BY <2>a, PointFacts DEF SaveJournal, Save, Operations, OpKind, OpPhase, SeenValues,
       NoOp, Targets
  <2>c. pc[e] \in Drive \ {"enqueue", "release"}
    BY <2>a DEF Drive
  <2> HIDE DEF o
  <2>1. StoreTypes'
    BY <2>b, <2>c, PointFacts DEF StoreTypes
  <2>2. TaskTypes'
    BY <2>b, <2>c, PointFacts DEF TaskTypes
  <2>3. OpTypes'
    BY <2>b, <2>c, PointFacts DEF OpTypes
  <2>4. Ownership'
    BY <2>b, <2>c, PointFacts DEF TaskTypes, OpTypes, Ownership, Running
  <2>5. Unstarted'
    BY <2>b, <2>c, PointFacts DEF TaskTypes, OpTypes, Unstarted
  <2>6. Returns'
    BY <2>b, <2>c, PointFacts DEF TaskTypes, OpTypes, Returns
  <2>7. ResetExcludes'
    BY <2>b, <2>c, PointFacts DEF TaskTypes, OpTypes, ResetExcludes, Resetting
  <2>8. Machines'
    BY <2>b, <2>c, PointFacts DEF TaskTypes, OpTypes, Machines
  <2> QED
    BY <2>1, <2>2, <2>3, <2>4, <2>5, <2>6, <2>7, <2>8
<1>4. CASE Calling(e)
  <2>a. <<e, turn[e], Len(rounds[e])>> \in Executions \X Turns \X Nat
    BY LenProperties DEF TaskTypes, Rounds
  <2>b. /\ pc[e] = "call" /\ pc' = [pc EXCEPT ![e] = "opening"]
        /\ called' = called \cup {<<e, turn[e], Len(rounds[e])>>}
        /\ UNCHANGED <<store, live, local, then, op, control, admitted, illegal>>
    BY <1>4 DEF Calling
  <2>1. StoreTypes'
    BY <2>a, <2>b, PointFacts DEF StoreTypes
  <2>2. TaskTypes'
    BY <2>a, <2>b, PointFacts DEF TaskTypes
  <2>3. OpTypes'
    BY <2>a, <2>b, PointFacts DEF OpTypes
  <2>4. Ownership'
    BY <2>a, <2>b, PointFacts DEF TaskTypes, OpTypes, Ownership, Running
  <2>5. Unstarted'
    BY <2>a, <2>b, PointFacts DEF TaskTypes, OpTypes, Unstarted
  <2>6. Returns'
    BY <2>a, <2>b, PointFacts DEF TaskTypes, OpTypes, Returns
  <2>7. ResetExcludes'
    BY <2>a, <2>b, PointFacts DEF TaskTypes, OpTypes, ResetExcludes, Resetting
  <2>8. Machines'
    BY <2>a, <2>b, PointFacts DEF TaskTypes, OpTypes, Machines
  <2> QED
    BY <2>1, <2>2, <2>3, <2>4, <2>5, <2>6, <2>7, <2>8
<1>5. CASE PersistTurn(e)
  <2> DEFINE o == [kind |-> "turn", phase |-> "queued", seen |-> None]
  <2>a. /\ op' = [op EXCEPT ![e] = o] /\ o \in Operations /\ o # NoOp
        /\ o.kind = "turn" /\ o.phase # "none"
        /\ then' = [then EXCEPT ![e] = [ok |-> "release", err |-> "release"]]
        /\ [ok |-> "release", err |-> "release"] \in Targets
        /\ pc' = [pc EXCEPT ![e] = "saving"]
        /\ pc[e] = "record"
        /\ UNCHANGED <<store, live, local, control, history>>
    BY <1>5, PointFacts DEF PersistTurn, Save, Operations, OpKind, OpPhase, SeenValues,
       NoOp, Targets
  <2> HIDE DEF o
  <2>1. StoreTypes'
    BY <2>a, PointFacts DEF StoreTypes
  <2>2. TaskTypes'
    BY <2>a, PointFacts DEF TaskTypes
  <2>3. OpTypes'
    BY <2>a, PointFacts DEF OpTypes
  <2>4. Ownership'
    BY <2>a, PointFacts DEF TaskTypes, OpTypes, Ownership, Running
  <2>5. Unstarted'
    BY <2>a, PointFacts DEF TaskTypes, OpTypes, Unstarted
  <2>6. Returns'
    BY <2>a, PointFacts DEF TaskTypes, OpTypes, Returns
  <2>7. ResetExcludes'
    BY <2>a, PointFacts DEF TaskTypes, OpTypes, ResetExcludes, Resetting
  <2>8. Machines'
    BY <2>a, PointFacts DEF TaskTypes, OpTypes, Machines
  <2> QED
    BY <2>1, <2>2, <2>3, <2>4, <2>5, <2>6, <2>7, <2>8
<1> QED
  BY <1>1, <1>2, <1>3, <1>4, <1>5 DEF Drives

\* The end of an execution: released, aborted or panicked.
LEMMA ControlEnd ==
    ASSUME Control, NEW e \in Executions, Ends(e)
    PROVE  Control'
<1> USE DEF Control, Types, store, local, control, history, Goto
<1>1. CASE Ends(e)
  <2>a. /\ live = e /\ live' = None /\ Running(e) /\ pc' = [pc EXCEPT ![e] = "ended"]
        /\ then' = [then EXCEPT ![e] = Nowhere]
        /\ cancel' = cancel \ {e} /\ pause' = pause \ {e}
        /\ UNCHANGED <<store, turn, op, reset, crashes, history>>
    BY <1>1 DEF Ends, Gone, Ownership
  <2>b. /\ machine' \in [Executions -> TurnStateMachine]
        /\ rev' \in [Executions -> Nat] /\ journalRev' \in [Executions -> Nat]
        /\ rounds' \in [Executions -> Rounds] /\ draft' \in [Executions -> Rounds]
    <3>1. CASE op[e] = NoOp
      <4>1. /\ machine' = [machine EXCEPT ![e] = NewMachine]
            /\ rev' = [rev EXCEPT ![e] = 0] /\ journalRev' = [journalRev EXCEPT ![e] = 0]
            /\ rounds' = [rounds EXCEPT ![e] = <<>>] /\ draft' = [draft EXCEPT ![e] = <<>>]
        BY <1>1, <3>1 DEF Ends, Gone
      <4> QED
        BY <4>1, Constants DEF TaskTypes
    <3>2. CASE op[e] # NoOp
      BY <1>1, <3>2 DEF Ends, Gone, TaskTypes
    <3> QED
      BY <3>1, <3>2
  <2>c. /\ \A f \in Executions \ {e} :
              /\ machine'[f] = machine[f] /\ rev'[f] = rev[f] /\ rounds'[f] = rounds[f]
              /\ draft'[f] = draft[f] /\ journalRev'[f] = journalRev[f]
        /\ machine'[e] = machine[e] \/ (op[e] = NoOp /\ machine'[e] = NewMachine)
    BY <1>1 DEF Ends, Gone, TaskTypes
  <2>d. \A f \in Executions : /\ Restorable(machine'[f])
                              /\ op'[f].kind = "session" => machine'[f].state # "Draft"
    <3>1. Restorable(machine'[e]) /\ (op[e].kind = "session" => machine'[e].state # "Draft")
      BY <2>c, NewIsRestorable DEF Machines, NoOp
    <3> QED
      BY <2>a, <2>c, <3>1 DEF Machines
  <2>e. sess' = sess /\ Restorable(sess.machine)
    BY <2>a DEF Machines
  <2>1. StoreTypes'
    BY <2>a, <2>b, <2>c, TurnAssumption, PointFacts, Constants DEF StoreTypes
  <2>2. TaskTypes'
    BY <2>a, <2>b, <2>c, TurnAssumption, PointFacts, Constants DEF TaskTypes
  <2>3. OpTypes'
    BY <2>a, <2>b, <2>c, TurnAssumption, PointFacts, Constants DEF OpTypes
  <2>4. Ownership'
    BY <2>a, <2>b, <2>c, TurnAssumption, PointFacts, Constants
       DEF TaskTypes, OpTypes, Ownership, Running
  <2>5. Unstarted'
    BY <2>a, <2>b, <2>c, TurnAssumption, PointFacts, Constants
       DEF TaskTypes, OpTypes, Unstarted
  <2>6. Returns'
    BY <2>a, <2>b, <2>c, TurnAssumption, PointFacts, Constants
       DEF TaskTypes, OpTypes, Returns
  <2>7. ResetExcludes'
    BY <2>a, <2>b, <2>c, TurnAssumption, PointFacts, Constants
       DEF TaskTypes, OpTypes, ResetExcludes, Resetting
  <2>8. Machines'
    BY <2>d, <2>e DEF Machines
  <2> QED
    BY <2>1, <2>2, <2>3, <2>4, <2>5, <2>6, <2>7, <2>8
<1> QED
  BY <1>1

\* A reset begins while no submit is between its reading and its claim, and reads
\* when nobody is live.
LEMMA ControlReset ==
    ASSUME Control, NEW r \in Resets, ResetBegins(r) \/ ResetReads(r) \/ ResetCommits(r)
    PROVE  Control'
<1> USE DEF Control, Types, store, local, control, history, Goto
<1>1. CASE ResetBegins(r)
  <2> DEFINE o == [kind |-> "session", phase |-> "queued", seen |-> None]
  <2>a. /\ o \in Removals /\ o.phase = "queued" /\ reset' = [reset EXCEPT ![r] = o]
        /\ cancel' \subseteq Executions
        /\ \A e \in Executions : pc[e] \notin {"nextTurn", "claim"}
        /\ UNCHANGED <<store, live, pc, local, then, op, pause, crashes, history>>
    BY <1>1 DEF ResetBegins, Removals, OpKind, OpPhase, TaskTypes
  <2> HIDE DEF o
  <2>1. StoreTypes'
    BY <2>a DEF StoreTypes
  <2>2. TaskTypes'
    BY <2>a DEF TaskTypes
  <2>3. OpTypes'
    BY <2>a DEF OpTypes
  <2>4. Ownership'
    BY <2>a DEF TaskTypes, OpTypes, Ownership, Running
  <2>5. Unstarted'
    BY <2>a DEF TaskTypes, OpTypes, Unstarted
  <2>6. Returns'
    BY <2>a DEF TaskTypes, OpTypes, Returns
  <2>7. ResetExcludes'
    BY <2>a DEF TaskTypes, OpTypes, ResetExcludes, Resetting
  <2>8. Machines'
    BY <2>a DEF TaskTypes, OpTypes, Machines
  <2> QED
    BY <2>1, <2>2, <2>3, <2>4, <2>5, <2>6, <2>7, <2>8
<1>2. CASE ResetReads(r)
  <2>a. PICK o \in Removals :
           /\ reset' = [reset EXCEPT ![r] = o] /\ reset[r].phase = "queued" /\ live = None
    <3>1. reset[r] \in Removals /\ sess \in Snapshots
      BY DEF OpTypes, StoreTypes
    <3>2. [reset[r] EXCEPT !.phase = "read", !.seen = sess] \in Removals
      BY <3>1 DEF Removals, OpPhase
    <3>3. [reset[r] EXCEPT !.phase = "ok"] \in Removals
      BY <3>1 DEF Removals, OpPhase
    <3> QED
      BY <1>2, <3>2, <3>3 DEF ResetReads
  <2>b. /\ fence' \in BOOLEAN
        /\ UNCHANGED <<sess, highWater, journal, record, live, pc, local, then, op, cancel, pause, history>>
    BY <1>2 DEF ResetReads, StoreTypes
  <2>1. StoreTypes'
    BY <2>a, <2>b DEF StoreTypes
  <2>2. TaskTypes'
    BY <2>a, <2>b DEF TaskTypes
  <2>3. OpTypes'
    BY <2>a, <2>b DEF OpTypes
  <2>4. Ownership'
    BY <2>a, <2>b DEF TaskTypes, OpTypes, Ownership, Running
  <2>5. Unstarted'
    BY <2>a, <2>b DEF TaskTypes, OpTypes, Unstarted
  <2>6. Returns'
    BY <2>a, <2>b DEF TaskTypes, OpTypes, Returns
  <2>7. ResetExcludes'
    BY <2>a, <2>b DEF TaskTypes, OpTypes, ResetExcludes, Resetting
  <2>8. Machines'
    BY <2>a, <2>b DEF TaskTypes, OpTypes, Machines
  <2> QED
    BY <2>1, <2>2, <2>3, <2>4, <2>5, <2>6, <2>7, <2>8
<1>3. CASE ResetCommits(r)
  <2>a. PICK o \in Removals :
           /\ reset' = [reset EXCEPT ![r] = o] /\ o.phase = "ok"
           /\ reset[r].phase = "read"
    <3>1. reset[r] \in Removals
      BY DEF OpTypes
    <3> DEFINE o == [reset[r] EXCEPT !.phase = "ok", !.seen = None]
    <3>2. o \in Removals /\ o.phase = "ok"
      BY <3>1 DEF Removals, OpPhase
    <3> HIDE DEF o
    <3> QED
      BY <1>3, <3>2 DEF ResetCommits, o
  <2>b. /\ fence' \in BOOLEAN /\ sess' \in {sess, NoSession}
        /\ UNCHANGED <<highWater, journal, record, live, pc, local, then, op, cancel, pause, history>>
    BY <1>3 DEF ResetCommits, StoreTypes
  <2>1. StoreTypes'
    BY <2>a, <2>b, Constants DEF StoreTypes
  <2>2. TaskTypes'
    BY <2>a, <2>b, Constants DEF TaskTypes
  <2>3. OpTypes'
    BY <2>a, <2>b, Constants DEF OpTypes
  <2>4. Ownership'
    BY <2>a, <2>b, Constants DEF TaskTypes, OpTypes, Ownership, Running
  <2>5. Unstarted'
    BY <2>a, <2>b, Constants DEF TaskTypes, OpTypes, Unstarted
  <2>6. Returns'
    BY <2>a, <2>b, Constants DEF TaskTypes, OpTypes, Returns
  <2>7. ResetExcludes'
    BY <2>a, <2>b, Constants DEF TaskTypes, OpTypes, ResetExcludes, Resetting
  <2>8. Machines'
    BY <2>a, <2>b, Constants, NewIsRestorable DEF TaskTypes, OpTypes, Machines, NoSession
  <2> QED
    BY <2>1, <2>2, <2>3, <2>4, <2>5, <2>6, <2>7, <2>8
<1> QED
  BY <1>1, <1>2, <1>3

\* Signals to an execution, and the death of the process.
LEMMA ControlOther ==
    ASSUME Control, Signals \/ Crash
    PROVE  Control'
<1> USE DEF Control, Types, store, local, control, history, Goto
<1>1. CASE Signals
  <2>1. StoreTypes'
    BY <1>1 DEF StoreTypes, Signals
  <2>2. TaskTypes'
    BY <1>1 DEF TaskTypes, Signals
  <2>3. OpTypes'
    BY <1>1 DEF OpTypes, Signals
  <2>4. Ownership'
    BY <1>1 DEF TaskTypes, OpTypes, Ownership, Running, Signals
  <2>5. Unstarted'
    BY <1>1 DEF TaskTypes, OpTypes, Unstarted, Signals
  <2>6. Returns'
    BY <1>1 DEF TaskTypes, OpTypes, Returns, Signals
  <2>7. ResetExcludes'
    BY <1>1 DEF TaskTypes, OpTypes, ResetExcludes, Resetting, Signals
  <2>8. Machines'
    BY <1>1 DEF TaskTypes, OpTypes, Machines, Signals
  <2> QED
    BY <2>1, <2>2, <2>3, <2>4, <2>5, <2>6, <2>7, <2>8
<1>2. CASE Crash
  <2>a. reset' \in [Resets -> Removals] /\ \A r \in Resets : reset'[r].phase \notin {"queued", "read"}
    <3>1. \A r \in Resets : /\ reset[r] \in Removals
                            /\ [reset[r] EXCEPT !.phase = "ok", !.seen = None] \in Removals
                            /\ [reset[r] EXCEPT !.phase = "ok", !.seen = None].phase = "ok"
      BY DEF OpTypes, Removals, OpPhase
    <3>2. \A r \in Resets : \/ reset'[r] = NoOp
                            \/ reset'[r] = [reset[r] EXCEPT !.phase = "ok", !.seen = None]
      BY <1>2 DEF Crash
    <3>3. DOMAIN reset' = Resets /\ reset' = [r \in Resets |-> reset'[r]]
      BY <1>2 DEF Crash
    <3> QED
      <4>1. \A r \in Resets : reset'[r] \in Removals /\ reset'[r].phase \notin {"queued", "read"}
        <5> TAKE r \in Resets
        <5>1. CASE reset'[r] = NoOp
          BY <5>1, Constants DEF NoOp
        <5>2. CASE reset'[r] = [reset[r] EXCEPT !.phase = "ok", !.seen = None]
          <6> DEFINE o == [reset[r] EXCEPT !.phase = "ok", !.seen = None]
          <6>1. o \in Removals /\ o.phase = "ok"
            BY <3>1
          <6> HIDE DEF o
          <6> QED
            BY <5>2, <6>1 DEF o
        <5> QED
          BY <3>2, <5>1, <5>2
      <4> QED
        BY <3>3, <4>1
  <2>1. StoreTypes'
    BY <1>2, <2>a, TurnAssumption, PointFacts, Constants DEF StoreTypes, Crash
  <2>2. TaskTypes'
    BY <1>2, <2>a, TurnAssumption, PointFacts, Constants DEF TaskTypes, Crash
  <2>3. OpTypes'
    BY <1>2, <2>a, TurnAssumption, PointFacts, Constants DEF OpTypes, Crash
  <2>4. Ownership'
    BY <1>2, <2>a, TurnAssumption, PointFacts, Constants
       DEF TaskTypes, OpTypes, Ownership, Running, Crash
  <2>5. Unstarted'
    BY <1>2, <2>a, TurnAssumption, PointFacts, Constants
       DEF TaskTypes, OpTypes, Unstarted, Crash
  <2>6. Returns'
    BY <1>2, <2>a, TurnAssumption, PointFacts, Constants
       DEF TaskTypes, OpTypes, Returns, Crash
  <2>7. ResetExcludes'
    BY <1>2, <2>a, TurnAssumption, PointFacts, Constants
       DEF TaskTypes, OpTypes, ResetExcludes, Resetting, Crash
  <2>8. Machines'
    BY <1>2, <2>a, TurnAssumption, PointFacts, Constants, NewIsRestorable
       DEF TaskTypes, OpTypes, Machines, Crash, NoOp
  <2> QED
    BY <2>1, <2>2, <2>3, <2>4, <2>5, <2>6, <2>7, <2>8
<1> QED
  BY <1>1, <1>2

\* Control is inductive.
LEMMA ControlStep ==
    Control /\ [Next]_vars => Control'
  BY StepShapes, ControlSubmit, ControlWork, ControlReturn, ControlDrive, ControlEnd,
     ControlReset, ControlOther

\* An invariant of every behaviour: where each execution stands, which one is
\* live, and what was handed to the store.
THEOREM ControlAlways ==
    Spec => []Control
<1>1. Init => Control
  BY ControlInit
<1>2. Control /\ [Next]_vars => Control'
  BY ControlStep
<1> QED
  BY <1>1, <1>2, PTL DEF Spec

\* Whatever is cut short, every stored snapshot is one restore() accepts.
THEOREM StoredIsRestorable ==
    Spec => []SnapshotRestorable
<1>1. Control => SnapshotRestorable
  BY DEF Control, Machines, SnapshotRestorable
<1> QED
  BY <1>1, ControlAlways, PTL

---------------------------------------------------------------------------
(* The journal of a turn has one writer.                                   *)

\* What a step that leaves the journals alone may do to an execution.
Quiet(f) ==
    /\ pc[f] \notin Before => turn'[f] = turn[f] /\ pc'[f] \notin Before
    /\ turn'[f] = turn[f] \/ (rounds'[f] = <<>> /\ journalRev'[f] = 0)
    /\ rounds'[f] \in {rounds[f], <<>>} /\ journalRev'[f] \in {journalRev[f], 0}
    /\ pc'[f] = "saving" /\ op'[f].kind = "journal" /\ op'[f].phase = "ok"
          => pc[f] = "saving" /\ op'[f] = op[f] /\ draft'[f] = draft[f]
    /\ pc'[f] = "call" => pc[f] = "call" /\ journalRev'[f] = journalRev[f]

\* An operation that has read keeps what it compares with.
KeepsReading(f) ==
    op'[f].phase = "read" =>
        /\ op'[f] = op[f]
        /\ rounds'[f] = rounds[f] /\ draft'[f] = draft[f] /\ journalRev'[f] = journalRev[f]

\* Journal holds at first.
LEMMA JournalInit ==
    Init => Journal
<1> SUFFICES ASSUME Init PROVE Journal
  OBVIOUS
<1>1. \A t \in Turns : journal[t].rounds = <<>> /\ record[t] = NoRecord
  BY DEF Init, NoJournal
<1>2. \A e \in Executions : /\ turn[e] \in Turns /\ rounds[e] = <<>> /\ op[e] = NoOp
                            /\ journalRev[e] = 0 /\ pc[e] = "idle"
  BY Constants DEF Init
<1>3. ReadJournal /\ JournalAhead
  BY <1>1, <1>2 DEF ReadJournal, JournalRead, JournalAhead, NoOp
<1>4. OneWriter /\ Calls
  BY <1>2 DEF OneWriter, Journalled, Calls, Init
<1>5. RecordMatchesJournal
  BY <1>1 DEF RecordMatchesJournal
<1> QED
  BY <1>3, <1>4, <1>5 DEF Journal

\* Steps that write neither journal nor record keep Journal, if they are quiet.
LEMMA JournalKept ==
    ASSUME Control, Journal, Control', UNCHANGED <<journal, record, called>>,
           \A f \in Executions : Quiet(f) /\ (KeepsReading(f) \/ JournalRead(f)')
    PROVE  Journal'
<1>1. ReadJournal'
  <2> SUFFICES ASSUME NEW f \in Executions, KeepsReading(f)
               PROVE  JournalRead(f)'
    BY DEF ReadJournal
  <2> QED
    BY DEF Journal, ReadJournal, JournalRead, KeepsReading
<1>2. JournalAhead'
  <2> SUFFICES ASSUME NEW f \in Executions
               PROVE  /\ Len(rounds'[f]) <= Len(journal[turn'[f]].rounds)
                      /\ pc'[f] = "saving" /\ op'[f].kind = "journal" /\ op'[f].phase = "ok"
                            => Len(draft'[f]) <= Len(journal[turn'[f]].rounds)
    BY DEF JournalAhead
  <2>1. Quiet(f)
    OBVIOUS
  <2>2. Len(journal[turn'[f]].rounds) \in Nat
    BY LenProperties DEF Control, Types, StoreTypes, TaskTypes, ProviderRoundJournal, Rounds
  <2>3. Len(rounds'[f]) <= Len(journal[turn'[f]].rounds)
    BY <2>1, <2>2 DEF Quiet, Journal, JournalAhead
  <2>4. ASSUME pc'[f] = "saving", op'[f].kind = "journal", op'[f].phase = "ok"
        PROVE  Len(draft'[f]) <= Len(journal[turn'[f]].rounds)
    BY <2>1, <2>4, PointFacts DEF Quiet, Journal, JournalAhead
  <2> QED
    BY <2>3, <2>4
<1>3. \A f \in Executions : Journalled(f)' => Journalled(f) /\ turn'[f] = turn[f]
  <2> SUFFICES ASSUME NEW f \in Executions, Journalled(f)'
               PROVE  Journalled(f) /\ turn'[f] = turn[f]
    OBVIOUS
  <2>1. journalRev[f] \in Nat
    BY DEF Control, Types, TaskTypes
  <2>2. Journalled(f)
    BY <2>1 DEF Quiet, Journalled
  <2>3. pc[f] \notin Before
    BY <2>2, PointFacts DEF Journalled, Journal, Calls, Control, Unstarted
  <2> QED
    BY <2>2, <2>3 DEF Quiet
<1>4. OneWriter'
  BY <1>3 DEF Journal, OneWriter, Quiet
<1>5. Calls'
  BY DEF Journal, Calls, Quiet, Control, Types, OpTypes
<1>6. RecordMatchesJournal'
  BY DEF Journal, RecordMatchesJournal
<1> QED
  BY <1>1, <1>2, <1>4, <1>5, <1>6 DEF Journal

\* The steps that leave the journals alone.
LEMMA QuietSteps ==
    ASSUME Control,
           \/ \E e \in Executions :
                 \/ LoadSession(e) \/ NextTurn(e) \/ SubmitRefused(e) \/ Claim(e)
                 \/ GivesUp(e) \/ Moves(e) \/ Advances(e) \/ Journals(e) \/ PersistTurn(e)
                 \/ Ends(e)
           \/ \E r \in Resets : ResetBegins(r) \/ ResetReads(r) \/ ResetCommits(r)
           \/ Signals \/ Crash
    PROVE  /\ UNCHANGED <<journal, record, called>>
           /\ \A f \in Executions : Quiet(f) /\ KeepsReading(f)
<1> USE DEF Control, Types, TaskTypes, OpTypes, store, local, control, history, Goto, Quiet,
            KeepsReading
<1>1. ASSUME NEW e \in Executions, LoadSession(e)
      PROVE  /\ UNCHANGED <<journal, record, called>>
             /\ \A f \in Executions : Quiet(f) /\ KeepsReading(f)
  BY <1>1, PointFacts DEF LoadSession, Unstarted
<1>2. ASSUME NEW e \in Executions, NextTurn(e)
      PROVE  /\ UNCHANGED <<journal, record, called>>
             /\ \A f \in Executions : Quiet(f) /\ KeepsReading(f)
  BY <1>2, PointFacts DEF NextTurn, Unstarted
<1>3. ASSUME NEW e \in Executions, SubmitRefused(e)
      PROVE  /\ UNCHANGED <<journal, record, called>>
             /\ \A f \in Executions : Quiet(f) /\ KeepsReading(f)
  BY <1>3, PointFacts DEF SubmitRefused
<1>4. ASSUME NEW e \in Executions, Claim(e)
      PROVE  /\ UNCHANGED <<journal, record, called>>
             /\ \A f \in Executions : Quiet(f) /\ KeepsReading(f)
  BY <1>4, PointFacts DEF Claim
<1>5. ASSUME NEW e \in Executions, GivesUp(e)
      PROVE  /\ UNCHANGED <<journal, record, called>>
             /\ \A f \in Executions : Quiet(f) /\ KeepsReading(f)
  <2>1. op'[e].phase \in {"failed", "none"}
    BY <1>5 DEF GivesUp, Finish, NoOp, Operations
  <2>2. /\ \A f \in Executions \ {e} : op'[f] = op[f]
        /\ UNCHANGED <<journal, record, pc, turn, rounds, draft, journalRev, called>>
    BY <1>5 DEF GivesUp, Finish
  <2> QED
    BY <2>1, <2>2
<1>6. ASSUME NEW e \in Executions, Moves(e)
      PROVE  /\ UNCHANGED <<journal, record, called>>
             /\ \A f \in Executions : Quiet(f) /\ KeepsReading(f)
  BY <1>6, PointFacts DEF Moves, Step
<1>7. ASSUME NEW e \in Executions, Advances(e)
      PROVE  /\ UNCHANGED <<journal, record, called>>
             /\ \A f \in Executions : Quiet(f) /\ KeepsReading(f)
  <2>1. PICK event \in SessionEvent, ok \in Drive \ {"enqueue", "call", "release"},
             err \in {"failing", "release"} :
           pc[e] \in Drive \ {"record", "release"} /\ Advance(e, event, ok, err)
    BY <1>7 DEF Advances
  <2> QED
    BY <2>1, PointFacts DEF Advance, Save
<1>8. ASSUME NEW e \in Executions, Journals(e)
      PROVE  /\ UNCHANGED <<journal, record, called>>
             /\ \A f \in Executions : Quiet(f) /\ KeepsReading(f)
  <2>1. PICK new \in Rounds, ok \in Drive \ {"enqueue", "release"} :
           pc[e] \in {"budget", "opening", "stream"} /\ SaveJournal(e, new, ok, "failing")
    BY <1>8 DEF Journals
  <2>2. pc[e] \in Drive
    BY <2>1 DEF Drive
  <2> QED
    BY <2>1, <2>2, PointFacts DEF SaveJournal, Save
<1>9. ASSUME NEW e \in Executions, PersistTurn(e)
      PROVE  /\ UNCHANGED <<journal, record, called>>
             /\ \A f \in Executions : Quiet(f) /\ KeepsReading(f)
  BY <1>9, PointFacts DEF PersistTurn, Save
<1>10. ASSUME NEW e \in Executions, Ends(e)
       PROVE  /\ UNCHANGED <<journal, record, called>>
              /\ \A f \in Executions : Quiet(f) /\ KeepsReading(f)
  <2>1. CASE op[e] = NoOp
    BY <1>10, <2>1, PointFacts DEF Ends, Gone, NoOp, Ownership, Running
  <2>2. CASE op[e] # NoOp
    BY <1>10, <2>2, PointFacts DEF Ends, Gone, Ownership, Running
  <2> QED
    BY <2>1, <2>2
<1>11. ASSUME NEW r \in Resets, ResetBegins(r) \/ ResetReads(r) \/ ResetCommits(r)
       PROVE  /\ UNCHANGED <<journal, record, called>>
              /\ \A f \in Executions : Quiet(f) /\ KeepsReading(f)
  BY <1>11 DEF ResetBegins, ResetReads, ResetCommits
<1>12. ASSUME Signals
       PROVE  /\ UNCHANGED <<journal, record, called>>
              /\ \A f \in Executions : Quiet(f) /\ KeepsReading(f)
  BY <1>12 DEF Signals
<1>13. ASSUME Crash
       PROVE  /\ UNCHANGED <<journal, record, called>>
              /\ \A f \in Executions : Quiet(f) /\ KeepsReading(f)
  BY <1>13, PointFacts DEF Crash, NoOp
<1> QED
  BY <1>1, <1>2, <1>3, <1>4, <1>5, <1>6, <1>7, <1>8, <1>9, <1>10, <1>11, <1>12, <1>13

\* A worker reads the journal or the record it will compare with.
LEMMA JournalReads ==
    ASSUME Control, Journal, Control', NEW e \in Executions, Reads(e)
    PROVE  Journal'
<1> DEFINE o == [kind |-> op[e].kind, phase |-> "read", seen |-> Seen(e)]
           j == journal[turn[e]]
<1>1. op[e] \in Operations /\ op[e].kind \in {"session", "journal", "turn"} /\ j \in ProviderRoundJournal
  BY DEF Control, Types, OpTypes, TaskTypes, StoreTypes, Ownership, Reads, Operations,
     OpKind, NoOp
<1>2. op' = [op EXCEPT ![e] = o]
  <2>1. op' = [op EXCEPT ![e] = [op[e] EXCEPT !.phase = "read", !.seen = Seen(e)]]
    BY DEF Reads, Control, Types, OpTypes
  <2>2. [op[e] EXCEPT !.phase = "read", !.seen = Seen(e)] = o
    BY <1>1, OperationUpdate DEF Operations
  <2> QED
    BY <2>1, <2>2
<1>3. /\ Accepted(e)
      /\ UNCHANGED <<journal, record, called, pc, turn, rounds, draft, journalRev>>
  BY DEF Reads, store, local, history
<1>4. \A f \in Executions : Quiet(f) /\ (f # e => KeepsReading(f))
  BY <1>2, <1>3 DEF Quiet, KeepsReading, Control, Types, OpTypes
<1>5. op'[e].kind = op[e].kind /\ op'[e].seen = Seen(e)
  BY <1>2 DEF Control, Types, OpTypes
<1>6. ASSUME op[e].kind = "journal"
      PROVE  JournalRead(e)'
  <2>1. /\ ~j.closed /\ j.rev = journalRev[e]
        /\ AppendsOrReports(j.rounds, draft[e])
    BY <1>3, <1>6 DEF Accepted, JournalAccepted
  <2>2. Len(j.rounds) <= Len(draft[e])
    <3>1. Len(j.rounds) \in Nat /\ Len(draft[e]) \in Nat
      BY <1>1, LenProperties DEF ProviderRoundJournal, Rounds, Control, Types, TaskTypes
    <3> QED
      BY <2>1, <3>1 DEF AppendsOrReports
  <2>3. op'[e].seen = <<j>>
    BY <1>5, <1>6 DEF Seen
  <2> QED
    BY <1>1, <1>3, <1>5, <1>6, <2>1, <2>2, <2>3 DEF JournalRead
<1>7. ASSUME op[e].kind = "turn"
      PROVE  JournalRead(e)'
  <2>1. j # NoJournal => j.rounds = rounds[e]
    BY <1>3, <1>7 DEF Accepted, TurnAccepted
  <2>2. op'[e].seen = <<j>>
    BY <1>5, <1>7 DEF Seen
  <2> QED
    BY <1>1, <1>3, <1>5, <1>7, <2>1, <2>2 DEF JournalRead
<1>8. JournalRead(e)'
  BY <1>1, <1>5, <1>6, <1>7 DEF JournalRead
<1> QED
  BY <1>3, <1>4, <1>8, JournalKept

\* The execution learns which revision its journal has.
LEMMA JournalReturns ==
    ASSUME Control, Journal, Control', NEW e \in Executions, OpReturns(e)
    PROVE  Journal'
<1> USE DEF store, local, control, history
<1>1. /\ pc[e] = "saving" /\ op'[e] = NoOp
      /\ UNCHANGED <<journal, record, called, turn>>
      /\ \A f \in Executions \ {e} :
            /\ pc'[f] = pc[f] /\ op'[f] = op[f] /\ draft'[f] = draft[f]
            /\ rounds'[f] = rounds[f] /\ journalRev'[f] = journalRev[f]
  BY DEF OpReturns, Control, Types, TaskTypes, OpTypes
<1>2. /\ rounds'[e] = rounds[e] /\ journalRev'[e] = journalRev[e]
      \/ /\ op[e].kind = "journal" /\ op[e].phase = "ok"
         /\ rounds'[e] = draft[e] /\ journalRev'[e] = journalRev[e] + 1
  BY DEF OpReturns, Control, Types, TaskTypes
<1>3. pc'[e] \in Drive
  BY PointFacts DEF OpReturns, Control, Types, TaskTypes, Returns
<1>4. ReadJournal'
  <2> SUFFICES ASSUME NEW f \in Executions PROVE JournalRead(f)'
    BY DEF ReadJournal
  <2>1. CASE f = e
    BY <1>1, <2>1 DEF JournalRead, NoOp
  <2>2. CASE f # e
    BY <1>1, <2>2 DEF Journal, ReadJournal, JournalRead
  <2> QED
    BY <2>1, <2>2
<1>5. JournalAhead'
  <2> SUFFICES ASSUME NEW f \in Executions
               PROVE  /\ Len(rounds'[f]) <= Len(journal[turn[f]].rounds)
                      /\ pc'[f] = "saving" /\ op'[f].kind = "journal" /\ op'[f].phase = "ok"
                            => Len(draft'[f]) <= Len(journal[turn[f]].rounds)
    BY <1>1 DEF JournalAhead
  <2>1. CASE f = e
    BY <1>1, <1>2, <2>1 DEF Journal, JournalAhead, NoOp
  <2>2. CASE f # e
    BY <1>1, <2>2 DEF Journal, JournalAhead
  <2> QED
    BY <2>1, <2>2
<1>6. \A f \in Executions : Journalled(f)' => Journalled(f)
  <2> SUFFICES ASSUME NEW f \in Executions, Journalled(f)' PROVE Journalled(f)
    OBVIOUS
  <2>1. CASE f = e
    BY <1>1, <1>2, <2>1 DEF Journalled, NoOp
  <2>2. CASE f # e
    BY <1>1, <2>2 DEF Journalled
  <2> QED
    BY <2>1, <2>2
<1>7. ASSUME NEW f \in Executions, pc'[f] = "call"
      PROVE  journalRev'[f] > 0
  <2>1. CASE f = e
    <3>1. then[e].ok = "call" /\ op[e].phase = "ok"
      <4>1. pc'[e] = IF op[e].phase = "ok" THEN then[e].ok ELSE then[e].err
        BY DEF OpReturns, Goto, Control, Types, TaskTypes
      <4>2. then[e].err # "call"
        BY <1>1 DEF Control, Returns
      <4> QED
        BY <1>7, <2>1, <4>1, <4>2
    <3>2. op[e].kind = "journal" /\ journalRev[e] \in Nat
      BY <3>1, <1>1 DEF Control, Types, TaskTypes, Returns
    <3>3. journalRev'[e] = journalRev[e] + 1
      BY <3>1, <3>2 DEF OpReturns, Control, Types, TaskTypes
    <3> QED
      BY <2>1, <3>2, <3>3
  <2>2. CASE f # e
    BY <1>1, <1>7, <2>2 DEF Journal, OneWriter
  <2> QED
    BY <2>1, <2>2
<1>8. OneWriter'
  BY <1>1, <1>6, <1>7 DEF Journal, OneWriter
<1>9. Calls'
  <2>1. \A c \in called : c[1] \in Executions
    BY DEF Control, Types, OpTypes
  <2>2. \A f \in Executions : pc[f] \notin Before => pc'[f] \notin Before
    BY <1>1, <1>3, PointFacts
  <2> QED
    BY <1>1, <2>1, <2>2 DEF Journal, Calls
<1>10. RecordMatchesJournal'
  BY <1>1 DEF Journal, RecordMatchesJournal
<1> QED
  BY <1>4, <1>5, <1>8, <1>9, <1>10 DEF Journal

\* A provider call: its round is in the committed journal, open, and new.
LEMMA JournalCalls ==
    ASSUME Control, Journal, Control', NEW e \in Executions, Calling(e)
    PROVE  Journal'
<1> USE DEF store, local, control, history
<1>1. /\ pc[e] = "call" /\ pc'[e] = "opening" /\ journalRev[e] > 0 /\ turn[e] \in Turns
      /\ called' = called \cup {<<e, turn[e], Len(rounds[e])>>}
      /\ UNCHANGED <<journal, record, turn, rounds, draft, journalRev, op>>
      /\ \A f \in Executions \ {e} : pc'[f] = pc[f]
  BY DEF Calling, Goto, Control, Types, TaskTypes, Journal, OneWriter
<1>2. ReadJournal' /\ JournalAhead'
  BY <1>1 DEF Journal, ReadJournal, JournalRead, JournalAhead
<1>3. \A f \in Executions : Journalled(f)' => Journalled(f)
  BY <1>1 DEF Journalled
<1>4. OneWriter'
  BY <1>1, <1>3 DEF Journal, OneWriter
<1>5. Calls'
  <2>1. \A c \in called : c[1] \in Executions
    BY DEF Control, Types, OpTypes
  <2>2. \A f \in Executions : pc[f] \notin Before => pc'[f] \notin Before
    BY <1>1, PointFacts
  <2> SUFFICES ASSUME NEW c \in called'
               PROVE  /\ c[2] = turn[c[1]] /\ pc'[c[1]] \notin Before
                      /\ c[3] <= Len(journal[c[2]].rounds)
    BY <1>1 DEF Calls
  <2>3. CASE c \in called
    BY <2>1, <2>2, <2>3 DEF Journal, Calls
  <2>4. CASE c = <<e, turn[e], Len(rounds[e])>>
    BY <1>1, <2>4, PointFacts DEF Journal, JournalAhead
  <2> QED
    BY <1>1, <2>3, <2>4
<1>6. RecordMatchesJournal'
  BY <1>1 DEF Journal, RecordMatchesJournal
<1> QED
  BY <1>2, <1>4, <1>5, <1>6 DEF Journal

\* A commit leaves every journal at least as long, and newer if it is changed.
LEMMA JournalGrows ==
    ASSUME Control, Journal, Control', NEW e \in Executions, Commits(e)
    PROVE  /\ \A t \in Turns \ {turn[e]} : journal'[t] = journal[t] /\ record'[t] = record[t]
           /\ Len(journal[turn[e]].rounds) <= Len(journal'[turn[e]].rounds)
           /\ journal[turn[e]].rev <= journal'[turn[e]].rev
           /\ op[e].kind = "journal" =>
                 /\ journal[turn[e]].rev = journalRev[e]
                 /\ journal'[turn[e]].rounds = draft[e]
                 /\ journal'[turn[e]].rev = journalRev[e] + 1
           /\ record'[turn[e]] # NoRecord =>
                 /\ journal'[turn[e]].closed
                 /\ journal'[turn[e]].rounds = record'[turn[e]].rounds
<1> DEFINE t == turn[e]
           old == journal[t]
<1>1. /\ t \in Turns /\ old \in ProviderRoundJournal /\ journalRev[e] \in Nat
      /\ rounds[e] \in Rounds /\ draft[e] \in Rounds
      /\ journal \in [Turns -> ProviderRoundJournal] /\ DOMAIN record = Turns
      /\ old.rev \in Nat
  BY DEF Control, Types, StoreTypes, TaskTypes, ProviderRoundJournal
<1>2. op[e].phase = "read" /\ op[e].seen = Seen(e) /\ Publish(e)
  BY DEF Commits, Unchanged
<1>3. record[t] # NoRecord => old.closed /\ old.rounds = record[t].rounds
  BY <1>1 DEF Journal, RecordMatchesJournal
<1>4. \A r \in Rounds : Len(r) \in Nat
  BY LenProperties DEF Rounds
<1>5. CASE op[e].kind = "session"
  <2>1. UNCHANGED <<journal, record>>
    BY <1>2, <1>5 DEF Publish
  <2> QED
    BY <1>1, <1>3, <1>4, <1>5, <2>1 DEF ProviderRoundJournal
<1>6. CASE op[e].kind = "journal"
  <2>1. PICK j \in ProviderRoundJournal :
           /\ op[e].seen = <<j>>
           /\ ~j.closed /\ j.rev = journalRev[e] /\ Len(j.rounds) <= Len(draft[e])
    BY <1>2, <1>6 DEF Journal, ReadJournal, JournalRead
  <2>2. j = old
    BY <1>2, <1>6, <2>1 DEF Seen
  <2>3. record[t] = NoRecord
    BY <1>3, <2>1, <2>2
  <2>4. /\ journal' = [journal EXCEPT ![t] = [rounds |-> draft[e], rev |-> journalRev[e] + 1,
                                              closed |-> FALSE]]
        /\ record' = record
    BY <1>2, <1>6 DEF Publish
  <2>5. journal'[t].rounds = draft[e] /\ journal'[t].rev = journalRev[e] + 1
    BY <1>1, <2>4
  <2> QED
    BY <1>1, <1>6, <2>1, <2>2, <2>3, <2>4, <2>5
<1>7. CASE op[e].kind = "turn"
  <2>1. PICK j \in ProviderRoundJournal :
           op[e].seen = <<j>> /\ (j # NoJournal => j.rounds = rounds[e])
    BY <1>2, <1>7 DEF Journal, ReadJournal, JournalRead
  <2>2. j = old
    BY <1>2, <1>7, <2>1 DEF Seen
  <2>3. Len(old.rounds) <= Len(rounds[e])
    <3>1. CASE old = NoJournal
      BY <1>1, <1>4, <3>1 DEF NoJournal
    <3>2. CASE old # NoJournal
      BY <1>1, <1>4, <2>1, <2>2, <3>2 DEF ProviderRoundJournal
    <3> QED
      BY <3>1, <3>2
  <2> DEFINE n == [rounds |-> rounds[e], rev |-> old.rev + 1, closed |-> TRUE]
             r == [state |-> machine[e].state, rounds |-> rounds[e]]
  <2>4. journal' = [journal EXCEPT ![t] = n] /\ record' = [record EXCEPT ![t] = r]
    BY <1>1, <1>2, <1>7 DEF Publish
  <2>5. journal'[t] = n /\ record'[t] = r
    BY <1>1, <2>4
  <2>6. /\ journal'[t].rounds = rounds[e] /\ journal'[t].rev = old.rev + 1 /\ journal'[t].closed
        /\ record'[t].rounds = rounds[e]
    BY <2>5
  <2> HIDE DEF n, r
  <2> QED
    BY <1>1, <1>7, <2>3, <2>4, <2>6
<1> QED
  BY <1>2, <1>5, <1>6, <1>7 DEF Publish

\* A commit, known or unknown: the comparison says that nobody wrote in between.
LEMMA JournalCommits ==
    ASSUME Control, Journal, Control', NEW e \in Executions, Commits(e)
    PROVE  Journal'
<1> USE DEF store, local, control, history
<1> DEFINE t == turn[e]
<1>1. /\ UNCHANGED <<called, pc, turn, rounds, draft, journalRev>>
      /\ \A f \in Executions \ {e} : op'[f] = op[f]
      /\ op'[e].phase \in {"ok", "failed", "none"}
      /\ op'[e].phase # "none" => op'[e].kind = op[e].kind
      /\ t \in Turns
  <2>1. PICK phase \in {"ok", "failed"} : Finish(e, phase)
    BY DEF Commits
  <2>2. op'[e].phase \in {"ok", "failed", "none"} /\ (op'[e].phase # "none" => op'[e].kind = op[e].kind)
    BY <2>1 DEF Finish, NoOp, Control, Types, OpTypes, Operations
  <2> QED
    BY <2>1, <2>2 DEF Commits, Finish, Control, Types, OpTypes, TaskTypes
<1>2. /\ \A u \in Turns \ {t} : journal'[u] = journal[u] /\ record'[u] = record[u]
      /\ Len(journal[t].rounds) <= Len(journal'[t].rounds)
      /\ journal[t].rev <= journal'[t].rev
      /\ op[e].kind = "journal" =>
            /\ journal[t].rev = journalRev[e]
            /\ journal'[t].rounds = draft[e]
            /\ journal'[t].rev = journalRev[e] + 1
      /\ record'[t] # NoRecord =>
            /\ journal'[t].closed
            /\ journal'[t].rounds = record'[t].rounds
  BY JournalGrows
<1>3. \A u \in Turns : /\ Len(journal[u].rounds) \in Nat /\ Len(journal'[u].rounds) \in Nat
                       /\ journal[u].rev \in Nat /\ journal'[u].rev \in Nat
  BY LenProperties DEF Control, Types, StoreTypes, ProviderRoundJournal, Rounds
<1>4. \A u \in Turns : /\ Len(journal[u].rounds) <= Len(journal'[u].rounds)
                       /\ journal[u].rev <= journal'[u].rev
  BY <1>1, <1>2, <1>3
<1>5. \A f \in Executions : /\ turn[f] \in Turns /\ journalRev[f] \in Nat
                            /\ Len(rounds[f]) \in Nat /\ Len(draft[f]) \in Nat
  BY LenProperties DEF Control, Types, TaskTypes, Rounds
<1>6. ReadJournal'
  <2> SUFFICES ASSUME NEW f \in Executions PROVE JournalRead(f)'
    BY DEF ReadJournal
  <2>1. CASE f = e
    BY <1>1, <2>1 DEF JournalRead
  <2>2. CASE f # e
    BY <1>1, <2>2 DEF Journal, ReadJournal, JournalRead
  <2> QED
    BY <2>1, <2>2
<1>7. JournalAhead'
  <2> SUFFICES ASSUME NEW f \in Executions
               PROVE  /\ Len(rounds[f]) <= Len(journal'[turn[f]].rounds)
                      /\ pc[f] = "saving" /\ op'[f].kind = "journal" /\ op'[f].phase = "ok"
                            => Len(draft[f]) <= Len(journal'[turn[f]].rounds)
    BY <1>1 DEF JournalAhead
  <2>1. Len(rounds[f]) <= Len(journal'[turn[f]].rounds)
    <3>1. Len(rounds[f]) <= Len(journal[turn[f]].rounds)
      BY DEF Journal, JournalAhead
    <3>2. /\ Len(journal[turn[f]].rounds) <= Len(journal'[turn[f]].rounds)
          /\ Len(journal[turn[f]].rounds) \in Nat /\ Len(journal'[turn[f]].rounds) \in Nat
      BY <1>3, <1>4, <1>5
    <3> QED
      BY <1>5, <3>1, <3>2
  <2>2. ASSUME pc[f] = "saving", op'[f].kind = "journal", op'[f].phase = "ok"
        PROVE  Len(draft[f]) <= Len(journal'[turn[f]].rounds)
    <3>1. CASE f = e
      BY <1>1, <1>2, <1>5, <2>2, <3>1
    <3>2. CASE f # e
      <4>1. Len(draft[f]) <= Len(journal[turn[f]].rounds)
        BY <1>1, <2>2, <3>2 DEF Journal, JournalAhead
      <4> QED
        BY <1>3, <1>4, <1>5, <4>1
    <3> QED
      BY <3>1, <3>2
  <2> QED
    BY <2>1, <2>2
<1>8. \A f \in Executions : Journalled(f)' => Journalled(f) \/ (f = e /\ op[e].kind = "journal")
  BY <1>1 DEF Journalled
<1>9. OneWriter'
  <2>1. ASSUME NEW f \in Executions, Journalled(f)'
        PROVE  journal'[turn[f]].rev > 0
    <3>1. CASE Journalled(f)
      <4>1. journal[turn[f]].rev > 0
        BY <3>1 DEF Journal, OneWriter
      <4> QED
        BY <1>3, <1>4, <1>5, <4>1
    <3>2. CASE f = e /\ op[e].kind = "journal"
      BY <1>2, <1>5, <3>2
    <3> QED
      BY <1>8, <2>1, <3>1, <3>2
  <2>2. \A f \in Executions : Journalled(f)' /\ turn[f] = t /\ op[e].kind = "journal" /\ f # e
                                => Journalled(e)
    <3> SUFFICES ASSUME NEW f \in Executions, Journalled(f)', turn[f] = t, op[e].kind = "journal", f # e
                 PROVE  Journalled(e)
      OBVIOUS
    <3>1. journal[t].rev > 0
      BY <1>8 DEF Journal, OneWriter
    <3> QED
      BY <1>2, <3>1 DEF Journalled
  <2>3. \A f, g \in Executions : Journalled(f) /\ Journalled(g) /\ turn[f] = turn[g] => f = g
    BY DEF Journal, OneWriter
  <2>4. \A f, g \in Executions : Journalled(f)' /\ Journalled(g)' /\ turn[f] = turn[g] => f = g
    BY <1>8, <2>2, <2>3
  <2> QED
    BY <1>1, <2>1, <2>4 DEF Journal, OneWriter
<1>10. Calls'
  <2>1. \A c \in called : c[2] \in Turns /\ c[3] \in Nat
    BY DEF Control, Types, OpTypes
  <2> QED
    BY <1>1, <1>3, <1>4, <2>1 DEF Journal, Calls
<1>11. RecordMatchesJournal'
  BY <1>1, <1>2 DEF Journal, RecordMatchesJournal
<1> QED
  BY <1>6, <1>7, <1>9, <1>10, <1>11 DEF Journal

\* Journal is inductive, given Control.
LEMMA JournalStep ==
    ASSUME Control, Journal, Control', [Next]_vars
    PROVE  Journal'
<1>1. \/ \E e \in Executions : Reads(e) \/ OpReturns(e) \/ Calling(e) \/ Commits(e)
      \/ \E e \in Executions :
            \/ LoadSession(e) \/ NextTurn(e) \/ SubmitRefused(e) \/ Claim(e)
            \/ GivesUp(e) \/ Moves(e) \/ Advances(e) \/ Journals(e) \/ PersistTurn(e)
            \/ Ends(e)
      \/ \E r \in Resets : ResetBegins(r) \/ ResetReads(r) \/ ResetCommits(r)
      \/ Signals \/ Crash
  BY StepShapes DEF Works, Drives
<1>2. CASE \E e \in Executions : Reads(e) \/ OpReturns(e) \/ Calling(e) \/ Commits(e)
  BY <1>2, JournalReads, JournalReturns, JournalCalls, JournalCommits
<1>3. CASE /\ UNCHANGED <<journal, record, called>>
           /\ \A f \in Executions : Quiet(f) /\ KeepsReading(f)
  BY <1>3, JournalKept
<1> QED
  BY <1>1, <1>2, <1>3, QuietSteps

\* The journal of a turn has one writer, and its record, once terminal, seals it:
\* true in every reachable state of run(), drive() and
\* save_provider_round_journal().
THEOREM JournalAlways ==
    Spec => []Journal
<1>1. Init => Journal
  BY JournalInit
<1>2. Control /\ Journal /\ Control' /\ [Next]_vars => Journal'
  BY JournalStep
<1> QED
  BY <1>1, <1>2, ControlAlways, PTL DEF Spec

\* Nothing is sent to a provider that was not journalled, and no round twice.
THEOREM CallsFollowTheJournal ==
    Spec => []CallsAreJournalled
<1>1. Control /\ Journal => CallsAreJournalled
  <2> SUFFICES ASSUME Control, Journal PROVE CallsAreJournalled
    OBVIOUS
  <2>1. called \subseteq Executions \X Turns \X Nat
    BY DEF Control, Types, OpTypes
  <2>2. \A c \in called : c = <<c[1], c[2], c[3]>> /\ c[1] \in Executions /\ Journalled(c[1])
    BY <2>1 DEF Journalled
  <2>3. \A c, d \in called : c[2] = d[2] => c[1] = d[1]
    BY <2>2 DEF Journal, OneWriter, Calls
  <2>4. \A c, d \in called : c[2] = d[2] /\ c[3] = d[3] => c = d
    BY <2>2, <2>3
  <2> QED
    BY <2>4 DEF Journal, Calls, CallsAreJournalled
<1> QED
  BY <1>1, ControlAlways, JournalAlways, PTL

\* A terminal record and the sealed journal of its turn agree.
THEOREM RecordsMatchJournals ==
    Spec => []RecordMatchesJournal
<1>1. Journal => RecordMatchesJournal
  BY DEF Journal
<1> QED
  BY <1>1, JournalAlways, PTL

---------------------------------------------------------------------------
(* What an execution believes of the stored session.                       *)

\* Session holds at first.
LEMMA SessionInit ==
    Init => Session
<1> SUFFICES ASSUME Init PROVE Session
  OBVIOUS
<1>1. StoredIsNewest
  BY DEF Init, StoredIsNewest
<1>2. \A e \in Executions : /\ pc[e] = "idle" /\ op[e] = NoOp /\ rev[e] = 0
                            /\ e \notin admitted
  BY DEF Init
<1>3. \A e \in Executions : View(e)
  BY <1>2, PointFacts
     DEF View, Believes, Writes, SessionRead, Owns, Owner, Told, StaleShows, NoOp
<1>4. OneOwner
  BY <1>2 DEF OneOwner, Owner, Told
<1> QED
  BY <1>1, <1>3, <1>4 DEF Session

\* A step that leaves f's side of the session alone.
Untouched(f) ==
    /\ pc'[f] = pc[f] /\ op'[f] = op[f] /\ machine'[f] = machine[f]
    /\ rev'[f] = rev[f] /\ turn'[f] = turn[f]
    /\ f \in admitted' <=> f \in admitted

\* The view of an execution outlives the steps of others, ...
LEMMA ViewUntouched ==
    ASSUME NEW f \in Executions, View(f), Untouched(f), UNCHANGED <<sess, highWater>>,
           WasReset => WasReset'
    PROVE  View(f)' /\ (Owner(f)' => Owner(f) /\ turn'[f] = turn[f])
<1>1. Believes(f)'
  BY DEF View, Untouched, Believes, Same, MayFail, Stored, Current
<1>2. Writes(f)'
  BY DEF View, Untouched, Writes, Follows, Current
<1>3. SessionRead(f)'
  BY DEF View, Untouched, SessionRead
<1>4. Owns(f)' /\ (Owner(f)' => Owner(f) /\ turn'[f] = turn[f])
  BY DEF View, Untouched, Owns, Owner, Told
<1>5. StaleShows(f)'
  BY DEF View, Untouched, StaleShows, Running
<1> QED
  BY <1>1, <1>2, <1>3, <1>4, <1>5 DEF View

\* ... and the invariant those that keep every view and make no new owner.
LEMMA SessionKept ==
    ASSUME Session, UNCHANGED <<sess, highWater>>, WasReset => WasReset',
           \A f \in Executions :
              \/ Untouched(f)
              \/ View(f)' /\ (Owner(f)' => Owner(f) /\ turn'[f] = turn[f])
    PROVE  Session'
<1>1. \A f \in Executions : View(f)' /\ (Owner(f)' => Owner(f) /\ turn'[f] = turn[f])
  BY ViewUntouched DEF Session
<1>2. StoredIsNewest'
  BY DEF Session, StoredIsNewest
<1>3. OneOwner'
  BY <1>1 DEF Session, OneOwner
<1> QED
  BY <1>1, <1>2, <1>3 DEF Session

\* Submit reads the session; what it read may be stale when it claims.
LEMMA SessionSubmits ==
    ASSUME Control, Session, NEW e \in Executions,
           LoadSession(e) \/ NextTurn(e) \/ SubmitRefused(e) \/ Claim(e)
    PROVE  Session'
<1> USE DEF store, local, control, history, Goto
<1>1. /\ UNCHANGED <<sess, highWater, op, machine, admitted, reset>>
      /\ \A f \in Executions \ {e} : Untouched(f)
      /\ pc[e] \in Before /\ pc'[e] \in {"nextTurn", "claim", "ended", "enqueue"}
  BY PointFacts DEF LoadSession, NextTurn, SubmitRefused, Claim, Control, Types,
     TaskTypes, Untouched
<1>2. e \notin admitted /\ op[e] = NoOp
  BY <1>1 DEF Control, Unstarted, Ownership
<1>3. Believes(e)' /\ Writes(e)' /\ SessionRead(e)' /\ ~Owner(e)' /\ Owns(e)'
  BY <1>1, <1>2, PointFacts DEF Believes, Writes, SessionRead, Owner, Told, Owns, NoOp
<1>4. StaleShows(e)'
  <2>1. CASE LoadSession(e)
    <3>1. CASE sess # NoSession
      <4>1. /\ sess.turn \in Turns /\ sess.rev \in Nat /\ turn'[e] = sess.turn + 1
            /\ rev'[e] = sess.rev
        BY <2>1, <3>1 DEF LoadSession, Control, Types, StoreTypes, TaskTypes, Snapshots,
           SessionSnapshot
      <4> QED
        BY <1>1, <4>1 DEF StaleShows, Turns
    <3>2. CASE sess = NoSession
      <4>1. rev'[e] = 0
        BY <2>1, <3>2, PointFacts DEF LoadSession, Control, Unstarted
      <4> QED
        BY <4>1 DEF StaleShows
    <3> QED
      BY <3>1, <3>2
  <2>2. CASE NextTurn(e)
    <3>1. rev'[e] = 0
      BY <2>2, PointFacts DEF NextTurn, Control, Unstarted
    <3> QED
      BY <3>1 DEF StaleShows
  <2>3. CASE SubmitRefused(e) \/ Claim(e)
    <3>1. UNCHANGED <<rev, turn>> /\ (pc[e] = "claim" \/ pc'[e] = "ended")
      BY <1>1, <2>3 DEF SubmitRefused, Claim, Control, Types, TaskTypes
    <3>2. WasReset' = WasReset
      BY <1>1 DEF WasReset
    <3>3. ~Running(e)' \/ pc[e] = "claim"
      BY <3>1, PointFacts DEF Running
    <3> QED
      BY <1>1, <3>1, <3>2, <3>3 DEF StaleShows, Session, View
  <2> QED
    BY <2>1, <2>2, <2>3
<1>5. WasReset => WasReset'
  BY <1>1 DEF WasReset
<1> QED
  BY <1>1, <1>3, <1>4, <1>5, SessionKept DEF View

\* An operation that has come one step further, or to its end, with nothing
\* written to the session.
LEMMA SessionWaits ==
    ASSUME Control, Session, NEW e \in Executions,
           UNCHANGED <<sess, highWater, pc, machine, rev, turn, admitted, reset>>,
           \A f \in Executions \ {e} : op'[f] = op[f],
           \/ op'[e] = NoOp /\ pc[e] # "saving"
           \/ /\ op'[e].kind = op[e].kind
              /\ \/ op'[e].phase = "read" /\ op[e].phase = "queued" /\ Accepted(e)
                    /\ op'[e].seen = Seen(e)
                 \/ op'[e].phase = "failed" /\ op[e].phase \in {"queued", "read"}
                 \/ op'[e].phase = "ok" /\ op[e].kind # "session"
    PROVE  Session'
<1>1. \A f \in Executions \ {e} : Untouched(f)
  BY DEF Untouched
<1>2. View(e)
  BY DEF Session
<1>3. Believes(e)'
  <2>1. CASE pc[e] \in Drive
    BY <1>2, <2>1, PointFacts DEF View, Believes, Same, MayFail, Current
  <2>2. CASE pc[e] = "saving" /\ op'[e].kind = "journal"
    BY <1>2, <2>2, PointFacts DEF View, Believes, Same, Current, NoOp
  <2>3. CASE pc[e] = "saving" /\ op'[e].kind = "session"
    <3>1. op'[e].phase # "ok" /\ (op'[e].phase = "failed" => op[e].phase \in {"queued", "read"})
          /\ op[e].kind = "session"
      BY <2>3 DEF NoOp
    <3>2. op'[e].phase = "failed" /\ e \in admitted => Follows(e)
      BY <1>2, <3>1 DEF View, Writes
    <3>3. Follows(e) => MayFail(e)
      BY FailIsOpen DEF Follows, MayFail
    <3>4. MayFail(e) => MayFail(e)'
      BY DEF MayFail, Current
    <3> QED
      BY <2>3, <3>1, <3>2, <3>3, <3>4, PointFacts DEF Believes
  <2> QED
    BY <2>1, <2>2, <2>3, PointFacts DEF Believes
<1>4. Writes(e)'
  <2> SUFFICES ASSUME op'[e].kind = "session", op'[e].phase \in {"queued", "read"}
               PROVE  IF e \in admitted THEN Follows(e)' ELSE machine[e] = Queued
    BY DEF Writes
  <2>1. op[e].kind = "session" /\ op[e].phase = "queued"
    BY DEF NoOp
  <2> QED
    BY <1>2, <2>1 DEF View, Writes, Follows, Current
<1>5. SessionRead(e)'
  <2> SUFFICES ASSUME op'[e].kind = "session", op'[e].phase = "read"
               PROVE  SessionRead(e)'
    BY DEF SessionRead
  <2>1. /\ op[e].kind = "session" /\ op'[e].seen = <<sess, highWater>>
        /\ SessionAccepted(e)
    BY DEF NoOp, Seen, Accepted
  <2>2. sess \in Snapshots /\ highWater \in Turns \cup {Absent}
    BY DEF Control, Types, StoreTypes
  <2> QED
    BY <2>1, <2>2 DEF SessionRead, SessionAccepted
<1>6. ~Told(e)'
  BY DEF Told, NoOp
<1>7. Owns(e)' /\ (Owner(e)' => Owner(e) /\ turn'[e] = turn[e])
  BY <1>2, <1>6 DEF View, Owns, Owner
<1>8. StaleShows(e)'
  BY <1>2 DEF View, StaleShows, Running, WasReset
<1>9. WasReset => WasReset'
  BY DEF WasReset
<1> QED
  BY <1>1, <1>3, <1>4, <1>5, <1>7, <1>8, <1>9, SessionKept DEF View

\* A worker reads the session it will compare with.
LEMMA SessionReads ==
    ASSUME Control, Session, NEW e \in Executions, Reads(e)
    PROVE  Session'
<1>1. op[e] \in Operations
  BY DEF Control, Types, OpTypes
<1>2. op' = [op EXCEPT ![e] = [op[e] EXCEPT !.phase = "read", !.seen = Seen(e)]]
  BY DEF Reads, Control, Types, OpTypes
<1>3. [op[e] EXCEPT !.phase = "read", !.seen = Seen(e)]
         = [kind |-> op[e].kind, phase |-> "read", seen |-> Seen(e)]
  BY <1>1, OperationUpdate DEF Operations
<1>4. op'[e] = [kind |-> op[e].kind, phase |-> "read", seen |-> Seen(e)]
  BY <1>2, <1>3 DEF Control, Types, OpTypes
<1>5. op'[e].kind = op[e].kind /\ op'[e].phase = "read" /\ op'[e].seen = Seen(e)
  BY <1>4
<1>6. /\ op[e].phase = "queued" /\ Accepted(e)
      /\ UNCHANGED <<sess, highWater, pc, machine, rev, turn, admitted, reset>>
      /\ \A f \in Executions \ {e} : op'[f] = op[f]
  BY <1>2 DEF Reads, store, local, control, history, Control, Types, OpTypes
<1> QED
  BY <1>5, <1>6, SessionWaits

\* What Finish() leaves of an operation.
LEMMA Finished ==
    ASSUME Control, NEW e \in Executions, NEW phase, Finish(e, phase)
    PROVE  /\ \A f \in Executions \ {e} : op'[f] = op[f]
           /\ \/ op'[e] = NoOp /\ pc[e] # "saving"
              \/ op'[e].kind = op[e].kind /\ op'[e].phase = phase /\ pc[e] = "saving"
<1>1. op[e] \in Operations
  BY DEF Control, Types, OpTypes
<1>2. [op[e] EXCEPT !.phase = phase, !.seen = None]
         = [kind |-> op[e].kind, phase |-> phase, seen |-> None]
  BY <1>1, OperationUpdate DEF Operations
<1>3. op' = [op EXCEPT ![e] = IF pc[e] = "saving"
                                THEN [kind |-> op[e].kind, phase |-> phase, seen |-> None]
                                ELSE NoOp]
  BY <1>2 DEF Finish
<1> QED
  BY <1>3 DEF Control, Types, OpTypes

\* An operation that fails without writing changes nothing.
LEMMA SessionGivesUp ==
    ASSUME Control, Session, NEW e \in Executions, GivesUp(e)
    PROVE  Session'
<1>1. /\ op[e].phase \in {"queued", "read"} /\ Finish(e, "failed")
      /\ UNCHANGED <<sess, highWater, pc, machine, rev, turn, admitted, reset>>
  BY DEF GivesUp, local, control, history
<1>2. /\ \A f \in Executions \ {e} : op'[f] = op[f]
      /\ \/ op'[e] = NoOp /\ pc[e] # "saving"
         \/ op'[e].kind = op[e].kind /\ op'[e].phase = "failed"
  BY <1>1, Finished
<1> QED
  BY <1>1, <1>2, SessionWaits

\* The execution learns that its snapshot was stored, or that it was not.
LEMMA SessionReturns ==
    ASSUME Control, Session, NEW e \in Executions, OpReturns(e)
    PROVE  Session'
<1> USE DEF store, local, control, history
<1> DEFINE ok == op[e].phase = "ok"
<1>1. /\ pc[e] = "saving" /\ op[e].phase \in {"ok", "failed"} /\ op'[e] = NoOp
      /\ pc'[e] = (IF ok THEN then[e].ok ELSE then[e].err)
      /\ rev'[e] = (IF ok /\ op[e].kind = "session" THEN rev[e] + 1 ELSE rev[e])
      /\ e \in admitted' <=> e \in admitted \/ (ok /\ op[e].kind = "session")
      /\ UNCHANGED <<sess, highWater, turn, machine, reset>>
      /\ \A f \in Executions \ {e} : Untouched(f)
  BY DEF OpReturns, Control, Types, TaskTypes, OpTypes, Untouched
<1>2. /\ then[e].ok \in Drive \ {"enqueue"} /\ then[e].err \in {"failing", "release"}
      /\ op[e].kind = "turn" => then[e].ok = "release" /\ then[e].err = "release"
      /\ e \notin admitted => op[e].kind = "session" /\ then[e].err = "release"
      /\ op[e].kind \in {"session", "journal", "turn"}
  BY <1>1 DEF Control, Returns, Ownership, Types, OpTypes, Operations, OpKind
<1>3. pc'[e] \in Drive \ {"enqueue"}
  BY <1>1, <1>2, PointFacts
<1>4. View(e)
  BY DEF Session
<1>5. Believes(e)'
  <2>1. CASE op[e].kind = "session" /\ ok
    <3>1. Stored(e) => Same(e)'
      BY <1>1, <2>1 DEF Stored, Same, Current
    <3>2. Same(e)'
      BY <1>1, <1>4, <2>1, <3>1 DEF View, Believes
    <3> QED
      BY <1>3, <3>2, PointFacts DEF Believes, Same, MayFail
  <2>2. CASE op[e].kind = "session" /\ ~ok
    <3>1. pc'[e] = "failing" => MayFail(e)
      BY <1>1, <1>2, <1>4, <2>2 DEF View, Believes
    <3>2. MayFail(e) => MayFail(e)'
      BY <1>1, <2>2 DEF MayFail, Current
    <3>3. pc'[e] \in {"failing", "release"}
      BY <1>1, <1>2, <2>2
    <3> QED
      BY <3>1, <3>2, <3>3 DEF Believes
  <2>3. CASE op[e].kind = "journal"
    <3>1. Same(e)
      BY <1>1, <1>4, <2>3 DEF View, Believes
    <3>2. Same(e)'
      BY <1>1, <2>3, <3>1 DEF Same, Current
    <3> QED
      BY <1>3, <3>2, PointFacts DEF Believes, Same, MayFail
  <2>4. CASE op[e].kind = "turn"
    BY <1>1, <1>2, <2>4 DEF Believes
  <2> QED
    BY <1>2, <2>1, <2>2, <2>3, <2>4
<1>6. Writes(e)' /\ SessionRead(e)' /\ ~Told(e)'
  BY <1>1 DEF Writes, SessionRead, Told, NoOp
<1>7. Owns(e)' /\ (Owner(e)' => Owner(e) /\ turn'[e] = turn[e])
  BY <1>1, <1>4, <1>6 DEF View, Owns, Owner, Told
<1>8. StaleShows(e)'
  <2>1. e \notin admitted' => e \notin admitted /\ rev'[e] = rev[e]
    BY <1>1
  <2>2. Running(e)
    BY <1>1 DEF Running
  <2> QED
    BY <1>1, <1>4, <2>1, <2>2 DEF View, StaleShows
<1>9. WasReset => WasReset'
  BY <1>1 DEF WasReset
<1> QED
  BY <1>1, <1>5, <1>6, <1>7, <1>8, <1>9, SessionKept DEF View

\* Between two saves an execution moves its own machine only.
LEMMA SessionDrives ==
    ASSUME Control, Session, NEW e \in Executions, Drives(e)
    PROVE  Session'
<1> USE DEF store, local, control, history, Goto
<1>1. pc[e] \in Drive \ {"release"}
  BY PointFacts DEF Drives, Moves, Advances, Journals, Calling, PersistTurn, Drive
<1>2. View(e) /\ op[e] = NoOp /\ (pc[e] # "enqueue" => e \in admitted)
  BY <1>1, PointFacts DEF Session, Control, Ownership, Returns
<1>3. SUFFICES /\ UNCHANGED <<sess, highWater, turn, rev, admitted, reset>>
               /\ \A f \in Executions \ {e} : Untouched(f)
               /\ pc'[e] \in Drive \cup {"saving"}
               /\ op'[e].phase \in {"queued", "none"}
               /\ Believes(e)' /\ Writes(e)'
  <2>1. SessionRead(e)' /\ ~Told(e)'
    BY <1>3 DEF SessionRead, Told
  <2>2. Owns(e)' /\ (Owner(e)' => Owner(e) /\ turn'[e] = turn[e])
    BY <1>2, <1>3, <2>1 DEF View, Owns, Owner
  <2>3. StaleShows(e)'
    BY <1>1, <1>2, <1>3 DEF View, StaleShows, Running
  <2>4. WasReset => WasReset'
    BY <1>3 DEF WasReset
  <2> QED
    BY <1>3, <2>1, <2>2, <2>3, <2>4, SessionKept DEF View
<1>4. CASE Moves(e)
  <2>1. PICK step \in Drive \ {"enqueue", "start", "call", "release"} :
           /\ pc[e] \in Drive \ {"enqueue", "start", "call", "record", "release"}
           /\ pc[e] = "failing" => step = "record"
           /\ Step(e, step)
    BY <1>4 DEF Moves
  <2>2. /\ UNCHANGED <<sess, highWater, turn, rev, machine, admitted, reset, op>>
        /\ \A f \in Executions \ {e} : Untouched(f)
        /\ pc'[e] = step
    BY <2>1 DEF Step, Untouched, Control, Types, TaskTypes
  <2>3. pc[e] # "failing" => Same(e)'
    BY <1>2, <2>1, <2>2 DEF View, Believes, Same, Current
  <2>4. Believes(e)' /\ Writes(e)'
    BY <1>2, <2>1, <2>2, <2>3, PointFacts DEF Believes, Writes, Same, MayFail, NoOp
  <2> QED
    BY <1>2, <2>2, <2>4 DEF NoOp
<1>5. CASE Advances(e)
  <2>1. PICK event \in SessionEvent, ok \in Drive \ {"enqueue", "call", "release"},
             err \in {"failing", "release"} :
           /\ pc[e] \in Drive \ {"record", "release"}
           /\ pc[e] = "enqueue" => event = "Enqueue" /\ err = "release"
           /\ pc[e] = "failing" => event = "Fail" /\ accepts(machine[e].state, "Fail")
           /\ Advance(e, event, ok, err)
    BY <1>5 DEF Advances
  <2>2. pc[e] \notin {"enqueue", "failing"} => Same(e)
    BY <1>2, <2>1 DEF View, Believes
  <2>3. pc[e] = "enqueue" => /\ accepts(machine[e].state, event) /\ e \notin admitted
                             /\ Applied(machine[e], event) = Queued
    BY <2>1, QueuedApplied DEF Control, Returns, Queued
  <2>4. CASE accepts(machine[e].state, event)
    <3>1. /\ UNCHANGED <<sess, highWater, turn, rev, admitted, reset>>
          /\ \A f \in Executions \ {e} : Untouched(f)
          /\ pc'[e] = "saving" /\ machine'[e] = Applied(machine[e], event)
          /\ op'[e].kind = "session" /\ op'[e].phase = "queued"
      BY <2>1, <2>4 DEF Advance, Save, Untouched, Control, Types, TaskTypes, OpTypes
    <3>2. e \in admitted => Follows(e)'
      <4> SUFFICES ASSUME e \in admitted, Current(e)
                   PROVE  \E ev \in SessionEvent :
                             /\ accepts(sess.machine.state, ev)
                             /\ machine'[e] = Applied(sess.machine, ev)
        BY <3>1 DEF Follows, Current
      <4>1. pc[e] # "enqueue"
        BY <2>3
      <4>2. CASE sess.machine = machine[e]
        BY <2>4, <3>1, <4>2
      <4>3. CASE sess.machine # machine[e]
        <5>1. pc[e] = "failing"
          BY <2>2, <4>1, <4>3 DEF Same
        <5>2. event = "Fail" /\ accepts(machine[e].state, "Fail")
          BY <2>1, <5>1
        <5>3. accepts(sess.machine.state, "Fail")
          BY <1>2, <4>3, <5>1 DEF View, Believes, MayFail
        <5>4. Applied(machine[e], "Fail") = Applied(sess.machine, "Fail")
          BY <5>2, <5>3, FailApplied
        <5> QED
          BY <3>1, <5>2, <5>3, <5>4 DEF SessionEvent
      <4> QED
        BY <4>2, <4>3
    <3>3. e \notin admitted => machine'[e] = Queued
      BY <1>2, <2>3, <3>1
    <3>4. Believes(e)' /\ Writes(e)'
      BY <3>1, <3>2, <3>3, PointFacts DEF Believes, Writes
    <3> QED
      BY <3>1, <3>4
  <2>5. CASE ~accepts(machine[e].state, event)
    <3>1. /\ UNCHANGED <<sess, highWater, turn, rev, machine, admitted, reset, op>>
          /\ \A f \in Executions \ {e} : Untouched(f)
          /\ pc'[e] = err
      BY <2>1, <2>5 DEF Advance, Untouched, Control, Types, TaskTypes
    <3>2. pc[e] \notin {"enqueue", "failing"}
      BY <2>1, <2>3, <2>5
    <3>3. MayFail(e)'
      BY <2>2, <3>1, <3>2 DEF Same, MayFail, Current
    <3>4. Believes(e)' /\ Writes(e)'
      BY <1>2, <3>1, <3>3 DEF Believes, Writes, NoOp
    <3> QED
      BY <1>2, <3>1, <3>4, PointFacts DEF NoOp
  <2> QED
    BY <2>4, <2>5
<1>6. CASE Journals(e)
  <2>1. PICK new \in Rounds, ok \in Drive \ {"enqueue", "release"} :
           /\ pc[e] \in {"budget", "opening", "stream"}
           /\ SaveJournal(e, new, ok, "failing")
    BY <1>6 DEF Journals
  <2>2. /\ UNCHANGED <<sess, highWater, turn, rev, machine, admitted, reset>>
        /\ \A f \in Executions \ {e} : Untouched(f)
        /\ pc'[e] = "saving" /\ op'[e].kind = "journal" /\ op'[e].phase = "queued"
    BY <2>1 DEF SaveJournal, Save, Untouched, Control, Types, TaskTypes, OpTypes
  <2>3. Same(e)'
    BY <1>1, <1>2, <2>1, <2>2 DEF View, Believes, Same, Current
  <2>4. Believes(e)' /\ Writes(e)'
    BY <2>2, <2>3, PointFacts DEF Believes, Writes
  <2> QED
    BY <2>2, <2>4
<1>7. CASE Calling(e)
  <2>1. /\ UNCHANGED <<sess, highWater, turn, rev, machine, admitted, reset, op>>
        /\ \A f \in Executions \ {e} : Untouched(f)
        /\ pc[e] = "call" /\ pc'[e] = "opening"
    BY <1>7 DEF Calling, Untouched, Control, Types, TaskTypes
  <2>2. Same(e)'
    BY <1>1, <1>2, <2>1 DEF View, Believes, Same, Current
  <2>3. Believes(e)' /\ Writes(e)'
    BY <1>2, <2>1, <2>2 DEF Believes, Writes, NoOp
  <2> QED
    BY <1>2, <2>1, <2>3, PointFacts DEF NoOp
<1>8. CASE PersistTurn(e)
  <2>1. /\ UNCHANGED <<sess, highWater, turn, rev, machine, admitted, reset>>
        /\ \A f \in Executions \ {e} : Untouched(f)
        /\ pc'[e] = "saving" /\ op'[e].kind = "turn" /\ op'[e].phase = "queued"
    BY <1>8 DEF PersistTurn, Save, Untouched, Control, Types, TaskTypes, OpTypes
  <2>2. Believes(e)' /\ Writes(e)'
    BY <2>1, PointFacts DEF Believes, Writes
  <2> QED
    BY <2>1, <2>2
<1> QED
  BY <1>4, <1>5, <1>6, <1>7, <1>8 DEF Drives

\* What an execution left to the workers is still described when it has ended.
LEMMA SessionEnds ==
    ASSUME Control, Session, NEW e \in Executions, Ends(e)
    PROVE  Session'
<1> USE DEF store, local, control, history, Goto
<1>1. /\ Running(e) /\ pc'[e] = "ended"
      /\ UNCHANGED <<sess, highWater, turn, op, admitted, reset>>
      /\ \/ op[e] = NoOp /\ rev'[e] = 0
         \/ op[e] # NoOp /\ machine'[e] = machine[e] /\ rev'[e] = rev[e]
      /\ \A f \in Executions \ {e} : Untouched(f)
  BY DEF Ends, Gone, Control, Ownership, Types, TaskTypes, Untouched
<1>2. View(e) /\ sess.rev \in Nat
  BY DEF Session, Control, Types, StoreTypes, Snapshots, SessionSnapshot, NoSession
<1>3. Believes(e)'
  BY <1>1, PointFacts DEF Believes
<1>4. Writes(e)'
  BY <1>1, <1>2 DEF View, Writes, Follows, Current, NoOp
<1>5. SessionRead(e)' /\ ~Told(e)'
  BY <1>1, <1>2 DEF View, SessionRead, Told, NoOp
<1>6. Owns(e)' /\ (Owner(e)' => Owner(e) /\ turn'[e] = turn[e])
  BY <1>1, <1>2, <1>5 DEF View, Owns, Owner
<1>7. StaleShows(e)'
  BY <1>1, <1>2 DEF View, StaleShows
<1>8. WasReset => WasReset'
  BY <1>1 DEF WasReset
<1> QED
  BY <1>1, <1>3, <1>4, <1>5, <1>6, <1>7, <1>8, SessionKept DEF View

\* A reset removes the snapshot; the identities stay used up.
LEMMA SessionResets ==
    ASSUME Control, Session, NEW r \in Resets,
           ResetBegins(r) \/ ResetReads(r) \/ ResetCommits(r)
    PROVE  Session'
<1> USE DEF store, local, control, history
<1>1. /\ UNCHANGED <<highWater, pc, turn, rev, machine, op, admitted>>
      /\ sess' = sess \/ (ResetCommits(r) /\ sess' = NoSession)
  BY DEF ResetBegins, ResetReads, ResetCommits
<1>2. WasReset => WasReset'
  <2>1. reset[r].phase \in {"none", "queued", "read"}
    <3>1. ResetBegins(r) => reset[r].phase = "none"
      BY DEF ResetBegins, NoOp
    <3>2. ResetReads(r) => reset[r].phase = "queued"
      BY DEF ResetReads
    <3>3. ResetCommits(r) => reset[r].phase = "read"
      BY DEF ResetCommits
    <3> QED
      BY <3>1, <3>2, <3>3
  <2>2. \A q \in Resets \ {r} : reset'[q] = reset[q]
    BY DEF ResetBegins, ResetReads, ResetCommits, Control, Types, OpTypes
  <2> QED
    BY <2>1, <2>2 DEF WasReset
<1>3. CASE sess' = sess
  BY <1>1, <1>2, <1>3, SessionKept DEF Untouched
<1>4. CASE ResetCommits(r) /\ sess' = NoSession
  <2>1. reset'[r].phase = "ok" /\ reset[r].phase = "read"
    BY <1>4 DEF ResetCommits, Control, Types, OpTypes, Removals
  <2>2. WasReset'
    BY <2>1 DEF WasReset
  <2>3. \A f \in Executions : ~Running(f) /\ pc[f] # "claim"
    BY <2>1, TurnAssumption DEF Control, ResetExcludes, Resetting, Ownership
  <2>4. \A f \in Executions : turn[f] # sess'.turn
    BY <1>4 DEF NoSession, Absent, Turns, Control, Types, TaskTypes
  <2>5. ASSUME NEW f \in Executions
        PROVE  View(f)' /\ (Owner(f)' <=> Owner(f))
    <3>1. View(f)
      BY DEF Session
    <3>2. Believes(f)'
      BY <1>1, <2>3, PointFacts DEF Believes, Running
    <3>3. Writes(f)'
      BY <1>1, <2>4, <3>1 DEF View, Writes, Follows, Current
    <3>4. SessionRead(f)'
      BY <1>1, <3>1 DEF View, SessionRead
    <3>5. Owns(f)' /\ (Owner(f)' <=> Owner(f))
      BY <1>1, <2>4, <3>1 DEF View, Owns, Owner, Told
    <3>6. StaleShows(f)'
      BY <1>1, <2>2, <2>3 DEF StaleShows, Running
    <3> QED
      BY <3>2, <3>3, <3>4, <3>5, <3>6 DEF View
  <2>6. StoredIsNewest'
    BY <1>4 DEF StoredIsNewest
  <2>7. OneOwner'
    BY <1>1, <2>5 DEF Session, OneOwner
  <2> QED
    BY <2>5, <2>6, <2>7 DEF Session
<1> QED
  BY <1>1, <1>3, <1>4

\* Signals change nothing here, and a crash leaves only what is stored.
LEMMA SessionOthers ==
    ASSUME Control, Session, Signals \/ Crash
    PROVE  Session'
<1> USE DEF store, local, control, history
<1>1. CASE Signals
  BY <1>1, SessionKept DEF Signals, Untouched, WasReset
<1>2. CASE Crash
  <2>1. /\ UNCHANGED <<sess, highWater, turn, admitted>>
        /\ \A f \in Executions : op'[f] = NoOp /\ rev'[f] = 0 /\ pc'[f] \in {"idle", "ended"}
    BY <1>2 DEF Crash
  <2>2. WasReset => WasReset'
    <3>1. ASSUME NEW r \in Resets, reset[r].phase = "ok"
          PROVE  reset'[r].phase = "ok"
      <4>1. reset[r] # NoOp /\ reset[r] \in Removals
        BY <3>1 DEF NoOp, Control, Types, OpTypes
      <4>2. reset'[r] = [reset[r] EXCEPT !.phase = "ok", !.seen = None]
        BY <1>2, <4>1 DEF Crash
      <4> QED
        BY <4>1, <4>2 DEF Removals
    <3> QED
      BY <3>1 DEF WasReset
  <2>3. sess.rev \in Nat
    BY DEF Control, Types, StoreTypes, Snapshots, SessionSnapshot, NoSession
  <2>4. ASSUME NEW f \in Executions
        PROVE  View(f)' /\ (Owner(f)' => Owner(f) /\ turn'[f] = turn[f])
    <3>1. View(f)
      BY DEF Session
    <3>2. Believes(f)' /\ Writes(f)' /\ SessionRead(f)' /\ ~Told(f)'
      BY <2>1, PointFacts DEF Believes, Writes, SessionRead, Told, NoOp
    <3>3. Owns(f)' /\ (Owner(f)' => Owner(f) /\ turn'[f] = turn[f])
      BY <2>1, <2>3, <3>1, <3>2 DEF View, Owns, Owner
    <3>4. StaleShows(f)'
      BY <2>1 DEF StaleShows
    <3> QED
      BY <3>2, <3>3, <3>4 DEF View
  <2> QED
    BY <2>1, <2>2, <2>4, SessionKept
<1> QED
  BY <1>1, <1>2

\* What a session operation finds when it commits.
LEMMA CommitFinds ==
    ASSUME Control, Session, NEW e \in Executions, Commits(e), op[e].kind = "session"
    PROVE  /\ sess' = [turn |-> turn[e], machine |-> machine[e], rev |-> rev[e] + 1]
           /\ highWater' = turn[e]
           /\ sess.rev = rev[e] /\ turn[e] >= highWater
           /\ sess = NoSession => turn[e] # highWater
           /\ sess # NoSession => sess.turn = highWater /\ sess.rev > 0
           /\ \A f \in Executions : Owner(f) /\ turn[f] = turn[e] => sess.turn = turn[e]
<1>1. op[e].phase = "read" /\ op[e].seen = <<sess, highWater>>
  BY DEF Commits, Unchanged, Seen
<1>2. PICK s \in Snapshots, h \in Turns \cup {Absent} :
         /\ op[e].seen = <<s, h>>
         /\ s.rev = rev[e] /\ turn[e] >= h
         /\ s = NoSession => turn[e] # h
  BY <1>1 DEF Session, View, SessionRead
<1>3. s = sess /\ h = highWater
  BY <1>1, <1>2
<1>4. sess' = [turn |-> turn[e], machine |-> machine[e], rev |-> rev[e] + 1] /\ highWater' = turn[e]
  BY DEF Commits, Publish
<1>5. sess # NoSession => sess.turn = highWater /\ sess.rev > 0
  BY DEF Session, StoredIsNewest
<1>6. turn[e] \in Turns /\ highWater \in Turns \cup {Absent}
  BY DEF Control, Types, TaskTypes, StoreTypes
<1>7. ASSUME NEW f \in Executions, Owner(f), turn[f] = turn[e]
      PROVE  sess.turn = turn[e]
  <2>1. turn[e] <= highWater
    BY <1>7 DEF Session, View, Owns
  <2>2. turn[e] = highWater
    BY <1>2, <1>3, <1>6, <2>1 DEF Turns, Absent
  <2> QED
    BY <1>2, <1>3, <1>5, <2>2
<1> QED
  BY <1>2, <1>3, <1>4, <1>5, <1>7

\* A commit of a snapshot: the revision it compares decides who owns the identity.
LEMMA SessionCommits ==
    ASSUME Control, Session, NEW e \in Executions, Commits(e)
    PROVE  Session'
<1> USE DEF store, local, control, history
<1>1. PICK phase \in {"ok", "failed"} : Finish(e, phase)
  BY DEF Commits
<1>2. UNCHANGED <<pc, machine, rev, turn, admitted, reset>> /\ op[e].phase = "read"
  BY DEF Commits
<1>3. /\ \A f \in Executions \ {e} : op'[f] = op[f]
      /\ \/ op'[e] = NoOp /\ pc[e] # "saving"
         \/ op'[e].kind = op[e].kind /\ op'[e].phase = phase /\ pc[e] = "saving"
  BY <1>1, Finished
<1>4. CASE op[e].kind # "session"
  <2>1. UNCHANGED <<sess, highWater>>
    BY <1>4 DEF Commits, Publish
  <2> QED
    BY <1>2, <1>3, <1>4, <2>1, SessionWaits
<1>5. CASE op[e].kind = "session"
  <2>1. /\ sess' = [turn |-> turn[e], machine |-> machine[e], rev |-> rev[e] + 1]
        /\ highWater' = turn[e]
        /\ sess.rev = rev[e] /\ turn[e] >= highWater
        /\ sess = NoSession => turn[e] # highWater
        /\ sess # NoSession => sess.turn = highWater /\ sess.rev > 0
        /\ \A f \in Executions : Owner(f) /\ turn[f] = turn[e] => sess.turn = turn[e]
    BY <1>5, CommitFinds
  <2>2. sess'.turn = turn[e] /\ sess'.machine = machine[e] /\ sess'.rev = rev[e] + 1
    BY <2>1
  <2>3. /\ highWater \in Turns \cup {Absent}
        /\ \A f \in Executions : turn[f] \in Turns /\ rev[f] \in Nat
    BY DEF Control, Types, TaskTypes, StoreTypes
  <2>4. \A t \in Turns : t \in Int /\ t # Absent
    BY DEF Turns, Absent
  <2>5. StoredIsNewest'
    <3>1. machine[e] # NewMachine
      BY <1>5 DEF Control, Machines, NewMachine
    <3> QED
      BY <2>1, <2>2, <2>3, <3>1 DEF StoredIsNewest
  \* Others of the same turn know of an older revision.
  <2>6. ASSUME NEW f \in Executions \ {e}, turn[f] = turn[e]
        PROVE  /\ f \in admitted => rev[f] < rev[e] + 1
               /\ Told(f) => rev[f] + 1 < rev[e] + 1
    <3>1. View(f)
      BY DEF Session
    <3> QED
      BY <2>1, <2>3, <2>6, <3>1 DEF View, Owns, Owner
  <2>7. ASSUME NEW f \in Executions \ {e}
        PROVE  View(f)' /\ (Owner(f)' <=> Owner(f))
    <3>1. View(f)
      BY DEF Session
    <3>2. f \in admitted => ~Current(f)'
      BY <1>2, <2>2, <2>3, <2>6 DEF Current
    <3>3. Believes(f)'
      <4>1. pc[f] \in Drive \ {"enqueue", "release"} => f \in admitted
        BY DEF Control, Returns
      <4>2. pc[f] = "saving" /\ op[f].kind # "session" => f \in admitted
        BY DEF Control, Returns
      <4>3. Told(f) => Stored(f)'
        BY <1>2, <2>2, <2>3, <2>6 DEF Stored
      <4> QED
        BY <1>2, <1>3, <3>2, <4>1, <4>2, <4>3, PointFacts DEF Believes, Same, MayFail, Told
    <3>4. Writes(f)'
      BY <1>2, <1>3, <3>1, <3>2 DEF View, Writes, Follows
    <3>5. SessionRead(f)'
      BY <1>2, <1>3, <3>1 DEF View, SessionRead
    <3>6. (Owner(f)' <=> Owner(f)) /\ (Told(f)' <=> Told(f))
      BY <1>2, <1>3 DEF Owner, Told
    <3>7. Owns(f)'
      <4>1. Owner(f) => turn[f] <= turn[e]
        BY <2>1, <2>3, <3>1 DEF View, Owns, Turns, Absent
      <4>2. turn[f] = turn[e] => /\ f \in admitted => rev[e] + 1 >= rev[f]
                                 /\ Told(f) => rev[e] + 1 >= rev[f] + 1
        BY <2>3, <2>6
      <4> QED
        BY <1>2, <2>1, <2>2, <3>6, <4>1, <4>2 DEF Owns
    <3>8. StaleShows(f)'
      BY <1>2, <2>1, <2>2, <2>3, <3>1 DEF View, StaleShows, Running, WasReset
    <3> QED
      BY <3>3, <3>4, <3>5, <3>6, <3>7, <3>8 DEF View
  <2>8. View(e)'
    <3>1. pc[e] \notin Drive
      BY <1>2 DEF Control, Ownership, NoOp
    <3>2. op'[e].phase \in {"ok", "failed", "none"}
      BY <1>3 DEF NoOp
    <3>3. Stored(e)' /\ ~Current(e)'
      BY <1>2, <2>2, <2>3 DEF Stored, Current
    <3>4. Believes(e)'
      BY <1>2, <1>3, <1>5, <3>1, <3>3, PointFacts DEF Believes, MayFail, NoOp
    <3>5. Writes(e)' /\ SessionRead(e)'
      BY <3>2 DEF Writes, SessionRead
    <3>6. Owns(e)'
      BY <1>2, <2>1, <2>2, <2>3, <2>4 DEF Owns
    <3>7. StaleShows(e)'
      BY <1>2, <2>2, <2>3 DEF StaleShows
    <3> QED
      BY <3>4, <3>5, <3>6, <3>7 DEF View
  \* A turn that commits its first snapshot is the first of its identity.
  <2>9. ASSUME NEW f \in Executions \ {e}, Owner(f), turn[f] = turn[e], Owner(e)'
        PROVE  Owner(e)
    <3> SUFFICES ASSUME e \notin admitted PROVE FALSE
      BY DEF Owner
    <3>1. pc[e] = "saving"
      BY <1>2, <2>9 DEF Owner, Told
    <3>2. Running(e)
      BY <3>1 DEF Running
    <3>3. sess.turn = turn[e]
      BY <2>1, <2>9
    <3>4. sess # NoSession
      BY <2>3, <2>4, <3>3 DEF NoSession
    <3>5. rev[e] > 0 => sess.turn < turn[e]
      BY <2>1, <3>2 DEF Session, View, StaleShows
    <3> QED
      BY <2>1, <2>3, <2>4, <3>3, <3>4, <3>5
  <2>10. OneOwner'
    BY <1>2, <2>7, <2>9 DEF Session, OneOwner
  <2> QED
    BY <2>5, <2>7, <2>8, <2>10 DEF Session
<1> QED
  BY <1>4, <1>5

\* Session is inductive, given Control.
LEMMA SessionStep ==
    ASSUME Control, Session, [Next]_vars
    PROVE  Session'
<1>1. \/ \E e \in Executions :
            \/ LoadSession(e) \/ NextTurn(e) \/ SubmitRefused(e) \/ Claim(e)
            \/ Reads(e) \/ GivesUp(e) \/ Commits(e) \/ OpReturns(e) \/ Drives(e) \/ Ends(e)
      \/ \E r \in Resets : ResetBegins(r) \/ ResetReads(r) \/ ResetCommits(r)
      \/ Signals \/ Crash
  BY StepShapes DEF Works
<1> QED
  BY <1>1, SessionSubmits, SessionReads, SessionGivesUp, SessionCommits, SessionReturns,
     SessionDrives, SessionEnds, SessionResets, SessionOthers

\* What an execution believes of the stored session is right or will be refused by
\* the compared commit of save_session(): true in every reachable state.
THEOREM SessionAlways ==
    Spec => []Session
<1>1. Init => Session
  BY SessionInit
<1>2. Control /\ Session /\ [Next]_vars => Session'
  BY SessionStep
<1> QED
  BY <1>1, <1>2, ControlAlways, PTL DEF Spec

\* Of all the executions that chose the same identity from a stale reading, at
\* most one is ever told that its snapshot is stored, resets and crashes
\* included.
THEOREM TurnsHaveOneOwner ==
    Spec => []OneOwnerPerTurn
<1>1. Control /\ Session => OneOwnerPerTurn
  BY DEF Control, Types, OpTypes, Session, OneOwner, Owner, OneOwnerPerTurn
<1> QED
  BY <1>1, ControlAlways, SessionAlways, PTL

---------------------------------------------------------------------------
(* The stored session implements SessionHistory.                           *)

\* The instance of SessionHistory has the contract of this module.
LEMMA SameContract ==
    /\ History!NewMachine = NewMachine /\ History!SessionEvent = SessionEvent
    /\ \A s, event : History!accepts(s, event) = accepts(s, event)
    /\ \A m, event : History!Applied(m, event) = Applied(m, event)
<1>1. History!NewMachine = NewMachine /\ History!SessionEvent = SessionEvent
  BY DEF NewMachine, History!NewMachine, SessionEvent, History!SessionEvent
<1>2. \A s, event : History!accepts(s, event) = accepts(s, event)
  BY DEF accepts, History!accepts, Transitions, History!Transitions, Pausable,
     History!Pausable
<1>3. \A s, event : History!TransitionTo(s, event) = TransitionTo(s, event)
  BY DEF TransitionTo, History!TransitionTo, Transitions, History!Transitions, Pausable,
         History!Pausable
<1>4. \A m, event : History!Applied(m, event) = Applied(m, event)
  BY <1>3 DEF Applied, History!Applied
<1> QED
  BY <1>1, <1>2, <1>4

\* A commit of a session operation begins a turn or moves the newest one; only
\* after a reset does it begin one again.
LEMMA CommitIsHistory ==
    ASSUME Control, Session, NEW e \in Executions, Commits(e), op[e].kind = "session"
    PROVE  History!Begin \/ History!Move \/ History!StaleBegin
<1>1. /\ sess' = [turn |-> turn[e], machine |-> machine[e], rev |-> rev[e] + 1]
      /\ highWater' = turn[e]
      /\ sess.rev = rev[e] /\ turn[e] >= highWater
      /\ sess = NoSession => turn[e] # highWater
      /\ sess # NoSession => sess.turn = highWater /\ sess.rev > 0
      /\ \A f \in Executions : Owner(f) /\ turn[f] = turn[e] => sess.turn = turn[e]
  BY CommitFinds
<1>2. sess'.machine = machine[e] /\ WasReset' = WasReset /\ op[e].phase = "read"
  BY <1>1 DEF Commits, control, WasReset
<1>3. turn[e] \in Turns /\ rev[e] \in Nat /\ highWater \in Turns \cup {Absent}
  BY DEF Control, Types, TaskTypes, StoreTypes
<1>4. Writes(e) /\ Owns(e) /\ StaleShows(e)
  BY DEF Session, View
<1>5. sess # NoSession => sess.machine # NewMachine
  BY DEF Session, StoredIsNewest
<1>6. CASE e \in admitted
  <2>1. turn[e] = highWater
    BY <1>1, <1>3, <1>4, <1>6 DEF Owns, Owner, Turns, Absent
  <2>2. sess # NoSession /\ Current(e)
    BY <1>1, <2>1 DEF Current
  <2>3. \E event \in SessionEvent : /\ accepts(sess.machine.state, event)
                                    /\ machine[e] = Applied(sess.machine, event)
    BY <1>2, <1>4, <1>6, <2>2 DEF Writes, Follows
  <2> QED
    BY <1>1, <1>2, <1>5, <2>1, <2>2, <2>3, SameContract DEF History!Move
<1>7. CASE e \notin admitted
  <2>1. machine[e] = Applied(NewMachine, "Enqueue")
    BY <1>2, <1>4, <1>7 DEF Writes, Queued
  <2>2. turn[e] = highWater => WasReset /\ sess # NoSession
    BY <1>1, <1>3, <1>4, <1>7 DEF StaleShows, Turns, Absent
  <2>3. turn[e] = highWater \/ turn[e] > highWater
    BY <1>1, <1>3 DEF Turns, Absent
  <2> QED
    BY <1>1, <1>2, <1>5, <2>1, <2>2, <2>3, SameContract DEF History!Begin, History!StaleBegin
<1> QED
  BY <1>6, <1>7

HistoryStep == History!Begin \/ History!Move \/ History!Reset \/ History!StaleBegin

\* Every step is a step of SessionHistory or leaves what a reader sees alone.
LEMMA StepIsHistory ==
    ASSUME Control, Session, [Next]_vars
    PROVE  [HistoryStep]_<<sess.machine, highWater, WasReset>>
<1> USE DEF store, local, control, history
<1>1. ASSUME UNCHANGED <<sess, highWater, reset>>
      PROVE  UNCHANGED <<sess.machine, highWater, WasReset>>
  BY <1>1 DEF WasReset
<1>2. ASSUME UNCHANGED highWater, sess' = sess \/ sess' = NoSession, WasReset'
      PROVE  History!Reset
  <2>1. sess'.machine \in {sess.machine, NewMachine}
    BY <1>2 DEF NoSession
  <2> QED
    BY <1>2, <2>1, SameContract DEF History!Reset
<1>3. ASSUME NEW e \in Executions, Commits(e)
      PROVE  \/ History!Begin \/ History!Move \/ History!StaleBegin
             \/ UNCHANGED <<sess.machine, highWater, WasReset>>
  <2>1. CASE op[e].kind = "session"
    BY <1>3, <2>1, CommitIsHistory
  <2>2. CASE op[e].kind # "session"
    BY <1>1, <1>3, <2>2 DEF Commits, Publish
  <2> QED
    BY <2>1, <2>2
<1>4. ASSUME NEW e \in Executions,
             \/ LoadSession(e) \/ NextTurn(e) \/ SubmitRefused(e) \/ Claim(e)
             \/ Reads(e) \/ GivesUp(e) \/ OpReturns(e)
      PROVE  UNCHANGED <<sess, highWater, reset>>
  BY <1>4 DEF LoadSession, NextTurn, SubmitRefused, Claim, Reads, GivesUp, OpReturns
<1>5. ASSUME NEW e \in Executions, Drives(e) \/ Ends(e)
      PROVE  UNCHANGED <<sess, highWater, reset>>
  BY <1>5 DEF Drives, Moves, Step, Advances, Advance, Journals, SaveJournal, Calling,
              PersistTurn, Ends, Gone
<1>6. ASSUME NEW r \in Resets, ResetBegins(r) \/ ResetReads(r) \/ ResetCommits(r)
      PROVE  \/ History!Reset
             \/ UNCHANGED <<sess.machine, highWater, WasReset>>
  <2>1. /\ UNCHANGED highWater /\ (sess' = sess \/ sess' = NoSession)
        /\ ~ResetCommits(r) => sess' = sess
    BY <1>6 DEF ResetBegins, ResetReads, ResetCommits
  <2>2. \A q \in Resets \ {r} : reset'[q] = reset[q]
    BY <1>6 DEF ResetBegins, ResetReads, ResetCommits, Control, Types, OpTypes
  <2>3. CASE reset'[r].phase = "ok"
    BY <1>2, <2>1, <2>3 DEF WasReset
  <2>4. CASE reset'[r].phase # "ok"
    <3>1. ~ResetCommits(r)
      BY <2>4 DEF ResetCommits, Control, Types, OpTypes, Removals
    <3>2. reset[r].phase # "ok"
      <4>1. ResetBegins(r) => reset[r].phase = "none"
        BY DEF ResetBegins, NoOp
      <4>2. ResetReads(r) => reset[r].phase = "queued"
        BY DEF ResetReads
      <4> QED
        BY <1>6, <3>1, <4>1, <4>2
    <3>3. WasReset' <=> WasReset
      BY <2>2, <2>4, <3>2 DEF WasReset
    <3> QED
      BY <2>1, <3>1, <3>3 DEF WasReset
  <2> QED
    BY <2>3, <2>4
<1>7. Signals => UNCHANGED <<sess, highWater, reset>>
  BY DEF Signals
<1>8. ASSUME Crash
      PROVE  \/ History!Reset
             \/ UNCHANGED <<sess.machine, highWater, WasReset>>
  <2>1. UNCHANGED <<sess, highWater>>
    BY <1>8 DEF Crash
  <2>2. ASSUME NEW r \in Resets, reset[r].phase = "ok"
        PROVE  reset'[r].phase = "ok"
    <3>1. reset[r] # NoOp /\ reset[r] \in Removals
      BY <2>2 DEF NoOp, Control, Types, OpTypes
    <3>2. reset'[r] = [reset[r] EXCEPT !.phase = "ok", !.seen = None]
      BY <1>8, <3>1 DEF Crash
    <3> QED
      BY <3>1, <3>2 DEF Removals
  <2>3. WasReset => WasReset'
    BY <2>2 DEF WasReset
  <2> QED
    BY <1>2, <2>1, <2>3 DEF WasReset
<1>9. \/ \E e \in Executions :
            \/ LoadSession(e) \/ NextTurn(e) \/ SubmitRefused(e) \/ Claim(e)
            \/ Reads(e) \/ GivesUp(e) \/ Commits(e) \/ OpReturns(e) \/ Drives(e) \/ Ends(e)
      \/ \E r \in Resets : ResetBegins(r) \/ ResetReads(r) \/ ResetCommits(r)
      \/ Signals \/ Crash
  BY StepShapes DEF Works
<1> QED
  BY <1>1, <1>3, <1>4, <1>5, <1>6, <1>7, <1>8, <1>9 DEF HistoryStep

\* The durable session pointer is a session history: an identity begins once,
\* as Queued, and what is stored moves only as the session contract allows,
\* whatever saves are lost, late or cut short; only in a session that was reset
\* can a save of an aborted turn begin the newest identity again.
THEOREM StoredSessionIsHistory ==
    Spec => HistoryUnlessReset
<1>1. Init => History!Init
  BY SameContract DEF Init, History!Init, NoSession, Absent, WasReset, NoOp
<1>2. Control /\ Session /\ [Next]_vars
        => [HistoryStep]_<<sess.machine, highWater, WasReset>>
  BY StepIsHistory
<1> QED
  BY <1>1, <1>2, ControlAlways, SessionAlways, PTL
     DEF Spec, HistoryUnlessReset, History!SpecUnlessReset, HistoryStep

---------------------------------------------------------------------------
(* drive() asks its machine only for moves the contract has.               *)

\* The machine a point of run() and drive() finds.
Fits(p, m) ==
    /\ p = "enqueue" => m.state = "Draft"
    /\ p = "start" => m.state = "Queued"
    /\ p \in {"boot", "direct", "goal", "directOpen"} => m.state = "Starting"
    /\ p \in {"top", "budget", "call", "opening", "opened"} => m.state \in {"Starting", "Running"}
    /\ p \in {"goalAsk", "goalDone", "stream", "cancelled", "decide", "tool", "toolBare",
              "toolDone", "directTool", "directBare", "directDone"} => m.state = "Running"
    /\ p \in {"goalRun", "toolWaiting", "directWaiting"} => m.state = "WaitingForApproval"
    /\ p = "paused" => m.state = "Paused" /\ m.prePause \in {"Starting", "Running"}
    /\ p = "directPaused" => m.state = "Paused" /\ m.prePause = "Starting"

\* Where drive() stands fits the state of its machine, and no move was refused.
Orderly ==
    /\ \A e \in Executions : /\ pc[e] \in Drive => Fits(pc[e], machine[e])
                             /\ pc[e] = "saving" => Fits(then[e].ok, machine[e])
    /\ illegal = {}

\* The converse of TransitionIsMove.
LEMMA MoveIsTransition ==
    ASSUME NEW s, NEW event, NEW to, <<s, event, to>> \in Transitions
    PROVE  accepts(s, event) /\ TransitionTo(s, event) = to
<1>1. accepts(s, event)
  BY DEF accepts
<1> DEFINE found == TransitionTo(s, event)
<1>2. <<s, event, found>> \in Transitions
  BY <1>1, TransitionIsMove
<1> HIDE DEF found
<1>3. found = to
  BY <1>2 DEF Transitions, Pausable
<1> QED
  BY <1>1, <1>3 DEF found

\* The moves drive() makes.
LEMMA DriveMoves ==
    ASSUME NEW m
    PROVE  /\ m.state = "Draft" =>
                 accepts(m.state, "Enqueue") /\ Applied(m, "Enqueue").state = "Queued"
           /\ m.state = "Queued" =>
                 accepts(m.state, "Start") /\ Applied(m, "Start").state = "Starting"
           /\ m.state = "Starting" =>
                 accepts(m.state, "Stream") /\ Applied(m, "Stream").state = "Running"
           /\ m.state \in {"Starting", "Running"} =>
                 /\ accepts(m.state, "Cancel") /\ accepts(m.state, "Block")
                 /\ accepts(m.state, "Pause")
                 /\ Applied(m, "Pause").state = "Paused" /\ Applied(m, "Pause").prePause = m.state
           /\ m.state = "Running" =>
                 /\ accepts(m.state, "Complete") /\ accepts(m.state, "CompleteWithChanges")
                 /\ accepts(m.state, "RequestApproval")
                 /\ Applied(m, "RequestApproval").state = "WaitingForApproval"
                 /\ ~accepts(m.state, "Stream")
           /\ m.state = "WaitingForApproval" =>
                 accepts(m.state, "ResolveApproval") /\ Applied(m, "ResolveApproval").state = "Running"
           /\ m.state = "Paused" =>
                 /\ accepts(m.state, "Cancel") /\ accepts(m.state, "Resume")
                 /\ Applied(m, "Resume").state = m.prePause
<1>1. /\ <<"Draft", "Enqueue", "Queued">> \in Transitions
      /\ <<"Queued", "Start", "Starting">> \in Transitions
      /\ <<"Starting", "Stream", "Running">> \in Transitions
      /\ \A s \in {"Starting", "Running"} : /\ <<s, "Cancel", "Cancelled">> \in Transitions
                                            /\ <<s, "Block", "Blocked">> \in Transitions
                                            /\ <<s, "Pause", "Paused">> \in Transitions
      /\ <<"Running", "Complete", "Completed">> \in Transitions
      /\ <<"Running", "CompleteWithChanges", "CompletedWithChanges">> \in Transitions
      /\ <<"Running", "RequestApproval", "WaitingForApproval">> \in Transitions
      /\ <<"WaitingForApproval", "ResolveApproval", "Running">> \in Transitions
      /\ <<"Paused", "Cancel", "Cancelled">> \in Transitions
      /\ <<"Paused", "Resume", "RestorePrePause">> \in Transitions
  BY DEF Transitions, Pausable
<1>2. ~accepts("Running", "Stream")
  BY DEF accepts, Transitions, Pausable
<1>3. CASE m.state = "Draft"
  BY <1>1, <1>3, MoveIsTransition DEF Applied
<1>4. CASE m.state = "Queued"
  BY <1>1, <1>4, MoveIsTransition DEF Applied
<1>5. CASE m.state = "Starting"
  BY <1>1, <1>5, MoveIsTransition DEF Applied
<1>6. CASE m.state = "Running"
  BY <1>1, <1>2, <1>6, MoveIsTransition DEF Applied
<1>7. CASE m.state = "WaitingForApproval"
  BY <1>1, <1>7, MoveIsTransition DEF Applied
<1>8. CASE m.state = "Paused"
  BY <1>1, <1>8, MoveIsTransition DEF Applied
<1> QED
  BY <1>3, <1>4, <1>5, <1>6, <1>7, <1>8

\* A step of run() or drive() whose event, if any, is legal and which leads to
\* a point that fits.
Legal(e, event, ok) ==
    accepts(machine[e].state, event) /\ Fits(ok, Applied(machine[e], event))

\* The steps of drive() that ask the machine for a move the contract has.
Orders(e) ==
    \/ \E step \in Drive : Fits(step, machine[e]) /\ Step(e, step)
    \/ \E event, ok, err : Legal(e, event, ok) /\ Advance(e, event, ok, err)
    \/ \E new, ok : Fits(ok, machine[e]) /\ SaveJournal(e, new, ok, "failing")
    \/ Calling(e) \/ PersistTurn(e)

\* Every step of an execution whose machine fits its place is such a step.
LEMMA RunIsOrderly ==
    ASSUME NEW e \in Executions, Fits(pc[e], machine[e]) \/ pc[e] = "saving", Run(e)
    PROVE  OpReturns(e) \/ Orders(e) \/ Release(e)
<1> DEFINE m == machine[e]
<1>1. /\ m.state = "Draft" =>
            accepts(m.state, "Enqueue") /\ Applied(m, "Enqueue").state = "Queued"
      /\ m.state = "Queued" =>
            accepts(m.state, "Start") /\ Applied(m, "Start").state = "Starting"
      /\ m.state = "Starting" =>
            accepts(m.state, "Stream") /\ Applied(m, "Stream").state = "Running"
      /\ m.state \in {"Starting", "Running"} =>
            /\ accepts(m.state, "Cancel") /\ accepts(m.state, "Block")
            /\ accepts(m.state, "Pause")
            /\ Applied(m, "Pause").state = "Paused" /\ Applied(m, "Pause").prePause = m.state
      /\ m.state = "Running" =>
            /\ accepts(m.state, "Complete") /\ accepts(m.state, "CompleteWithChanges")
            /\ accepts(m.state, "RequestApproval")
            /\ Applied(m, "RequestApproval").state = "WaitingForApproval"
            /\ ~accepts(m.state, "Stream")
      /\ m.state = "WaitingForApproval" =>
            accepts(m.state, "ResolveApproval") /\ Applied(m, "ResolveApproval").state = "Running"
      /\ m.state = "Paused" =>
            /\ accepts(m.state, "Cancel") /\ accepts(m.state, "Resume")
            /\ Applied(m, "Resume").state = m.prePause
  BY DriveMoves
<1>2. \A p \in {"failing", "record", "release"} : \A n : Fits(p, n)
  BY DEF Fits
<1>3. CASE Enqueue(e)
  BY <1>1, <1>2, <1>3 DEF Enqueue, Orders, Legal, Fits, Drive, Fails
<1>4. CASE Start(e)
  BY <1>1, <1>2, <1>4 DEF Start, Orders, Legal, Fits, Drive, Fails
<1>5. CASE Bootstrap(e)
  BY <1>1, <1>2, <1>5, TurnAssumption DEF Bootstrap, Orders, Legal, Fits, Drive, Fails
<1>6. CASE GoalDirective(e)
  BY <1>1, <1>2, <1>6 DEF GoalDirective, Orders, Legal, Fits, Drive, Fails
<1>7. CASE Top(e)
  BY <1>1, <1>2, <1>7 DEF Top, Quiesce, Paused, Orders, Legal, Fits, Drive, Fails
<1>8. CASE Admit(e)
  BY <1>1, <1>2, <1>8 DEF Admit, Orders, Legal, Fits, Drive, Fails
<1>9. CASE CallProvider(e)
  BY <1>1, <1>2, <1>9 DEF CallProvider, Calling, Orders, Legal, Fits, Drive, Fails
<1>10. CASE Opening(e)
  BY <1>1, <1>2, <1>10 DEF Opening, PersistReport, Orders, Legal, Fits, Drive, Fails
<1>11. CASE Opened(e)
  BY <1>1, <1>2, <1>11 DEF Opened, Orders, Legal, Fits, Drive, Fails
<1>12. CASE Stream(e)
  BY <1>1, <1>2, <1>12 DEF Stream, PersistReport, Orders, Legal, Fits, Drive, Fails
<1>13. CASE Decide(e)
  BY <1>1, <1>2, <1>13 DEF Decide, Orders, Legal, Fits, Drive, Fails
<1>14. CASE Tool(e, "tool", "toolWaiting", "toolBare", "toolDone")
  BY <1>1, <1>2, <1>14 DEF Tool, Orders, Legal, Fits, Drive, Fails
<1>15. CASE ToolDone(e)
  BY <1>1, <1>2, <1>15 DEF ToolDone, Orders, Legal, Fits, Drive, Fails
<1>16. CASE DirectTool(e)
  BY <1>1, <1>2, <1>16 DEF DirectTool, Tool, Orders, Legal, Fits, Drive, Fails
<1>17. CASE Failing(e)
  BY <1>1, <1>2, <1>17 DEF Failing, Orders, Legal, Fits, Drive, Fails
<1>18. CASE PersistTurn(e) \/ OpReturns(e) \/ Release(e)
  BY <1>18 DEF Orders
<1> QED
  BY <1>3, <1>4, <1>5, <1>6, <1>7, <1>8, <1>9, <1>10, <1>11, <1>12, <1>13, <1>14, <1>15,
     <1>16, <1>17, <1>18 DEF Run

\* Orderly is inductive, given Control.
LEMMA OrderlyStep ==
    ASSUME Control, Orderly, [Next]_vars
    PROVE  Orderly'
<1> USE DEF store, local, control, history, Goto
<1> DEFINE Tidy(f) == \/ pc'[f] = pc[f] /\ machine'[f] = machine[f] /\ then'[f] = then[f]
                      \/ pc'[f] \in Before \cup {"ended"}
                      \/ pc'[f] \in Drive /\ Fits(pc'[f], machine'[f])
                      \/ pc'[f] = "saving" /\ Fits(then'[f].ok, machine'[f])
<1>1. illegal' = illegal /\ (\A f \in Executions : Tidy(f)) => Orderly'
  BY PointFacts DEF Orderly
<1>2. \A f \in Executions : /\ pc[f] \in Drive => Fits(pc[f], machine[f])
                            /\ pc[f] = "saving" => Fits(then[f].ok, machine[f])
  BY DEF Orderly
<1>3. \A p \in {"failing", "record", "release"} : \A n : Fits(p, n)
  BY DEF Fits
<1>4. /\ pc \in [Executions -> Points] /\ machine \in [Executions -> TurnStateMachine]
      /\ then \in [Executions -> Targets]
  BY DEF Control, Types, TaskTypes
<1>5. ASSUME NEW e \in Executions, LoadSession(e) \/ NextTurn(e) \/ SubmitRefused(e)
      PROVE  Orderly'
  BY <1>1, <1>4, <1>5, PointFacts DEF LoadSession, NextTurn, SubmitRefused
<1>6. ASSUME NEW e \in Executions, Claim(e)
      PROVE  Orderly'
  <2>1. machine[e] = NewMachine /\ pc'[e] = "enqueue" /\ machine' = machine
    BY <1>4, <1>6, PointFacts DEF Claim, Control, Unstarted
  <2>2. Fits("enqueue", NewMachine)
    BY DEF Fits, NewMachine
  <2> QED
    BY <1>1, <1>4, <1>6, <2>1, <2>2, PointFacts DEF Claim
<1>7. ASSUME NEW e \in Executions, Worker(e)
      PROVE  Orderly'
  <2>1. UNCHANGED <<pc, machine, then, illegal>>
    BY <1>7 DEF Worker, OpReads, OpFails, OpRefused, OpCommits, OpUnknown
  <2> QED
    BY <1>1, <2>1
<1>8. ASSUME NEW e \in Executions, OpReturns(e)
      PROVE  Orderly'
  <2>1. /\ illegal' = illegal /\ machine' = machine /\ pc[e] = "saving"
        /\ pc'[e] = then[e].ok \/ pc'[e] = then[e].err
        /\ \A f \in Executions \ {e} : pc'[f] = pc[f] /\ then'[f] = then[f]
    BY <1>4, <1>8 DEF OpReturns
  <2>2. then[e].ok \in Drive /\ then[e].err \in {"failing", "release"}
    BY <2>1 DEF Control, Returns
  <2>3. pc'[e] \in Drive /\ Fits(pc'[e], machine'[e])
    BY <1>2, <1>3, <2>1, <2>2, PointFacts
  <2> QED
    BY <1>1, <2>1, <2>3
<1>9. ASSUME NEW e \in Executions, Orders(e)
      PROVE  Orderly'
  <2>1. CASE \E step \in Drive : Fits(step, machine[e]) /\ Step(e, step)
    BY <1>1, <1>4, <2>1 DEF Step
  <2>2. ASSUME NEW event, NEW ok, NEW err, Legal(e, event, ok), Advance(e, event, ok, err)
        PROVE  Orderly'
    <3>1. /\ machine' = [machine EXCEPT ![e] = Applied(machine[e], event)]
          /\ then' = [then EXCEPT ![e] = [ok |-> ok, err |-> err]]
          /\ pc' = [pc EXCEPT ![e] = "saving"] /\ illegal' = illegal
      BY <2>2 DEF Legal, Advance, Save
    <3>2. Fits(then'[e].ok, machine'[e]) /\ pc'[e] = "saving"
      BY <1>4, <2>2, <3>1 DEF Legal
    <3> QED
      BY <1>1, <1>4, <3>1, <3>2
  <2>3. ASSUME NEW new, NEW ok, Fits(ok, machine[e]), SaveJournal(e, new, ok, "failing")
        PROVE  Orderly'
    BY <1>1, <1>4, <2>3 DEF SaveJournal, Save
  <2>4. CASE Calling(e)
    <3>1. Fits("opening", machine[e])
      BY <1>2, <2>4, PointFacts DEF Calling, Fits
    <3> QED
      BY <1>1, <1>4, <2>4, <3>1, PointFacts DEF Calling
  <2>5. CASE PersistTurn(e)
    BY <1>1, <1>3, <1>4, <2>5 DEF PersistTurn, Save
  <2> QED
    BY <1>9, <2>1, <2>2, <2>3, <2>4, <2>5 DEF Orders
<1>10. ASSUME NEW e \in Executions, Release(e) \/ Abort(e)
       PROVE  Orderly'
  <2>1. illegal' = illegal /\ pc' = [pc EXCEPT ![e] = "ended"] /\ then' = [then EXCEPT ![e] = Nowhere]
    BY <1>10 DEF Release, Abort, Gone
  <2>2. \A f \in Executions \ {e} : machine'[f] = machine[f]
    BY <1>4, <1>10 DEF Release, Abort, Gone
  <2> QED
    BY <1>1, <1>4, <2>1, <2>2
<1>11. ASSUME NEW e \in Executions, Run(e)
       PROVE  Orderly'
  <2>1. pc[e] \in Drive \cup {"saving"}
    <3>1. OpReturns(e) \/ Drives(e) \/ Release(e)
      BY <1>11, RunShapes DEF Control
    <3> QED
      BY <3>1, PointFacts DEF OpReturns, Drives, Moves, Advances, Journals, Calling, PersistTurn,
         Release, Drive
  <2> QED
    BY <1>2, <1>8, <1>9, <1>10, <1>11, <2>1, RunIsOrderly
<1>12. ASSUME \/ \E e \in Executions : Cancel(e) \/ SetPaused(e)
              \/ \E r \in Resets : ResetBegins(r) \/ ResetReads(r) \/ ResetCommits(r)
              \/ UNCHANGED vars
       PROVE  Orderly'
  <2>1. UNCHANGED <<pc, machine, then, illegal>>
    BY <1>12 DEF Cancel, SetPaused, ResetBegins, ResetReads, ResetCommits, vars
  <2> QED
    BY <1>1, <2>1
<1>13. ASSUME Crash
       PROVE  Orderly'
  BY <1>1, <1>13, PointFacts DEF Crash
<1> QED
  BY <1>5, <1>6, <1>7, <1>10, <1>11, <1>12, <1>13 DEF Next, Submit

\* However rounds, approvals, pauses, goals, cancellations and failed saves
\* follow each other, drive() never asks its machine for a move the session
\* contract refuses.
THEOREM DriveIsLegal ==
    Spec => []NeverIllegal
<1>1. Init => Orderly
  BY PointFacts DEF Init, Orderly
<1>2. Control /\ Orderly /\ [Next]_vars => Orderly'
  BY OrderlyStep
<1>3. Orderly => NeverIllegal
  BY DEF Orderly, NeverIllegal
<1> QED
  BY <1>1, <1>2, <1>3, ControlAlways, PTL DEF Spec
=============================================================================
