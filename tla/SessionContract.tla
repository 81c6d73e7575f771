-------------------------- MODULE SessionContract --------------------------
(***************************************************************************)
(* The user-visible session states, the events that move a turn between    *)
(* them (crates/claw-application/src/model/session.rs) and the machine     *)
(* that remembers the state before a pause                                 *)
(* (crates/claw-runtime/src/session.rs).                                   *)
(***************************************************************************)

SessionState ==
    {"Draft", "Queued", "Starting", "Running", "WaitingForApproval",
     "WaitingForAnswer", "Paused", "Blocked", "Failed", "Cancelled",
     "Completed", "CompletedWithChanges"}

SessionEvent ==
    {"Enqueue", "Start", "Stream", "RequestApproval", "ResolveApproval",
     "AskQuestion", "ProvideAnswer", "Pause", "Resume", "Block", "Unblock",
     "Complete", "CompleteWithChanges", "Cancel", "Fail"}

is_terminal(s) == s \in {"Failed", "Cancelled", "Completed", "CompletedWithChanges"}

Pausable == {"Queued", "Starting", "Running", "WaitingForApproval", "WaitingForAnswer"}

(* transition(): the legal moves.  Resume has no fixed target.             *)
Transitions ==
    {<<"Draft", "Enqueue", "Queued">>, <<"Blocked", "Unblock", "Queued">>,
     <<"Queued", "Start", "Starting">>, <<"Starting", "Stream", "Running">>,
     <<"WaitingForApproval", "ResolveApproval", "Running">>,
     <<"WaitingForAnswer", "ProvideAnswer", "Running">>,
     <<"Running", "RequestApproval", "WaitingForApproval">>,
     <<"Running", "AskQuestion", "WaitingForAnswer">>,
     <<"Paused", "Resume", "RestorePrePause">>,
     <<"Running", "Complete", "Completed">>,
     <<"Running", "CompleteWithChanges", "CompletedWithChanges">>}
    \cup {<<s, "Pause", "Paused">> : s \in Pausable}
    \cup {<<s, "Block", "Blocked">> : s \in Pausable}
    \cup {<<s, "Cancel", "Cancelled">> : s \in Pausable \cup {"Draft", "Paused", "Blocked"}}
    \cup {<<s, "Fail", "Failed">> : s \in Pausable \cup {"Draft", "Paused", "Blocked"}}

accepts(s, event) == \E move \in Transitions : move[1] = s /\ move[2] = event

TransitionTo(s, event) ==
    (CHOOSE move \in Transitions : move[1] = s /\ move[2] = event)[3]

(* TurnStateMachine: a state and the one held before a pause, or "none".   *)
TurnStateMachine == [state : SessionState, prePause : Pausable \cup {"none"}]

NewMachine == [state |-> "Draft", prePause |-> "none"]

(* Mutant: the state before a pause survives a cancellation.               *)
AppliedStale(m, event) ==
    LET to == TransitionTo(m.state, event)
    IN  IF to = "RestorePrePause" THEN [state |-> m.prePause, prePause |-> "none"]
        ELSE IF to = "Paused"     THEN [state |-> to, prePause |-> m.state]
        ELSE [m EXCEPT !.state = to]

(* apply(), for an event the machine accepts.                              *)
Applied(m, event) ==
    LET to == TransitionTo(m.state, event)
    IN  IF to = "RestorePrePause" THEN [state |-> m.prePause, prePause |-> "none"]
        ELSE IF to = "Paused"     THEN [state |-> to, prePause |-> m.state]
        ELSE [state |-> to, prePause |-> "none"]

(* What restore() accepts from a stored snapshot.                          *)
Restorable(m) == m.state = "Paused" <=> m.prePause \in Pausable
=============================================================================
