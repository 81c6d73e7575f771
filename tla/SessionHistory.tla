-------------------------- MODULE SessionHistory ---------------------------
(***************************************************************************)
(* What the durable session pointer promises whoever reads it: it is       *)
(* absent or names the newest turn ever begun, a turn begins as Queued     *)
(* under an identity never used before, and moves only as the session      *)
(* contract allows.  A stale save changes nothing (ports/state.rs:119).    *)
(*                                                                         *)
(* Spec is that promise.  SpecUnlessReset is what TurnExecution implements *)
(* of it: once the session was reset, revisions start again from nothing,  *)
(* and the first save of a turn that was aborted before the reset may      *)
(* begin its identity a second time, over the turn that took it since.     *)
(***************************************************************************)
EXTENDS Integers, SessionContract

VARIABLES
    stored,     \* the machine of the newest turn, or NewMachine if reset
    newest,     \* the newest turn identity ever begun, -1 for none
    wasReset    \* a reset of the session has come to its end

Init == stored = NewMachine /\ newest = -1 /\ wasReset = FALSE

Begin ==
    /\ newest' > newest
    /\ stored' = Applied(NewMachine, "Enqueue")
    /\ UNCHANGED wasReset

Move ==
    /\ stored # NewMachine
    /\ \E event \in SessionEvent :
          /\ accepts(stored.state, event)
          /\ stored' = Applied(stored, event)
    /\ UNCHANGED <<newest, wasReset>>

Reset == stored' \in {stored, NewMachine} /\ wasReset' = TRUE /\ UNCHANGED newest

(* Not promised: a stale save takes the pointer back to Queued.            *)
StaleBegin ==
    /\ wasReset
    /\ stored # NewMachine
    /\ stored' = Applied(NewMachine, "Enqueue")
    /\ UNCHANGED <<newest, wasReset>>

Spec == Init /\ [][Begin \/ Move \/ Reset]_<<stored, newest, wasReset>>

SpecUnlessReset ==
    Init /\ [][Begin \/ Move \/ Reset \/ StaleBegin]_<<stored, newest, wasReset>>
=============================================================================
