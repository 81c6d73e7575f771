-------------------------- MODULE ApprovalBroker --------------------------
(***************************************************************************)
(* The approval broker of claw-runtime                                     *)
(* (crates/claw-runtime/src/approval.rs): it gates tool calls on operator  *)
(* decisions, keeps the outstanding requests and the per-session memory of *)
(* "always" answers, and withdraws what nobody answers.                    *)
(*                                                                         *)
(* Every action is one critical section of the broker mutex, one poll of a *)
(* waiter's biased select!, or one call of the presentation adapter, so    *)
(* operators, waiters, cancellation, expiry, dropped futures and           *)
(* withdraw_all interleave as on a multi-threaded executor.                *)
(***************************************************************************)
EXTENDS Integers, FiniteSets

CONSTANTS
    Calls,        \* tool calls, each asking for permission at most once
    Sessions, Tools,
    Verdicts,     \* answers operators give: approve, deny
    Authorities,  \* kinds of caller: "none", "plain" or "bound" (see ApprovalTicket)
    MaxId,        \* last identifier next_id can mint (u64::MAX in the code)
    Timeout,      \* ApprovalBroker::timeout
    MaxTime,      \* the last representable Timestamp; bounds the clock
    PortYields,   \* futures dropped while settle()/withdraw() is suspended
    None          \* absence of a value (Option::None)

ASSUME BrokerAssumption ==
    /\ MaxId \in Nat /\ Timeout \in Nat /\ MaxTime \in Nat
    /\ PortYields \subseteq {"request", "withdraw_all"}
    /\ Verdicts \subseteq {"approve", "deny"}
    /\ Authorities \subseteq {"none", "plain", "bound"}

VARIABLES
    \* BrokerState
    pending,      \* identifier -> the call whose entry is outstanding
    remembered,   \* session -> tool -> remembered decision
    nextId,
    \* one request_inner() future per call
    step, ticket, reqId, expires, outcome,
    accepted,     \* decision_accepted, with the decision it stands for
    channel,      \* the oneshot between responder and receiver
    \* tokens owned by the caller
    cancelled, revoked,
    \* callers of the broker
    sending,      \* resolve_inner() calls between their unlock and their send
    drain,        \* the identifiers withdraw_all() still has to withdraw
    \* environment
    now,
    prompt        \* what the operator sees for each identifier

state == <<pending, remembered, nextId>>
future == <<step, ticket, reqId, expires, outcome, accepted, channel>>
tokens == <<cancelled, revoked>>
callers == <<sending, drain>>
vars == <<state, future, tokens, callers, now, prompt>>

---------------------------------------------------------------------------
Ids == 1..MaxId

ApprovalDecision == [verdict : Verdicts, scope : {"once", "session"}]

(* What the receiver of a oneshot sees before a decision is sent, and      *)
(* after its responder was dropped without one.                            *)
Open == [verdict |-> "none", scope |-> "open"]
Closed == [verdict |-> "none", scope |-> "closed"]

(* Authority "plain" carries an InvocationAuthority, "bound" also a         *)
(* ToolBinding with its one-use preview token.                             *)
ApprovalTicket == [session : Sessions, tool : Tools, authority : Authorities]

Withdrawn(reason) == [kind |-> "withdrawn", reason |-> reason]

Decided(d) == [kind |-> "decided", decision |-> d]

Remembered(d) == [kind |-> "remembered", decision |-> d]

Error == [kind |-> "error"]

Dropped == [kind |-> "dropped"]

ApprovalOutcome ==
    {Withdrawn("Cancelled"), Withdrawn("TimedOut"), Error, Dropped}
      \cup {Decided(d) : d \in ApprovalDecision}
      \cup {Remembered(d) : d \in ApprovalDecision}

(* Option::None is no value of any of the types it stands beside.          *)
ASSUME NoneAssumption ==
    None \notin Calls \cup ApprovalDecision \cup ApprovalTicket \cup ApprovalOutcome

(* Where request_inner() stands:                                           *)
(*   mint, insert       - before the identifier, before the entry          *)
(*   presenting, waiting- guard armed: awaiting present(), then select!    *)
(*   withdrawing        - select! chose no decision, guard disarmed        *)
(*   dismissing, settling - awaiting the adapter's withdraw() or settle()  *)
(*   abandoning         - dropped; PendingGuard released the lock          *)
Step == {"idle", "mint", "insert", "presenting", "waiting", "withdrawing",
         "dismissing", "settling", "abandoning", "done"}

Armed == {"presenting", "waiting"}

(* A broker nothing is waiting on; nextId says how many requests it has    *)
(* already served.                                                         *)
Init ==
    /\ pending = [i \in Ids |-> None]
    /\ remembered = [s \in Sessions |-> [t \in Tools |-> None]]
    /\ nextId \in 0 .. MaxId - 1
    /\ step = [c \in Calls |-> "idle"]
    /\ ticket = [c \in Calls |-> None]
    /\ reqId = [c \in Calls |-> 0]
    /\ expires = [c \in Calls |-> 0]
    /\ outcome = [c \in Calls |-> None]
    /\ accepted = [c \in Calls |-> None]
    /\ channel = [c \in Calls |-> Open]
    /\ cancelled = {} /\ revoked = {}
    /\ sending = {} /\ drain = {}
    /\ now = 0
    /\ prompt = [i \in Ids |-> "absent"]

---------------------------------------------------------------------------
(* Helpers.                                                                *)

(* cancel.is_cancelled() or a revoked authority.                           *)
Interrupted(c) ==
    c \in cancelled \/ (ticket[c].authority # "none" /\ c \in revoked)

(* The receiver lives until the select! ends; is_closed() is its absence.  *)
ReceiverOpen(c) == step[c] \in Armed

Return(c, result) ==
    /\ step' = [step EXCEPT ![c] = "done"]
    /\ outcome' = [outcome EXCEPT ![c] = result]

(* The adapter's dismissal of one prompt.                                  *)
DismissPrompt(i) == prompt' = [prompt EXCEPT ![i] = "dismissed"]

(* The adapter failed: the prompt is its responsibility from here on.      *)
DismissFails(i) == prompt' = [prompt EXCEPT ![i] = "failed"]

---------------------------------------------------------------------------
(* request_inner().                                                        *)

(* The early returns: an interrupted caller, then a remembered decision,   *)
(* which only unauthenticated calls may use.                               *)
Request(c) ==
    /\ step[c] = "idle"
    /\ \E t \in ApprovalTicket :
          /\ ticket' = [ticket EXCEPT ![c] = t]
          /\ LET memory == remembered[t.session][t.tool]
             IN  IF c \in cancelled \/ (t.authority # "none" /\ c \in revoked)
                   THEN Return(c, Withdrawn("Cancelled"))
                 ELSE IF t.authority = "none" /\ memory # None
                   THEN Return(c, Remembered(memory))
                 ELSE step' = [step EXCEPT ![c] = "mint"] /\ UNCHANGED outcome
    /\ UNCHANGED <<state, reqId, expires, accepted, channel, tokens, callers, now, prompt>>

(* Mutant: the counter saturates instead of refusing.                      *)
MintSaturating(c) ==
    /\ step[c] = "mint" /\ now + Timeout <= MaxTime
    /\ expires' = [expires EXCEPT ![c] = now + Timeout]
    /\ nextId' = IF nextId < MaxId THEN nextId + 1 ELSE MaxId
    /\ reqId' = [reqId EXCEPT ![c] = nextId']
    /\ step' = [step EXCEPT ![c] = "insert"]
    /\ UNCHANGED <<outcome, pending, remembered, ticket, accepted, channel, tokens, callers,
                   now, prompt>>

(* The deadline, then the counter bump under the lock.  An unrepresentable *)
(* deadline or an exhausted counter refuses the request.                   *)
Mint(c) ==
    /\ step[c] = "mint"
    /\ IF now + Timeout <= MaxTime /\ nextId < MaxId
         THEN /\ expires' = [expires EXCEPT ![c] = now + Timeout]
              /\ nextId' = nextId + 1
              /\ reqId' = [reqId EXCEPT ![c] = nextId']
              /\ step' = [step EXCEPT ![c] = "insert"]
              /\ UNCHANGED outcome
         ELSE /\ Return(c, Error)
              /\ UNCHANGED <<nextId, reqId, expires>>
    /\ UNCHANGED <<pending, remembered, ticket, accepted, channel, tokens, callers, now, prompt>>

(* binding_token() failed or returned a malformed token.                   *)
BindingRefused(c) ==
    /\ step[c] = "insert"
    /\ ticket[c].authority = "bound"
    /\ Return(c, Error)
    /\ UNCHANGED <<state, ticket, reqId, expires, accepted, channel, tokens, callers, now, prompt>>

(* The entry is inserted; whatever responder it replaces is dropped.       *)
Insert(c) ==
    /\ step[c] = "insert"
    /\ pending' = [pending EXCEPT ![reqId[c]] = c]
    /\ channel' = [x \in Calls |->
                     IF x = pending[reqId[c]] THEN Closed ELSE channel[x]]
    /\ step' = [step EXCEPT ![c] = "presenting"]
    /\ UNCHANGED <<remembered, nextId, ticket, reqId, expires, outcome, accepted,
                   tokens, callers, now, prompt>>

(* present() succeeded.                                                    *)
Present(c) ==
    /\ step[c] = "presenting"
    /\ prompt' = [prompt EXCEPT ![reqId[c]] = "shown"]
    /\ step' = [step EXCEPT ![c] = "waiting"]
    /\ UNCHANGED <<state, ticket, reqId, expires, outcome, accepted, channel,
                   tokens, callers, now>>

(* present() failed: disarm, discard the entry, report the port error.     *)
PresentFails(c) ==
    /\ step[c] = "presenting"
    /\ pending' = [pending EXCEPT ![reqId[c]] = None]
    /\ Return(c, Error)
    /\ UNCHANGED <<remembered, nextId, ticket, reqId, expires, accepted, channel,
                   tokens, callers, now, prompt>>

(* Mutant: the deadline is polled before the receiver.                     *)
PollWithdrawnDeadlineFirst(c) ==
    /\ step[c] = "waiting"
    /\ Interrupted(c) \/ channel[c] = Closed \/ now >= expires[c]
    /\ step' = [step EXCEPT ![c] = "withdrawing"]
    /\ UNCHANGED <<state, ticket, reqId, expires, outcome, accepted, channel,
                   tokens, callers, now, prompt>>

(* One poll of the biased select!: cancellation and revocation first, then *)
(* the receiver, then the deadline.                                        *)
PollWithdrawn(c) ==
    /\ step[c] = "waiting"
    /\ \/ Interrupted(c)
       \/ channel[c] = Closed
       \/ channel[c] = Open /\ now >= expires[c]
    /\ step' = [step EXCEPT ![c] = "withdrawing"]
    /\ UNCHANGED <<state, ticket, reqId, expires, outcome, accepted, channel,
                   tokens, callers, now, prompt>>

(* Mutant: a responder dropped unanswered counts as an answer.             *)
PollDecidedOnClose(c) ==
    /\ step[c] = "waiting"
    /\ ~Interrupted(c)
    /\ channel[c] # Open
    /\ step' = [step EXCEPT ![c] = "settling"]
    /\ UNCHANGED <<state, ticket, reqId, expires, outcome, accepted, channel,
                   tokens, callers, now, prompt>>

PollDecided(c) ==
    /\ step[c] = "waiting"
    /\ ~Interrupted(c)
    /\ channel[c] \in ApprovalDecision
    /\ step' = [step EXCEPT ![c] = "settling"]
    /\ UNCHANGED <<state, ticket, reqId, expires, outcome, accepted, channel,
                   tokens, callers, now, prompt>>

Reason(c) == IF Interrupted(c) THEN "Cancelled" ELSE "TimedOut"

(* No decision: discard the entry under the lock, fix the reason, and tell *)
(* the adapter only if this call still owned the prompt.                   *)
Discard(c) ==
    /\ step[c] = "withdrawing"
    /\ pending' = [pending EXCEPT ![reqId[c]] = None]
    /\ outcome' = [outcome EXCEPT ![c] = Withdrawn(Reason(c))]
    /\ step' = [step EXCEPT ![c] =
                  IF pending[reqId[c]] # None \/ accepted[c] # None
                    THEN "dismissing" ELSE "done"]
    /\ UNCHANGED <<remembered, nextId, ticket, reqId, expires, accepted, channel,
                   tokens, callers, now, prompt>>

(* The adapter's withdraw() ran; its failure replaces the outcome.         *)
WithdrawPrompt(c) ==
    /\ step[c] = "dismissing"
    /\ step' = [step EXCEPT ![c] = "done"]
    /\ \/ DismissPrompt(reqId[c]) /\ UNCHANGED outcome
       \/ DismissFails(reqId[c]) /\ outcome' = [outcome EXCEPT ![c] = Error]
    /\ UNCHANGED <<state, ticket, reqId, expires, accepted, channel, tokens, callers, now>>

(* The adapter's settle() ran; only then is the decision reported.         *)
SettlePrompt(c) ==
    /\ step[c] = "settling"
    /\ \/ DismissPrompt(reqId[c]) /\ Return(c, Decided(channel[c]))
       \/ DismissFails(reqId[c]) /\ Return(c, Error)
    /\ UNCHANGED <<state, ticket, reqId, expires, accepted, channel, tokens, callers, now>>

---------------------------------------------------------------------------
(* A future dropped at one of its awaits.                                  *)

(* Mutant: without the guard, the entry outlives its waiter.               *)
DropUnguarded(c) ==
    /\ step[c] \in Armed
    /\ Return(c, Dropped)
    /\ UNCHANGED <<state, ticket, reqId, expires, accepted, channel,
                   tokens, callers, now, prompt>>

(* PendingGuard::drop while armed: retract under the lock ...              *)
Drop(c) ==
    /\ step[c] \in Armed
    /\ pending' = [pending EXCEPT ![reqId[c]] = None]
    /\ IF pending[reqId[c]] # None \/ accepted[c] # None
         THEN step' = [step EXCEPT ![c] = "abandoning"] /\ UNCHANGED outcome
         ELSE Return(c, Dropped)
    /\ UNCHANGED <<remembered, nextId, ticket, reqId, expires, accepted, channel,
                   tokens, callers, now, prompt>>

(* ... then abandon() after the unlock, inside the same drop.              *)
Abandon(c) ==
    /\ step[c] = "abandoning"
    /\ DismissPrompt(reqId[c])
    /\ Return(c, Dropped)
    /\ UNCHANGED <<state, ticket, reqId, expires, accepted, channel, tokens, callers, now>>

(* Dropped at settle() or withdraw(): the guard is already disarmed.  Only *)
(* an adapter that suspends offers this await.                             *)
DropDisarmed(c) ==
    /\ "request" \in PortYields
    /\ step[c] \in {"dismissing", "settling"}
    /\ Return(c, Dropped)
    /\ UNCHANGED <<state, ticket, reqId, expires, accepted, channel,
                   tokens, callers, now, prompt>>

---------------------------------------------------------------------------
(* resolve_inner().                                                        *)

(* The preview token resolve() or resolve_bound() must present.            *)
BindingToken(c) == IF ticket[c].authority = "bound" THEN "preview" ELSE "none"

(* Mutant: an authenticated approval may be remembered.                    *)
ResolvableAnyScope(i, d, token) ==
    /\ pending[i] # None
    /\ ~Interrupted(pending[i])
    /\ ReceiverOpen(pending[i])
    /\ now < expires[pending[i]]
    /\ token = BindingToken(pending[i])

(* Whether an answer is acceptable; every other answer is refused and      *)
(* changes nothing.                                                        *)
Resolvable(i, d, token) ==
    /\ pending[i] # None
    /\ LET c == pending[i]
       IN  /\ ~Interrupted(c)
           /\ ReceiverOpen(c)
           /\ now < expires[c]
           /\ ticket[c].authority = "none" \/ d.scope = "once"
           /\ token = BindingToken(c)

(* Under the lock: the entry leaves, the acceptance is published and a     *)
(* session-scoped decision is remembered.                                  *)
Resolve(i, d, token) ==
    /\ Resolvable(i, d, token)
    /\ LET c == pending[i]
       IN  /\ pending' = [pending EXCEPT ![i] = None]
           /\ accepted' = [accepted EXCEPT ![c] = d]
           /\ remembered' =
                IF d.scope = "session"
                  THEN [remembered EXCEPT ![ticket[c].session][ticket[c].tool] = d]
                  ELSE remembered
           /\ sending' = sending \cup {c}
    /\ UNCHANGED <<nextId, step, ticket, reqId, expires, outcome, channel,
                   tokens, drain, now, prompt>>

(* After the unlock: the decision reaches the waiter if it still listens.  *)
Send(c) ==
    /\ c \in sending
    /\ sending' = sending \ {c}
    /\ channel' = [channel EXCEPT ![c] = IF ReceiverOpen(c) THEN accepted[c] ELSE @]
    /\ UNCHANGED <<state, step, ticket, reqId, expires, outcome, accepted,
                   tokens, drain, now, prompt>>

---------------------------------------------------------------------------
(* withdraw_all(), forget(), forget_session() and the environment.         *)

(* Every entry leaves under one lock; the dropped responders close their   *)
(* channels.  The given reason reaches only the adapter.                   *)
WithdrawAll ==
    /\ drain' = drain \cup {i \in Ids : pending[i] # None}
    /\ pending' = [i \in Ids |-> None]
    /\ channel' = [c \in Calls |->
                     IF \E i \in Ids : pending[i] = c THEN Closed ELSE channel[c]]
    /\ UNCHANGED <<remembered, nextId, step, ticket, reqId, expires, outcome, accepted,
                   tokens, sending, now, prompt>>

WithdrawNext(i) ==
    /\ i \in drain
    /\ drain' = drain \ {i}
    /\ DismissPrompt(i) \/ DismissFails(i)
    /\ UNCHANGED <<state, future, tokens, sending, now>>

(* The withdraw_all() future itself is dropped between two adapter calls.  *)
DropWithdrawAll ==
    /\ "withdraw_all" \in PortYields
    /\ drain # {}
    /\ drain' = {}
    /\ UNCHANGED <<state, future, tokens, sending, now, prompt>>

Forget(s, t) ==
    /\ remembered' = [remembered EXCEPT ![s][t] = None]
    /\ UNCHANGED <<pending, nextId, future, tokens, callers, now, prompt>>

ForgetSession(s) ==
    /\ remembered' = [remembered EXCEPT ![s] = [t \in Tools |-> None]]
    /\ UNCHANGED <<pending, nextId, future, tokens, callers, now, prompt>>

(* The caller's tokens; after the request returned they no longer matter.  *)
Cancel(c) ==
    /\ c \notin cancelled /\ step[c] # "done"
    /\ cancelled' = cancelled \cup {c}
    /\ UNCHANGED <<state, future, revoked, callers, now, prompt>>

Revoke(c) ==
    /\ c \notin revoked /\ step[c] # "done"
    /\ revoked' = revoked \cup {c}
    /\ UNCHANGED <<state, future, cancelled, callers, now, prompt>>

Tick ==
    /\ now < MaxTime
    /\ now' = now + 1
    /\ UNCHANGED <<state, future, tokens, callers, prompt>>

---------------------------------------------------------------------------
Poll(c) ==
    \/ Mint(c) \/ BindingRefused(c) \/ Insert(c) \/ PresentFails(c) \/ Present(c)
    \/ PollWithdrawn(c) \/ PollDecided(c) \/ Discard(c)
    \/ WithdrawPrompt(c) \/ SettlePrompt(c) \/ Abandon(c)

Next ==
    \/ \E c \in Calls :
          \/ Request(c) \/ Poll(c) \/ Drop(c) \/ DropDisarmed(c)
          \/ Send(c) \/ Cancel(c) \/ Revoke(c)
    \/ \E i \in Ids, d \in ApprovalDecision, token \in {"none", "preview"} :
          Resolve(i, d, token)
    \/ WithdrawAll \/ DropWithdrawAll
    \/ \E i \in Ids : WithdrawNext(i)
    \/ \E s \in Sessions : ForgetSession(s) \/ \E t \in Tools : Forget(s, t)
    \/ Tick

Spec == Init /\ [][Next]_vars

(* A waiter that can run is polled, the adapter's futures complete and the *)
(* clock advances.  No operator is obliged to answer.                      *)
FairSpec ==
    Spec /\ (\A c \in Calls : WF_vars(Poll(c))) /\ WF_vars(Tick)

---------------------------------------------------------------------------
(* Properties.                                                             *)

(* Types; no prompt expires beyond the representable time.                 *)
TypeOK ==
    /\ pending \in [Ids -> Calls \cup {None}]
    /\ remembered \in [Sessions -> [Tools -> ApprovalDecision \cup {None}]]
    /\ nextId \in 0..MaxId
    /\ step \in [Calls -> Step]
    /\ ticket \in [Calls -> ApprovalTicket \cup {None}]
    /\ reqId \in [Calls -> 0..MaxId]
    /\ expires \in [Calls -> 0..MaxTime]
    /\ outcome \in [Calls -> ApprovalOutcome \cup {None}]
    /\ accepted \in [Calls -> ApprovalDecision \cup {None}]
    /\ channel \in [Calls -> ApprovalDecision \cup {Open, Closed}]
    /\ cancelled \subseteq Calls /\ revoked \subseteq Calls
    /\ sending \subseteq Calls /\ drain \subseteq Ids
    /\ now \in 0..MaxTime
    /\ prompt \in [Ids -> {"absent", "shown", "dismissed", "failed"}]

(* No entry outlives its waiter: whatever outstanding() lists belongs to a *)
(* request() future that is still there, so a dropped or finished call     *)
(* leaves nothing an operator could answer.                                *)
NoOrphanEntry ==
    \A i \in Ids : pending[i] # None =>
        /\ reqId[pending[i]] = i
        /\ step[pending[i]] \in Armed \cup {"withdrawing"}

(* A waiter that nobody answered and nobody withdrew can still be          *)
(* answered: another request never evicts or retracts its entry.           *)
WaiterStaysAnswerable ==
    \A c \in Calls :
        step[c] \in Armed /\ channel[c] = Open /\ accepted[c] = None
            => pending[reqId[c]] = c

(* A call is allowed or denied only by a decision an operator gave for     *)
(* this very call: never one meant for another call, never none.           *)
DecidedWasAccepted ==
    \A c \in Calls :
        outcome[c] # None /\ outcome[c].kind = "decided"
            => accepted[c] = outcome[c].decision

(* An accepted answer decides the call, and nothing else does: it is what  *)
(* request() reports. Only an interrupted caller, a deadline that passed   *)
(* before the decision was sent, a failed adapter or a dropped future      *)
(* stand against it; withdraw_all(), a decision sent in time but polled    *)
(* after the deadline (approval.rs:535) and a second answer do not.        *)
AcceptedIsHonoured ==
    /\ DecidedWasAccepted
    /\ \A c \in Calls : accepted[c] # None /\ step[c] = "done" =>
          \/ outcome[c] \in {Decided(accepted[c]), Error, Dropped}
          \/ outcome[c] = Withdrawn("Cancelled") /\ Interrupted(c)
          \/ outcome[c] = Withdrawn("TimedOut") /\ now >= expires[c] /\ channel[c] = Open

(* Authenticated approvals are good for one invocation: what is remembered *)
(* was answered, for the session, to an unauthenticated call of that       *)
(* session and tool.                                                       *)
MemoryComesFromOperators ==
    \A s \in Sessions, t \in Tools : remembered[s][t] # None =>
        \E c \in Calls :
            /\ accepted[c] = remembered[s][t]
            /\ ticket[c] = [session |-> s, tool |-> t, authority |-> "none"]

(* Who will still dismiss the prompt of identifier i.                      *)
PromptOwned(i) ==
    \/ i \in drain
    \/ \E c \in Calls :
          /\ reqId[c] = i
          /\ \/ step[c] \in Armed \cup {"dismissing", "settling", "abandoning"}
             \/ step[c] = "withdrawing" /\ (pending[i] # None \/ accepted[c] # None)

(* No prompt stays on an operator's screen without someone left to take it *)
(* away.                                                                   *)
NoOrphanPrompt == \A i \in Ids : prompt[i] = "shown" => PromptOwned(i)

(* A call reported as timed out really outlived its deadline.              *)
TimedOutMeansExpired ==
    \A c \in Calls : outcome[c] = Withdrawn("TimedOut") => now >= expires[c]

(* Every request that started returns, whether or not anybody answers.     *)
RequestReturns == \A c \in Calls : step[c] # "idle" ~> step[c] = "done"
=============================================================================
