---------------------------- MODULE DurableRuns ----------------------------
(***************************************************************************)
(* Durable ingress: the runs, result notifications and reply deliveries of *)
(* crates/claw-state/src/runs.rs, with the host tasks of the daemon that   *)
(* use them (apps/gta-claw-daemon/src/adapters/agent_runtime.rs and        *)
(* channels.rs) and the recovery when the database is reopened.            *)
(*                                                                         *)
(* A message is redelivered, a request repeated: any number of hosts work  *)
(* on one run.  Every store operation reads, and commits later with a      *)
(* comparison; in between other hosts and clients commit.  A commit may    *)
(* report failure although it happened, and the process may crash at any   *)
(* point, recovery included.                                               *)
(*                                                                         *)
(* A run is a channel message or a gateway request.  Data left out: the    *)
(* input (a run is one exact submission), texts, digests, timestamps; a    *)
(* reply is a number of segments.                                          *)
(***************************************************************************)
EXTENDS Integers, FiniteSets

CONSTANTS
    ChannelRuns, GatewayRuns,   \* submissions, by their source
    Hosts,                      \* host tasks, each for one run
    Clients,                    \* connections: cancel, acknowledge, reserve
    MaxRetainedRuns,            \* MAX_RETAINED_RUNS
    MaxSegments,                \* segments of a reply
    MaxCrashes,                 \* bound on process crashes
    None

Runs == ChannelRuns \cup GatewayRuns
Callers == Hosts \cup Clients
Segments == 1 .. MaxSegments

ASSUME DurableRunsAssumption ==
    /\ ChannelRuns \cap GatewayRuns = {} /\ Hosts \cap Clients = {}
    /\ MaxRetainedRuns \in Nat /\ MaxSegments \in Nat \ {0} /\ MaxCrashes \in Nat
    /\ None \notin Runs \cup Callers \cup {"legacy"}

VARIABLES
    \* the database
    run,            \* run/ID
    active, inbox,  \* run-active/ID, run-inbox/.../ID
    outbox,         \* run-outbox/.../ID: revision of the result, 0 if absent
    count,          \* run-metadata/retained-count
    owner,          \* run-session-owner/: every run has a session of its own
    delivery,       \* run-delivery/ID
    receipts,       \* run-delivery-receipt/ID/*
    \* the process
    mode,           \* recovering runs, recovering deliveries, open
    fence,          \* recovery_required
    storageFailed,  \* gateway_storage_failed
    pc, op,         \* where a caller is, and its store operation
    token,          \* runs whose turn was cancelled
    crashes,
    \* history
    executed,       \* how often external work was started
    sent,           \* how often a segment went out
    acked           \* results acknowledged at their own revision

database == <<run, active, inbox, outbox, count, owner, delivery, receipts>>
process == <<mode, fence, storageFailed, token, crashes>>
history == <<executed, sent, acked>>
vars == <<database, process, pc, op, history>>

---------------------------------------------------------------------------
RunPhase == {"Queued", "Executing", "Finished", "OutcomeUnknown"}
Terminal == {"Finished", "OutcomeUnknown"}
DeliveryPhase == {"none", "Sending", "Delivered", "OutcomeUnknown"}
RunResult == {"none", "completed", "null", "cancelled", "failed", "outcome_unknown"}

NoRun == [phase |-> "absent", cancel |-> "no", turn |-> "none", result |-> "none", rev |-> 0]
DurableRun == [phase : RunPhase, cancel : {"no", "yes"}, turn : {"none", "bound"},
               result : RunResult, rev : Nat]

NoDelivery == [phase |-> "none", rev |-> 0]

(* A store operation: its argument, what it read, how it stands ("pending" *)
(* is its commit) and the run it returned.                                 *)
NoOp == [kind |-> "none", run |-> None, arg |-> 0, seen |-> <<>>, ret |-> "none", got |-> NoRun]

Init ==
    /\ run = [r \in Runs |-> NoRun]
    /\ active = {} /\ inbox = {} /\ count = 0
    /\ outbox = [r \in Runs |-> 0] /\ owner = [r \in Runs |-> None]
    /\ delivery = [r \in Runs |-> NoDelivery] /\ receipts = [r \in Runs |-> {}]
    /\ mode = "open" /\ fence = FALSE /\ storageFailed = FALSE
    /\ pc = [c \in Callers |-> "idle"] /\ op = [c \in Callers |-> NoOp]
    /\ token = {} /\ crashes = 0
    /\ executed = [r \in Runs |-> 0] /\ acked = {}
    /\ sent = [r \in Runs |-> [i \in Segments |-> 0]]

---------------------------------------------------------------------------
(* The operations of DurableStateStore.                                    *)

Quota == count < MaxRetainedRuns

(* What an operation answers from what it reads, "pending" if it commits.  *)
AdmitReads(r) ==
    IF owner[r] \notin {None, r} THEN "conflict"
    ELSE IF run[r] # NoRun       THEN "ok"
    ELSE IF Quota                THEN "pending" ELSE "failed"

ClaimReads(r) == IF run[r].phase = "Queued" THEN "pending" ELSE "conflict"

BindReads(r) ==
    IF run[r].phase = "Executing" /\ run[r].turn = "none" THEN "pending" ELSE "conflict"

(* Mutant: a run that ended is still marked as cancelled.                  *)
CancelReadsLate(r) == IF run[r].cancel = "yes" THEN "ok" ELSE "pending"

CancelReads(r) ==
    IF run[r].result # "none" \/ run[r].cancel = "yes" THEN "ok" ELSE "pending"

FinishReads(r, result) ==
    IF run[r].phase \in Terminal /\ run[r].result = result THEN "ok"
    ELSE IF run[r].phase = "Executing" THEN "pending" ELSE "conflict"

(* Mutant: the revision is not compared.                                   *)
AckReadsAny(r, rev) ==
    IF run[r].phase \notin Terminal THEN "conflict"
    ELSE IF outbox[r] = 0 THEN "ok" ELSE "pending"

AckReads(r, rev) ==
    IF run[r].phase \notin Terminal \/ run[r].rev # rev THEN "conflict"
    ELSE IF outbox[r] = 0 THEN "ok"
    ELSE IF outbox[r] = run[r].rev THEN "pending" ELSE "failed"

(* Mutant: a reply that was not confirmed is handed out again.             *)
DeliverReadsAgain(r, rev) ==
    IF run[r].phase # "Finished" \/ run[r].rev # rev THEN "conflict"
    ELSE IF delivery[r] = NoDelivery THEN "pending"
    ELSE IF delivery[r].phase = "Delivered" THEN "existing" ELSE "ok"

(* claim_run_delivery(): an existing claim is never handed out again.      *)
DeliverReads(r, rev) ==
    IF run[r].phase # "Finished" \/ run[r].rev # rev THEN "conflict"
    ELSE IF delivery[r] # NoDelivery THEN "existing" ELSE "pending"

(* Receipts come in segment order, under the claim itself.                 *)
ReceiptReads(r, segment) ==
    IF delivery[r] # [phase |-> "Sending", rev |-> run[r].rev] THEN "conflict"
    ELSE IF segment \in receipts[r] THEN "conflict"
    ELSE IF segment > 1 /\ segment - 1 \notin receipts[r] THEN "conflict" ELSE "pending"

SettleReads(r) ==
    IF delivery[r] = [phase |-> "Sending", rev |-> run[r].rev] THEN "pending" ELSE "conflict"

ReserveReads(r) == IF owner[r] = None THEN "pending"
                   ELSE IF owner[r] = "legacy" THEN "ok" ELSE "conflict"

Reads(kind, r, arg) ==
    IF      kind = "admit"   THEN AdmitReads(r)
    ELSE IF kind = "claim"   THEN ClaimReads(r)
    ELSE IF kind = "bind"    THEN BindReads(r)
    ELSE IF kind = "cancel"  THEN CancelReads(r)
    ELSE IF kind = "finish"  THEN FinishReads(r, arg)
    ELSE IF kind = "ack"     THEN AckReads(r, arg)
    ELSE IF kind = "deliver" THEN DeliverReads(r, arg)
    ELSE IF kind = "receipt" THEN ReceiptReads(r, arg)
    ELSE IF kind = "settle"  THEN SettleReads(r)
    ELSE                          ReserveReads(r)

(* Mutant: a claim replaces whatever run record it finds.                  *)
ClaimComparedBlindly(r) == <<>>

ClaimCompared(r) == <<run[r]>>

(* Mutant: the retained count is not compared.                             *)
AdmitComparedUncounted(r) == <<run[r], owner[r]>>

AdmitCompared(r) == <<run[r], count, owner[r]>>

(* The records a commit compares with what was read.                       *)
Compared(kind, r, arg) ==
    IF      kind = "admit"   THEN AdmitCompared(r)
    ELSE IF kind = "claim"   THEN ClaimCompared(r)
    ELSE IF kind \in {"bind", "cancel", "finish"} THEN <<run[r]>>
    ELSE IF kind = "ack"     THEN <<outbox[r]>>
    ELSE IF kind = "deliver" THEN <<delivery[r]>>
    ELSE IF kind = "receipt" THEN <<delivery[r], receipts[r]>>
    ELSE IF kind = "settle"  THEN
         IF arg = "confirmed" THEN <<delivery[r], outbox[r]>> ELSE <<delivery[r]>>
    ELSE                          <<owner[r]>>

(* Mutant: the active marker of a finished run stays.                      *)
FinishChangesPartly(r, to) ==
    /\ run' = [run EXCEPT ![r] = to]
    /\ outbox' = [outbox EXCEPT ![r] = to.rev]
    /\ inbox' = inbox \ {r} /\ UNCHANGED active

(* Mutant: the inbox marker of a finished run stays.                       *)
FinishChangesListed(r, to) ==
    /\ run' = [run EXCEPT ![r] = to]
    /\ outbox' = [outbox EXCEPT ![r] = to.rev]
    /\ active' = active \ {r} /\ UNCHANGED inbox

(* finish_changes(): the terminal run, its notification, no more markers.  *)
FinishChanges(r, to) ==
    /\ run' = [run EXCEPT ![r] = to]
    /\ outbox' = [outbox EXCEPT ![r] = to.rev]
    /\ active' = active \ {r} /\ inbox' = inbox \ {r}

Update(r, to) == run' = [run EXCEPT ![r] = to] /\ UNCHANGED <<active, inbox, outbox>>

Revised(r) == [run[r] EXCEPT !.rev = @ + 1]

WritesRun(kind, r, arg) ==
    \/ /\ kind = "claim"
       /\ Update(r, [Revised(r) EXCEPT !.phase = "Executing"])
    \/ /\ kind = "bind"
       /\ Update(r, [Revised(r) EXCEPT !.turn = "bound"])
    \/ /\ kind = "cancel" /\ run[r].phase # "Queued"
       /\ Update(r, [Revised(r) EXCEPT !.cancel = "yes"])
    \/ /\ kind = "cancel" /\ run[r].phase = "Queued"
       /\ FinishChanges(r, [Revised(r) EXCEPT !.cancel = "yes", !.phase = "Finished",
                                            !.result = "cancelled"])
    \/ /\ kind = "finish"
       /\ FinishChanges(r, [Revised(r) EXCEPT !.result = arg,
              !.phase = IF arg = "outcome_unknown" THEN "OutcomeUnknown" ELSE "Finished"])

(* What the commit of an operation writes.                                 *)
Writes(kind, r, arg) ==
    \/ /\ WritesRun(kind, r, arg)
       /\ UNCHANGED <<count, owner, delivery, receipts, acked>>
    \/ /\ kind = "admit"
       /\ run' = [run EXCEPT ![r] = [NoRun EXCEPT !.phase = "Queued", !.rev = 1]]
       /\ active' = active \cup {r} /\ inbox' = inbox \cup {r}
       /\ count' = count + 1 /\ owner' = [owner EXCEPT ![r] = r]
       /\ UNCHANGED <<outbox, delivery, receipts, acked>>
    \/ /\ kind = "reserve"
       /\ owner' = [owner EXCEPT ![r] = "legacy"]
       /\ UNCHANGED <<run, active, inbox, outbox, count, delivery, receipts, acked>>
    \/ /\ kind = "ack"
       /\ outbox' = [outbox EXCEPT ![r] = 0]
       /\ acked' = IF arg = run[r].rev THEN acked \cup {r} ELSE acked
       /\ UNCHANGED <<run, active, inbox, count, owner, delivery, receipts>>
    \/ /\ kind = "deliver"
       /\ delivery' = [delivery EXCEPT ![r] = [phase |-> "Sending", rev |-> arg]]
       /\ UNCHANGED <<run, active, inbox, outbox, count, owner, receipts, acked>>
    \/ /\ kind = "receipt"
       /\ receipts' = [receipts EXCEPT ![r] = @ \cup {arg}]
       /\ UNCHANGED <<run, active, inbox, outbox, count, owner, delivery, acked>>
    \/ /\ kind = "settle"
       /\ delivery' = [delivery EXCEPT ![r].phase =
                          IF arg = "confirmed" THEN "Delivered" ELSE "OutcomeUnknown"]
       /\ outbox' = IF arg = "confirmed" THEN [outbox EXCEPT ![r] = 0] ELSE outbox
       /\ UNCHANGED <<run, active, inbox, count, owner, receipts, acked>>

(* A caller starts an operation; the worker has read.                      *)
Call(c, kind, r, arg, at) ==
    /\ pc' = [pc EXCEPT ![c] = at]
    /\ op' = [op EXCEPT ![c] = [kind |-> kind, run |-> r, arg |-> arg,
                                seen |-> Compared(kind, r, arg),
                                ret |-> Reads(kind, r, arg), got |-> run[r]]]
    /\ UNCHANGED database

(* The worker answers, or reads again.                                     *)
Replies(c, seen, ret, got) ==
    op' = [op EXCEPT ![c] = [kind |-> op[c].kind, run |-> op[c].run, arg |-> op[c].arg,
                             seen |-> seen, ret |-> ret, got |-> got]]

Answer(c, ret) == Replies(c, <<>>, ret, op[c].got)

Unchanged(c) ==
    /\ op[c].seen = Compared(op[c].kind, op[c].run, op[c].arg)
    /\ (op[c].kind = "finish" \/ (op[c].kind = "cancel" /\ run[op[c].run].phase = "Queued"))
          => outbox[op[c].run] = 0

Commits(c) ==
    /\ op[c].ret = "pending"
    /\ ~fence /\ Unchanged(c)
    /\ Writes(op[c].kind, op[c].run, op[c].arg)
    /\ Replies(c, <<>>, "ok", run'[op[c].run])
    /\ UNCHANGED <<process, pc, executed, sent>>

(* CommitUnknown, or a worker that panics before or after its commit.      *)
CommitUnknown(c) ==
    /\ op[c].ret = "pending"
    /\ ~fence
    /\ fence' = TRUE
    /\ \/ Unchanged(c) /\ Writes(op[c].kind, op[c].run, op[c].arg)
       \/ UNCHANGED <<database, acked>>
    /\ Answer(c, "failed")
    /\ UNCHANGED <<mode, storageFailed, token, crashes, pc, executed, sent>>

(* Fenced, or refused by storage.                                          *)
CommitFails(c) ==
    /\ op[c].ret = "pending"
    /\ Answer(c, "failed")
    /\ UNCHANGED <<database, process, pc, history>>

(* A compared record changed: some operations read again, up to 32 times.  *)
Conflicts(c) ==
    /\ op[c].ret = "pending"
    /\ ~fence /\ ~Unchanged(c)
    /\ \/ /\ op[c].kind \in {"admit", "bind", "cancel", "finish", "reserve"}
          /\ Replies(c, Compared(op[c].kind, op[c].run, op[c].arg),
                     Reads(op[c].kind, op[c].run, op[c].arg), run[op[c].run])
       \/ Answer(c, IF op[c].kind = "deliver" THEN "existing" ELSE "conflict")
    /\ UNCHANGED <<database, process, pc, history>>

Worker(c) == Commits(c) \/ CommitUnknown(c) \/ CommitFails(c) \/ Conflicts(c)

---------------------------------------------------------------------------
(* Host tasks.  A store call that answers an error ends most of them; once *)
(* a run is claimed the error also closes the ingress (storageFailed).     *)

Host(h) == op[h].run
Got(h) == op[h].got
Returned(h, at, rets) == pc[h] = at /\ op[h].ret \in rets
Errors == {"conflict", "failed"}

(* The host keeps nothing but the run it worked on.                        *)
Ends(h) ==
    /\ pc' = [pc EXCEPT ![h] = "ended"]
    /\ op' = [op EXCEPT ![h] = NoOp]
    /\ UNCHANGED database

Quiet == UNCHANGED <<process, history>>

(* run_channel_message() and gateway_submit(), past their gates.           *)
Submit(h) ==
    /\ pc[h] = "idle"
    /\ mode = "open" /\ ~fence /\ ~storageFailed
    /\ \E r \in Runs : Call(h, "admit", r, 0, "admit")
    /\ Quiet

(* A queued run is claimed, unless configuration changed or the ingress    *)
(* closed meanwhile.                                                       *)
Admitted(h) ==
    /\ Returned(h, "admit", {"ok"})
    /\ \/ /\ Got(h).phase = "Queued"
          /\ Host(h) \in GatewayRuns => ~storageFailed
          /\ Call(h, "claim", Host(h), 0, "claim")
       \/ Got(h).phase = "Queued" /\ Ends(h)
       \/ Got(h).phase # "Queued" /\ Host(h) \in GatewayRuns /\ Ends(h)
    /\ Quiet

(* A channel message that already has its answer goes on to the delivery.  *)
Answered(h, at) ==
    /\ Returned(h, at, {"ok"})
    /\ Host(h) \in ChannelRuns
    /\ Got(h).phase # "Queued"
    /\ \/ /\ Got(h).phase = "Finished" /\ Got(h).result = "completed"
          /\ Call(h, "deliver", Host(h), Got(h).rev, "deliver")
       \/ /\ Got(h).result # "completed" /\ (at = "finish" => Got(h).result # "null")
          /\ Ends(h)
    /\ Quiet

Refused(h) ==
    /\ Returned(h, "admit", Errors)
    /\ Ends(h) /\ Quiet

(* The claim is the permission to execute; a gateway host that cannot tell *)
(* whether it has it closes the ingress.                                   *)
ClaimRefused(h) ==
    /\ Returned(h, "claim", Errors)
    /\ Ends(h)
    /\ storageFailed' = (storageFailed \/ (Host(h) \in GatewayRuns /\ op[h].ret = "failed"))
    /\ UNCHANGED <<mode, fence, token, crashes, history>>

(* A channel message is processed as a whole before its result is stored.  *)
ExecuteChannel(h) ==
    /\ Returned(h, "claim", {"ok"})
    /\ Host(h) \in ChannelRuns
    /\ executed' = [executed EXCEPT ![Host(h)] = @ + 1]
    /\ \E result \in {"completed", "null", "outcome_unknown"} :
          Call(h, "finish", Host(h), result, "finish")
    /\ UNCHANGED <<process, sent, acked>>

(* A gateway run starts a turn and binds it, or fails to start one.        *)
ExecuteGateway(h) ==
    /\ Returned(h, "claim", {"ok"})
    /\ Host(h) \in GatewayRuns
    /\ \/ /\ executed' = [executed EXCEPT ![Host(h)] = @ + 1]
          /\ Call(h, "bind", Host(h), 0, "bind")
       \/ /\ Call(h, "finish", Host(h), "failed", "finish")
          /\ UNCHANGED executed
    /\ UNCHANGED <<process, sent, acked>>

(* During its turn a host remembers its run.                               *)
Idle(h) == op' = [op EXCEPT ![h] = [NoOp EXCEPT !.run = Host(h)]]

(* Mutant: a cancellation found at the binding is ignored.                 *)
BoundDeaf(h) ==
    /\ pc[h] = "bind" /\ op[h].ret \in {"ok"} \cup Errors
    /\ pc' = [pc EXCEPT ![h] = "turn"]
    /\ Idle(h)
    /\ storageFailed' = (storageFailed \/ op[h].ret # "ok")
    /\ token' = IF op[h].ret # "ok" THEN token \cup {Host(h)} ELSE token
    /\ UNCHANGED <<database, mode, fence, crashes, history>>

(* The turn is cancelled if the binding failed or finds a cancellation.    *)
Bound(h) ==
    /\ pc[h] = "bind" /\ op[h].ret \in {"ok"} \cup Errors
    /\ pc' = [pc EXCEPT ![h] = "turn"]
    /\ Idle(h)
    /\ storageFailed' = (storageFailed \/ op[h].ret # "ok")
    /\ token' = IF op[h].ret # "ok" \/ Got(h).cancel = "yes"
                   THEN token \cup {Host(h)} ELSE token
    /\ UNCHANGED <<database, mode, fence, crashes, history>>

(* The turn ends, one way or the other.                                    *)
TurnEnds(h) ==
    /\ pc[h] = "turn"
    /\ \E result \in {"completed", "cancelled", "failed", "outcome_unknown"} :
          Call(h, "finish", Host(h), result, "finish")
    /\ Quiet

(* An error after the claim closes the ingress until a restart.            *)
FinishFails(h) ==
    /\ Returned(h, "finish", Errors) \/ Returned(h, "ack", Errors)
    /\ Ends(h)
    /\ storageFailed' = TRUE
    /\ UNCHANGED <<mode, fence, token, crashes, history>>

(* A message without a reply acknowledges its own result.                  *)
Finished(h) ==
    /\ \/ /\ Returned(h, "finish", {"ok"})
          /\ Host(h) \in ChannelRuns /\ Got(h).result = "null"
          /\ Call(h, "ack", Host(h), Got(h).rev, "ack")
       \/ /\ Returned(h, "finish", {"ok"})
          /\ Host(h) \in GatewayRuns
          /\ Ends(h)
       \/ Returned(h, "ack", {"ok"}) /\ Ends(h)
    /\ Quiet

---------------------------------------------------------------------------
(* The delivery of a reply: claim_channel_delivery() and                   *)
(* send_discord_reply_once().                                              *)

NotMine(h) == Returned(h, "deliver", {"existing"} \cup Errors) /\ Ends(h) /\ Quiet

(* Sends one segment: acknowledged, not acknowledged, or not even sent.    *)
Send(h, segment) ==
    \/ /\ sent' = [sent EXCEPT ![Host(h)][segment] = @ + 1]
       /\ \/ Call(h, "receipt", Host(h), segment, "receipt")
          \/ Call(h, "settle", Host(h), "unconfirmed", "settle")
       /\ UNCHANGED <<process, executed, acked>>
    \/ Call(h, "settle", Host(h), "unconfirmed", "settle") /\ Quiet

FirstSegment(h) == Returned(h, "deliver", {"ok"}) /\ Send(h, 1)

(* The next segment only goes out once the receipt is stored.              *)
Receipt(h) ==
    \/ /\ Returned(h, "receipt", {"ok"})
       /\ IF op[h].arg < MaxSegments THEN Send(h, op[h].arg + 1)
          ELSE Call(h, "settle", Host(h), "confirmed", "settle") /\ Quiet
    \/ /\ Returned(h, "receipt", Errors)
       /\ Call(h, "settle", Host(h), "unconfirmed", "settle") /\ Quiet

Settled(h) == Returned(h, "settle", {"ok"} \cup Errors) /\ Ends(h) /\ Quiet

(* The dispatching task, which only waits for the run, may be dropped; a   *)
(* store operation under way goes on.                                      *)
Dropped(h) ==
    /\ pc[h] \in {"deliver", "receipt", "settle"}
    /\ pc' = [pc EXCEPT ![h] = "ended"]
    /\ UNCHANGED <<database, process, op, history>>

---------------------------------------------------------------------------
(* Connections.                                                            *)

(* gateway_abort() of a run that has no result yet.                        *)
CancelRun(c) ==
    /\ pc[c] = "idle" /\ mode = "open"
    /\ \E r \in GatewayRuns :
          run[r] # NoRun /\ run[r].result = "none" /\ Call(c, "cancel", r, 0, "cancel")
    /\ Quiet

(* A bound turn is cancelled, if it is still the current one.              *)
CancelReturns(c) ==
    /\ Returned(c, "cancel", {"ok"} \cup Errors)
    /\ token' = IF op[c].ret = "ok" /\ Got(c).turn = "bound"
                   THEN token \cup {op[c].run} ELSE token
    /\ pc' = [pc EXCEPT ![c] = "idle"]
    /\ op' = [op EXCEPT ![c] = NoOp]
    /\ UNCHANGED <<database, mode, fence, storageFailed, crashes, history>>

(* A client acknowledges some revision it has seen.                        *)
Acknowledge(c) ==
    /\ pc[c] = "idle" /\ mode = "open"
    /\ \E r \in GatewayRuns : \E rev \in 1 .. run[r].rev : Call(c, "ack", r, rev, "call")
    /\ Quiet

(* reserve_legacy_session() of the session a run would use.                *)
Reserve(c) ==
    /\ pc[c] = "idle" /\ mode = "open"
    /\ \E r \in Runs : owner[r] = None /\ Call(c, "reserve", r, 0, "call")
    /\ Quiet

ClientReturns(c) ==
    /\ Returned(c, "call", {"ok"} \cup Errors)
    /\ pc' = [pc EXCEPT ![c] = "idle"]
    /\ op' = [op EXCEPT ![c] = NoOp]
    /\ UNCHANGED database /\ Quiet

---------------------------------------------------------------------------
(* Crash, and DurableStateStore::open().                                   *)

Crash ==
    /\ crashes < MaxCrashes
    /\ crashes' = crashes + 1
    /\ mode' = "runs" /\ fence' = FALSE /\ storageFailed' = FALSE /\ token' = {}
    /\ pc' = [c \in Callers |-> IF c \in Hosts /\ pc[c] # "idle" THEN "ended" ELSE "idle"]
    /\ op' = [c \in Callers |-> NoOp]
    /\ UNCHANGED <<database, history>>

(* recover_interrupted(): claimed runs end with an unknown outcome.        *)
RecoverRun(r) ==
    /\ mode = "runs"
    /\ r \in active /\ run[r].phase = "Executing" /\ outbox[r] = 0
    /\ FinishChanges(r, [Revised(r) EXCEPT !.phase = "OutcomeUnknown",
                                         !.result = "outcome_unknown"])
    /\ UNCHANGED <<count, owner, delivery, receipts, process, pc, op, history>>

RunsRecovered ==
    /\ mode = "runs"
    /\ \A r \in active : run[r].phase = "Queued"
    /\ inbox' = inbox \cup active
    /\ mode' = "deliveries"
    /\ UNCHANGED <<run, active, outbox, count, owner, delivery, receipts, fence,
                   storageFailed, token, crashes, pc, op, history>>

(* recover_deliveries(): a reply that was being sent may have gone out.    *)
RecoverDelivery(r) ==
    /\ mode = "deliveries"
    /\ delivery[r].phase = "Sending"
    /\ run[r].phase = "Finished" /\ run[r].rev = delivery[r].rev
    /\ delivery' = [delivery EXCEPT ![r].phase = "OutcomeUnknown"]
    /\ UNCHANGED <<run, active, inbox, outbox, count, owner, receipts, process, pc, op,
                   history>>

Open ==
    /\ mode = "deliveries"
    /\ \A r \in Runs : delivery[r] # NoDelivery =>
          /\ delivery[r].phase # "Sending"
          /\ run[r].phase = "Finished" /\ run[r].rev = delivery[r].rev
    /\ mode' = "open"
    /\ UNCHANGED <<database, fence, storageFailed, token, crashes, pc, op, history>>

---------------------------------------------------------------------------
HostStep(h) ==
    \/ Submit(h) \/ Admitted(h) \/ Refused(h) \/ ClaimRefused(h) \/ ExecuteChannel(h)
    \/ ExecuteGateway(h) \/ Bound(h) \/ TurnEnds(h) \/ FinishFails(h) \/ Finished(h)
    \/ Answered(h, "admit") \/ Answered(h, "finish") \/ NotMine(h) \/ FirstSegment(h)
    \/ Receipt(h) \/ Settled(h) \/ Dropped(h)

ClientStep(c) ==
    CancelRun(c) \/ CancelReturns(c) \/ Acknowledge(c) \/ Reserve(c) \/ ClientReturns(c)

Next ==
    \/ \E h \in Hosts : HostStep(h)
    \/ \E c \in Clients : ClientStep(c)
    \/ \E c \in Callers : Worker(c)
    \/ \E r \in Runs : RecoverRun(r) \/ RecoverDelivery(r)
    \/ RunsRecovered \/ Open \/ Crash

Spec == Init /\ [][Next]_vars

---------------------------------------------------------------------------
(* Properties.                                                             *)

(* Types; never are more runs retained than the quota allows.              *)
TypeOK ==
    /\ \A r \in Runs : run[r] = NoRun \/ run[r] \in DurableRun
    /\ active \subseteq Runs /\ inbox \subseteq Runs
    /\ outbox \in [Runs -> Nat] /\ owner \in [Runs -> Runs \cup {None, "legacy"}]
    /\ count \in 0 .. MaxRetainedRuns
    /\ delivery \in [Runs -> [phase : DeliveryPhase, rev : Nat]]
    /\ receipts \in [Runs -> SUBSET Segments]
    /\ mode \in {"open", "runs", "deliveries"} /\ fence \in BOOLEAN
    /\ storageFailed \in BOOLEAN /\ token \subseteq Runs /\ acked \subseteq Runs

(* External work for a run starts at most once, and while the record says  *)
(* so: never for a run that was cancelled in the queue or given up by a    *)
(* recovery, whatever is redelivered, lost or restarted.                   *)
ExecutedOnce ==
    [][\A r \in Runs :
          executed'[r] # executed[r] => executed[r] = 0 /\ run[r].phase = "Executing"]_vars

(* No segment of a reply goes out twice.                                   *)
SegmentsSentOnce == \A r \in Runs : \A i \in Segments : sent[r][i] <= 1

(* A reply counts as delivered when every segment has its receipt.         *)
DeliveredIsReceipted ==
    \A r \in Runs : delivery[r].phase = "Delivered" => receipts[r] = Segments

(* A result stays announced until it was delivered, or acknowledged at its *)
(* own revision.                                                           *)
ResultStaysPending ==
    \A r \in Runs :
        run[r].phase \in Terminal
            => outbox[r] = run[r].rev \/ r \in acked \/ delivery[r].phase = "Delivered"

(* At no point would the database, found as it is, refuse to be reopened:  *)
(* recover_interrupted() and recover_deliveries() find what they expect.   *)
ReopenSucceeds ==
    \A r \in Runs :
        /\ r \in active => run[r].phase \in {"Queued", "Executing"} /\ outbox[r] = 0
        /\ delivery[r] # NoDelivery
              => run[r].phase = "Finished" /\ run[r].rev = delivery[r].rev

(* The indexes tell the truth about the runs: what is active is listed for *)
(* its owner, and the retained count counts and never passes the quota,    *)
(* however many admissions read it at its limit.                           *)
IndexesAgree ==
    /\ active = {r \in Runs : run[r].phase \in {"Queued", "Executing"}}
    /\ inbox = active
    /\ count = Cardinality({r \in Runs : run[r] # NoRun}) /\ count <= MaxRetainedRuns
    /\ \A r \in Runs : run[r] # NoRun => owner[r] = r

(* A terminal run never changes: neither a late host, a cancellation nor   *)
(* recovery replaces a result that somebody may have read.                 *)
TerminalIsFinal ==
    [][\A r \in Runs : run[r].phase \in Terminal => run'[r] = run[r]]_vars

(* A cancellation that is on record reaches the turn: from the abort if    *)
(* the turn was bound before, from the binding otherwise.                  *)
CancelReachesTurn ==
    \A h \in Hosts :
        pc[h] = "turn" /\ run[Host(h)].cancel = "yes" /\ ~fence
            => \/ Host(h) \in token
               \/ \E c \in Clients : pc[c] = "cancel" /\ op[c].run = Host(h)
=============================================================================
