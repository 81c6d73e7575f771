------------------------ MODULE DurableRunsProofs ------------------------
(***************************************************************************)
(* Proofs, for any set of runs, hosts and clients, any quota and any       *)
(* number of segments and crashes.                                         *)
(*                                                                         *)
(* First: external work for a run starts at most once, a terminal run      *)
(* never changes, and the database can be reopened at any point.  None of  *)
(* these is inductive.  What an operation read has to be related to what   *)
(* it finds at its commit (PendingOps), and the permission to execute has  *)
(* to be followed from the committed claim to the committed result: at     *)
(* most one host holds it, and while one does the record says Executing    *)
(* (Holders).                                                              *)
(*                                                                         *)
(* Second, on top of that: the quota and the indexes, the announcement of  *)
(* results, replies sent once and confirmed once every receipt is stored,  *)
(* and cancellations that reach their turn (EInv).  A delivery has one     *)
(* sender, which knows how far it got (Senders); what a commit needs and   *)
(* does not compare again, nothing takes back (Reliances); a cancellation  *)
(* on record is known to the turn, or to a client that will tell it, or to *)
(* the binding that has not looked yet (Cancels).                          *)
(***************************************************************************)
EXTENDS DurableRuns, FiniteSetTheorems, TLAPS

Kinds == {"admit", "claim", "bind", "cancel", "finish", "ack", "deliver", "receipt",
          "settle", "reserve"}
RunKinds == {"admit", "claim", "bind", "cancel", "finish"}
DeliveryKinds == {"deliver", "receipt", "settle"}

RunRecord == [phase : RunPhase \cup {"absent"}, cancel : {"no", "yes"},
              turn : {"none", "bound"}, result : RunResult, rev : Nat]

Types ==
    /\ run \in [Runs -> RunRecord]
    /\ outbox \in [Runs -> Nat]
    /\ delivery \in [Runs -> [phase : DeliveryPhase, rev : Nat]]
    /\ executed \in [Runs -> Nat]
    /\ pc = [c \in Callers |-> pc[c]]
    /\ op = [c \in Callers |-> op[c]]

(* What the records of one run say about each other.                       *)
Records ==
    \A r \in Runs :
        /\ r \in active => run[r].phase \in {"Queued", "Executing"}
        /\ outbox[r] # 0 => run[r].phase \in Terminal
        /\ run[r].phase \in Terminal => run[r].result # "none"
        /\ delivery[r] # NoDelivery
              => run[r].phase = "Finished" /\ run[r].rev = delivery[r].rev

(* What a caller that is about to commit has read.                         *)
HasRead(kind, r, arg, x) ==
    /\ kind \in Kinds /\ r \in Runs
    /\ kind = "admit" => x = NoRun
    /\ kind = "claim" => x.phase = "Queued"
    /\ kind = "bind" => x.phase = "Executing"
    /\ kind = "cancel" => x.result = "none"
    /\ kind = "finish" => x.phase = "Executing" /\ arg \in RunResult \ {"none"}
    /\ kind = "deliver" => run[r].phase = "Finished" /\ run[r].rev = arg
    /\ kind \in {"receipt", "settle"} => x.phase = "Sending"

PendingOp(c) ==
    op[c].ret = "pending" => HasRead(op[c].kind, op[c].run, op[c].arg, op[c].seen[1])

PendingOps == \A c \in Callers : PendingOp(c)

(* Which caller an operation on an execution belongs to.                   *)
ExecutionKinds == {"claim", "bind", "finish"}

CallerOf(c) ==
    /\ op[c].ret = "pending" /\ op[c].kind \in ExecutionKinds
          => c \in Hosts /\ pc[c] = op[c].kind
    /\ pc[c] \in ExecutionKinds => op[c].kind = pc[c]
    /\ pc[c] \notin {"idle", "ended"} => op[c].run \in Runs
    /\ mode # "open" => op[c] = NoOp /\ pc[c] \in {"idle", "ended"}

Claimed(h) == pc[h] = "claim" /\ op[h].ret = "ok"

(* The hosts that may execute a run, or have executed it and not yet       *)
(* stored its result.                                                      *)
Holds(h) ==
    \/ Claimed(h)
    \/ pc[h] \in {"bind", "turn"}
    \/ pc[h] = "finish" /\ op[h].ret = "pending"

Holders ==
    /\ \A h \in Hosts : Holds(h) => run[Host(h)].phase = "Executing"
    /\ \A g, h \in Hosts : Holds(g) /\ Holds(h) /\ Host(g) = Host(h) => g = h
    /\ \A r \in Runs : executed[r] # 0 => run[r].phase \notin {"absent", "Queued"}
    /\ \A h \in Hosts : Claimed(h) => executed[Host(h)] = 0

DInv ==
    /\ Types
    /\ Records
    /\ PendingOps
    /\ \A c \in Callers : CallerOf(c)
    /\ Holders

---------------------------------------------------------------------------
(* The empty store and idle callers satisfy the invariant.                 *)
LEMMA InitDInv == Init => DInv
<1> SUFFICES ASSUME Init PROVE DInv
  OBVIOUS
<1> USE DEF Init, NoOp, NoRun, NoDelivery
<1>1. Types
  <2>1. run \in [Runs -> RunRecord] BY DEF RunRecord, RunPhase, RunResult
  <2>2. delivery \in [Runs -> [phase : DeliveryPhase, rev : Nat]] BY DEF DeliveryPhase
  <2>3. op = [c \in Callers |-> op[c]] OBVIOUS
  <2>4. pc = [c \in Callers |-> pc[c]] /\ outbox \in [Runs -> Nat] /\ executed \in [Runs -> Nat]
    OBVIOUS
  <2> QED BY <2>1, <2>2, <2>3, <2>4 DEF Types
<1>2. Records /\ PendingOps
  BY DEF Records, PendingOps, PendingOp, Terminal
<1>3. \A c \in Callers : CallerOf(c)
  BY DEF CallerOf, ExecutionKinds, Callers
<1>4. Holders
  BY DEF Holders, Holds, Claimed, Host, Callers
<1> QED BY <1>1, <1>2, <1>3, <1>4 DEF DInv

---------------------------------------------------------------------------
(* What the first compared record is.                                      *)
LEMMA ComparedFirst ==
    ASSUME NEW kind \in Kinds, NEW r \in Runs, NEW arg
    PROVE  /\ kind \in RunKinds => Compared(kind, r, arg)[1] = run[r]
           /\ kind \in DeliveryKinds => Compared(kind, r, arg)[1] = delivery[r]
<1>1. CASE kind = "admit" BY <1>1 DEF Compared, AdmitCompared, RunKinds, DeliveryKinds
<1>2. CASE kind = "claim" BY <1>2 DEF Compared, ClaimCompared, RunKinds, DeliveryKinds
<1>3. CASE kind \in {"bind", "cancel", "finish"} BY <1>3 DEF Compared, RunKinds, DeliveryKinds
<1>4. CASE kind \in {"deliver", "receipt"} BY <1>4 DEF Compared, RunKinds, DeliveryKinds
<1>5. CASE kind = "settle"
  <2>1. CASE arg = "confirmed" BY <1>5, <2>1 DEF Compared, RunKinds, DeliveryKinds
  <2>2. CASE arg # "confirmed" BY <1>5, <2>2 DEF Compared, RunKinds, DeliveryKinds
  <2> QED BY <2>1, <2>2
<1>6. CASE kind \in {"ack", "reserve"} BY <1>6 DEF RunKinds, DeliveryKinds
<1> QED BY <1>1, <1>2, <1>3, <1>4, <1>5, <1>6 DEF Kinds

(* An operation that goes on to commit has read what it needs.             *)
LEMMA ReadsSuffice ==
    ASSUME NEW kind \in Kinds, NEW r \in Runs, NEW arg, Types, Records,
           kind = "finish" => arg \in RunResult \ {"none"},
           Reads(kind, r, arg) = "pending"
    PROVE  HasRead(kind, r, arg, Compared(kind, r, arg)[1])
<1> USE ComparedFirst DEF HasRead, RunKinds, DeliveryKinds, Kinds
<1>1. CASE kind = "admit" BY <1>1 DEF Reads, AdmitReads
<1>2. CASE kind = "claim" BY <1>2 DEF Reads, ClaimReads
<1>3. CASE kind = "bind" BY <1>3 DEF Reads, BindReads
<1>4. CASE kind = "cancel" BY <1>4 DEF Reads, CancelReads
<1>5. CASE kind = "finish" BY <1>5 DEF Reads, FinishReads
<1>6. CASE kind \in {"ack", "reserve"} BY <1>6
<1>7. CASE kind = "deliver" BY <1>7 DEF Reads, DeliverReads
<1>8. CASE kind = "receipt" BY <1>8 DEF Reads, ReceiptReads
<1>9. CASE kind = "settle" BY <1>9 DEF Reads, SettleReads
<1> QED BY <1>1, <1>2, <1>3, <1>4, <1>5, <1>6, <1>7, <1>8, <1>9

---------------------------------------------------------------------------
(* A step that leaves the database alone, moves one caller to "at" with    *)
(* the operation "o", and starts external work only where it is allowed.   *)
LEMMA CallerMoves ==
    ASSUME DInv, NEW c \in Callers, NEW at, NEW o,
           UNCHANGED <<run, active, outbox, delivery, mode>>,
           pc' = [pc EXCEPT ![c] = at], op' = [op EXCEPT ![c] = o],
           mode = "open",
           o.ret = "pending" => HasRead(o.kind, o.run, o.arg, o.seen[1]),
           o.ret = "pending" /\ o.kind \in ExecutionKinds => c \in Hosts /\ at = o.kind,
           at \in ExecutionKinds => o.kind = at,
           at \notin {"idle", "ended"} => o.run \in Runs,
           at = "claim" => o.ret # "ok",
           at \in {"bind", "turn"} \/ (at = "finish" /\ o.ret = "pending")
              => Holds(c) /\ o.run = Host(c),
           \/ executed' = executed
           \/ /\ c \in Hosts /\ Claimed(c)
              /\ executed' = [executed EXCEPT ![Host(c)] = @ + 1]
    PROVE  DInv'
<1> USE DEF DInv
<1>1. op'[c] = o /\ pc'[c] = at
  BY DEF Types
<1>2. \A d \in Callers : d # c => op'[d] = op[d] /\ pc'[d] = pc[d]
  BY DEF Types
<1>3. Types'
  <2>1. c \in Hosts /\ Claimed(c) => Host(c) \in Runs
    BY DEF CallerOf, Claimed, ExecutionKinds, Host
  <2>2. executed' \in [Runs -> Nat]
    BY <2>1 DEF Types
  <2>3. op' = [d \in Callers |-> op'[d]] /\ pc' = [d \in Callers |-> pc'[d]]
    BY DEF Types
  <2> QED BY <2>2, <2>3 DEF Types
<1>4. Records'
  BY DEF Records
<1>5. PendingOps'
  <2> SUFFICES ASSUME NEW d \in Callers PROVE PendingOp(d)'
    BY DEF PendingOps
  <2>1. CASE d = c BY <2>1, <1>1 DEF HasRead, PendingOp
  <2>2. CASE d # c BY <2>2, <1>2 DEF HasRead, PendingOps, PendingOp
  <2> QED BY <2>1, <2>2
<1>6. \A d \in Callers : CallerOf(d)'
  <2> SUFFICES ASSUME NEW d \in Callers PROVE CallerOf(d)'
    OBVIOUS
  <2>1. CASE d = c BY <2>1, <1>1 DEF CallerOf
  <2>2. CASE d # c BY <2>2, <1>2 DEF CallerOf
  <2> QED BY <2>1, <2>2
<1>7. Holders'
  <2>1. \A h \in Hosts : Holds(h)' => Holds(h) /\ Host(h)' = Host(h)
    <3> SUFFICES ASSUME NEW h \in Hosts, Holds(h)' PROVE Holds(h) /\ Host(h)' = Host(h)
      OBVIOUS
    <3>1. CASE h = c BY <3>1, <1>1 DEF Holds, Claimed, Host, Callers
    <3>2. CASE h # c BY <3>2, <1>2 DEF Holds, Claimed, Host, Callers
    <3> QED BY <3>1, <3>2
  <2>2. \A h \in Hosts : Claimed(h)' => Claimed(h) /\ h # c
    <3> SUFFICES ASSUME NEW h \in Hosts, Claimed(h)' PROVE Claimed(h) /\ h # c
      OBVIOUS
    <3>1. h # c BY <1>1 DEF Claimed
    <3> QED BY <3>1, <1>2 DEF Claimed, Callers
  <2>3. \A r \in Runs : executed'[r] # 0 => run[r].phase \notin {"absent", "Queued"}
    <3> SUFFICES ASSUME NEW r \in Runs, executed'[r] # executed[r]
                 PROVE  run[r].phase = "Executing"
      BY DEF Holders
    <3>1. c \in Hosts /\ Claimed(c) /\ r = Host(c) BY DEF Types
    <3> QED BY <3>1 DEF Holders, Holds
  <2>4. ASSUME NEW h \in Hosts, Claimed(h)' PROVE executed'[Host(h)] = 0
    <3>1. Claimed(h) /\ h # c /\ executed[Host(h)] = 0 BY <2>2, <2>4 DEF Holders
    <3>2. Host(h) \in Runs BY <3>1 DEF CallerOf, Claimed, ExecutionKinds, Host, Callers
    <3>3. c \in Hosts /\ Claimed(c) => Host(c) # Host(h) BY <3>1 DEF Holders, Holds
    <3> QED BY <3>1, <3>2, <3>3 DEF Types
  <2>5. \A h \in Hosts : Claimed(h)' => executed'[Host(h)'] = 0
    BY <2>1, <2>2, <2>4 DEF Holds
  <2> QED BY <2>1, <2>3, <2>5 DEF Holders
<1> QED BY <1>3, <1>4, <1>5, <1>6, <1>7

(* A caller that starts a store operation.                                 *)
LEMMA Calls ==
    ASSUME DInv, NEW c \in Callers, NEW kind \in Kinds, NEW r \in Runs, NEW arg, NEW at,
           Call(c, kind, r, arg, at), mode = "open", UNCHANGED mode,
           kind = "finish" => arg \in RunResult \ {"none"},
           kind \in ExecutionKinds => c \in Hosts /\ at = kind,
           at \in ExecutionKinds => kind = at,
           at # "turn",
           kind \in {"bind", "finish"} => Holds(c) /\ r = Host(c),
           \/ executed' = executed
           \/ /\ c \in Hosts /\ Claimed(c)
              /\ executed' = [executed EXCEPT ![Host(c)] = @ + 1]
    PROVE  DInv'
<1> DEFINE o == [kind |-> kind, run |-> r, arg |-> arg, seen |-> Compared(kind, r, arg),
                 ret |-> Reads(kind, r, arg), got |-> run[r]]
<1>1. pc' = [pc EXCEPT ![c] = at] /\ op' = [op EXCEPT ![c] = o]
  BY DEF Call
<1>2. /\ o.kind = kind /\ o.run = r /\ o.arg = arg /\ o.seen = Compared(kind, r, arg)
      /\ o.ret = Reads(kind, r, arg)
  OBVIOUS
<1>4. o.ret = "pending" => HasRead(o.kind, o.run, o.arg, o.seen[1])
  BY <1>2, ReadsSuffice DEF DInv
<1>5. UNCHANGED <<run, active, outbox, delivery, mode>>
  BY DEF Call, database
<1>6. at = "claim" => o.ret # "ok"
  BY <1>2 DEF Reads, ClaimReads, ExecutionKinds
<1> HIDE DEF o
<1>7. at \in {"bind", "turn"} \/ (at = "finish" /\ o.ret = "pending")
         => Holds(c) /\ o.run = Host(c)
  BY <1>2 DEF ExecutionKinds
<1> QED BY <1>1, <1>2, <1>4, <1>5, <1>6, <1>7, CallerMoves

(* A caller that is done.                                                  *)
LEMMA Returns ==
    ASSUME DInv, NEW c \in Callers, NEW at \in {"idle", "ended"},
           pc' = [pc EXCEPT ![c] = at], op' = [op EXCEPT ![c] = NoOp],
           pc[c] \notin {"idle", "ended"},
           UNCHANGED <<database, mode, executed>>
    PROVE  DInv'
<1>1. mode = "open"
  BY DEF DInv, CallerOf
<1>2. NoOp.ret = "none"
  BY DEF NoOp
<1>3. UNCHANGED <<run, active, outbox, delivery, mode>>
  BY DEF database
<1> QED BY <1>1, <1>2, <1>3, CallerMoves DEF ExecutionKinds

---------------------------------------------------------------------------
(* Every step of a host keeps the invariant.                               *)
LEMMA HostSteps ==
    ASSUME DInv, NEW h \in Hosts, HostStep(h)
    PROVE  DInv'
<1> USE DEF Quiet, process, history, Returned
<1>0. h \in Callers
  BY DEF Callers
<1>1. pc[h] \notin {"idle", "ended"} => mode = "open" /\ Host(h) \in Runs
  BY <1>0 DEF DInv, CallerOf, Host
<1>2. ASSUME Ends(h), pc[h] \notin {"idle", "ended"}, UNCHANGED <<mode, executed>> PROVE DInv'
  BY <1>0, <1>2, Returns DEF Ends
<1>3. CASE Submit(h)
  BY <1>3, <1>0, Calls DEF Submit, Kinds, ExecutionKinds
<1>4. CASE Admitted(h)
  <2>1. CASE Call(h, "claim", Host(h), 0, "claim")
    BY <1>4, <2>1, <1>0, <1>1, Calls DEF Admitted, Kinds, ExecutionKinds
  <2> QED BY <1>4, <2>1, <1>2 DEF Admitted
<1>5. CASE Refused(h)
  BY <1>5, <1>2 DEF Refused
<1>6. CASE ClaimRefused(h)
  BY <1>6, <1>2 DEF ClaimRefused
<1>7. CASE ExecuteChannel(h)
  <2>1. Claimed(h) /\ Holds(h)
    BY <1>7 DEF ExecuteChannel, Claimed, Holds
  <2>2. PICK result \in {"completed", "null", "outcome_unknown"} :
           Call(h, "finish", Host(h), result, "finish")
    BY <1>7 DEF ExecuteChannel
  <2>3. result \in RunResult \ {"none"}
    BY DEF RunResult
  <2> QED BY <1>7, <2>1, <2>2, <2>3, <1>0, <1>1, Calls DEF ExecuteChannel, Kinds, ExecutionKinds
<1>8. CASE ExecuteGateway(h)
  <2>1. Claimed(h) /\ Holds(h)
    BY <1>8 DEF ExecuteGateway, Claimed, Holds
  <2>2. CASE Call(h, "bind", Host(h), 0, "bind")
    BY <1>8, <2>1, <2>2, <1>0, <1>1, Calls DEF ExecuteGateway, Kinds, ExecutionKinds
  <2>3. CASE Call(h, "finish", Host(h), "failed", "finish")
    BY <1>8, <2>1, <2>3, <1>0, <1>1, Calls DEF ExecuteGateway, Kinds, ExecutionKinds, RunResult
  <2> QED BY <1>8, <2>2, <2>3 DEF ExecuteGateway
<1>9. CASE Bound(h)
  <2> DEFINE o == [NoOp EXCEPT !.run = Host(h)]
  <2>1. op' = [op EXCEPT ![h] = o] /\ pc' = [pc EXCEPT ![h] = "turn"]
    BY <1>9 DEF Bound, Idle
  <2>2. o.ret = "none" /\ o.run = Host(h)
    BY DEF NoOp
  <2>3. Holds(h) /\ UNCHANGED <<run, active, outbox, delivery, mode, executed>>
    BY <1>9 DEF Bound, Holds, database
  <2> HIDE DEF o
  <2> QED BY <1>9, <2>1, <2>2, <2>3, <1>0, <1>1, CallerMoves DEF Bound, ExecutionKinds
<1>10. CASE TurnEnds(h)
  <2>1. PICK result \in {"completed", "cancelled", "failed", "outcome_unknown"} :
           Call(h, "finish", Host(h), result, "finish")
    BY <1>10 DEF TurnEnds
  <2>2. result \in RunResult \ {"none"} /\ Holds(h)
    BY <1>10 DEF RunResult, TurnEnds, Holds
  <2> QED BY <1>10, <2>1, <2>2, <1>0, <1>1, Calls DEF TurnEnds, Kinds, ExecutionKinds
<1>11. CASE FinishFails(h)
  BY <1>11, <1>2 DEF FinishFails
<1>12. CASE Finished(h)
  <2>1. CASE Call(h, "ack", Host(h), Got(h).rev, "ack")
    BY <1>12, <2>1, <1>0, <1>1, Calls DEF Finished, Kinds, ExecutionKinds
  <2> QED BY <1>12, <2>1, <1>2 DEF Finished
<1>13. ASSUME NEW at \in {"admit", "finish"}, Answered(h, at) PROVE DInv'
  <2>1. CASE Call(h, "deliver", Host(h), Got(h).rev, "deliver")
    BY <1>13, <2>1, <1>0, <1>1, Calls DEF Answered, Kinds, ExecutionKinds
  <2> QED BY <1>13, <2>1, <1>2 DEF Answered
<1>14. CASE NotMine(h)
  BY <1>14, <1>2 DEF NotMine
<1>15. ASSUME NEW segment, NEW result, pc[h] \in {"deliver", "receipt"},
              \/ Call(h, "receipt", Host(h), segment, "receipt")
              \/ Call(h, "settle", Host(h), result, "settle"),
              UNCHANGED <<mode, executed>>
       PROVE  DInv'
  BY <1>15, <1>0, <1>1, Calls DEF Kinds, ExecutionKinds
<1>16. ASSUME NEW segment, pc[h] \in {"deliver", "receipt"}, Send(h, segment) PROVE DInv'
  BY <1>16, <1>15 DEF Send
<1>17. CASE FirstSegment(h)
  BY <1>17, <1>16 DEF FirstSegment
<1>18. CASE Receipt(h)
  BY <1>18, <1>15, <1>16 DEF Receipt
<1>19. CASE Settled(h)
  BY <1>19, <1>2 DEF Settled
<1>20. CASE Dropped(h)
  <2> DEFINE o == op[h]
  <2>1. op' = [op EXCEPT ![h] = o] /\ pc' = [pc EXCEPT ![h] = "ended"]
    BY <1>20 DEF Dropped, DInv, Types
  <2>2. o.ret = "pending" => HasRead(o.kind, o.run, o.arg, o.seen[1]) /\ o.kind \notin ExecutionKinds
    BY <1>0, <1>20 DEF Dropped, DInv, PendingOps, PendingOp, CallerOf, ExecutionKinds
  <2>3. UNCHANGED <<run, active, outbox, delivery, mode, executed>> /\ mode = "open"
    BY <1>20, <1>1 DEF Dropped, database
  <2> HIDE DEF o
  <2> QED BY <2>1, <2>2, <2>3, <1>0, CallerMoves DEF ExecutionKinds
<1> QED BY <1>3, <1>4, <1>5, <1>6, <1>7, <1>8, <1>9, <1>10, <1>11, <1>12, <1>13, <1>14,
           <1>17, <1>18, <1>19, <1>20 DEF HostStep

(* Every step of a client keeps the invariant.                             *)
LEMMA ClientSteps ==
    ASSUME DInv, NEW c \in Clients, ClientStep(c)
    PROVE  DInv'
<1> USE DEF Quiet, process, history, Returned
<1>0. c \in Callers
  BY DEF Callers
<1>1. CASE CancelRun(c)
  <2>1. PICK r \in Runs : Call(c, "cancel", r, 0, "cancel")
    BY <1>1 DEF CancelRun, Runs
  <2> QED BY <1>1, <2>1, <1>0, Calls DEF CancelRun, Kinds, ExecutionKinds
<1>2. CASE CancelReturns(c)
  BY <1>2, <1>0, Returns DEF CancelReturns
<1>3. CASE Acknowledge(c)
  <2>1. PICK r \in Runs : \E rev \in 1 .. run[r].rev : Call(c, "ack", r, rev, "call")
    BY <1>3 DEF Acknowledge, Runs
  <2>2. PICK rev \in 1 .. run[r].rev : Call(c, "ack", r, rev, "call")
    BY <2>1
  <2> QED BY <1>3, <2>2, <1>0, Calls DEF Acknowledge, Kinds, ExecutionKinds
<1>4. CASE Reserve(c)
  <2>1. PICK r \in Runs : Call(c, "reserve", r, 0, "call")
    BY <1>4 DEF Reserve
  <2> QED BY <1>4, <2>1, <1>0, Calls DEF Reserve, Kinds, ExecutionKinds
<1>5. CASE ClientReturns(c)
  BY <1>5, <1>0, Returns DEF ClientReturns
<1> QED BY <1>1, <1>2, <1>3, <1>4, <1>5 DEF ClientStep

---------------------------------------------------------------------------
(* What a commit may do to the records.                                    *)
Effect(kind, r) ==
    /\ run' \in [Runs -> RunRecord]
    /\ outbox' \in [Runs -> Nat]
    /\ delivery' \in [Runs -> [phase : DeliveryPhase, rev : Nat]]
    /\ Records'
    /\ \A q \in Runs : run[q].phase \in Terminal => run'[q] = run[q]
    /\ \A q \in Runs : run[q].phase = "Executing"
          => run'[q].phase = "Executing" \/ (run'[q].phase \in Terminal /\ kind = "finish" /\ q = r)
    /\ kind = "claim" => run[r].phase = "Queued" /\ run'[r].phase = "Executing"

(* A run that ended stays, one that executes ends by "finish" only.        *)
LEMMA WriteEffects ==
    ASSUME Types, Records, NEW kind \in Kinds, NEW r \in Runs, NEW arg,
           HasRead(kind, r, arg, IF kind \in RunKinds THEN run[r] ELSE delivery[r]),
           Writes(kind, r, arg)
    PROVE  Effect(kind, r)
<1> USE DEF Effect
<1>0. run[r] \in RunRecord /\ run[r].rev + 1 \in Nat
  BY DEF Types, RunRecord
<1>1. ASSUME NEW to \in RunRecord, Update(r, to), UNCHANGED delivery,
             kind # "finish", run[r].phase \notin Terminal, to.phase \notin Terminal,
             run[r].phase = "Executing" => to.phase = "Executing",
             r \in active => to.phase \in {"Queued", "Executing"},
             kind = "claim" => run[r].phase = "Queued" /\ to.phase = "Executing"
      PROVE  Effect(kind, r)
  <2>1. run'[r] = to /\ \A q \in Runs : q # r => run'[q] = run[q]
    BY <1>1 DEF Update, Types
  <2>2. run' \in [Runs -> RunRecord] /\ UNCHANGED <<active, outbox, delivery>>
    BY <1>1 DEF Update, Types
  <2>3. Records'
    BY <1>1, <2>1, <2>2 DEF Records, Terminal
  <2> QED BY <1>1, <2>1, <2>2, <2>3 DEF Types
<1>2. ASSUME NEW to \in RunRecord, FinishChanges(r, to), UNCHANGED delivery,
             run[r].phase \notin Terminal, to.phase \in Terminal, to.result # "none",
             run[r].phase = "Executing" => kind = "finish", kind # "claim"
      PROVE  Effect(kind, r)
  <2>1. run'[r] = to /\ outbox'[r] = to.rev /\ to.rev \in Nat
    BY <1>2 DEF FinishChanges, Types, RunRecord
  <2>2. \A q \in Runs : q # r => run'[q] = run[q] /\ outbox'[q] = outbox[q]
    BY <1>2 DEF FinishChanges, Types
  <2>3. run' \in [Runs -> RunRecord] /\ outbox' \in [Runs -> Nat] /\ active' = active \ {r}
    BY <1>2, <2>1 DEF FinishChanges, Types
  <2>4. Records'
    BY <1>2, <2>1, <2>2, <2>3 DEF Records, Terminal
  <2> QED BY <1>2, <2>1, <2>2, <2>3, <2>4 DEF Types
<1>3. CASE kind = "claim"
  <2>1. Update(r, [Revised(r) EXCEPT !.phase = "Executing"]) /\ UNCHANGED delivery
    BY <1>3 DEF Writes, WritesRun
  <2>2. run[r].phase = "Queued"
    BY <1>3 DEF HasRead, RunKinds
  <2>3. /\ [Revised(r) EXCEPT !.phase = "Executing"] \in RunRecord
        /\ [Revised(r) EXCEPT !.phase = "Executing"].phase = "Executing"
    BY <1>0 DEF Revised, RunRecord, RunPhase
  <2> QED BY <1>1, <1>3, <2>1, <2>2, <2>3 DEF Terminal
<1>4. CASE kind = "bind"
  <2>1. Update(r, [Revised(r) EXCEPT !.turn = "bound"]) /\ UNCHANGED delivery
    BY <1>4 DEF Writes, WritesRun
  <2>2. run[r].phase = "Executing"
    BY <1>4 DEF HasRead, RunKinds
  <2>3. /\ [Revised(r) EXCEPT !.turn = "bound"] \in RunRecord
        /\ [Revised(r) EXCEPT !.turn = "bound"].phase = "Executing"
    BY <1>0, <2>2 DEF Revised, RunRecord, RunPhase
  <2> QED BY <1>1, <1>4, <2>1, <2>2, <2>3 DEF Terminal
<1>5. CASE kind = "cancel"
  <2>1. run[r].phase \notin Terminal
    BY <1>5 DEF HasRead, RunKinds, Records
  <2>2. CASE run[r].phase # "Queued"
    <3>1. Update(r, [Revised(r) EXCEPT !.cancel = "yes"]) /\ UNCHANGED delivery
      BY <1>5, <2>2 DEF Writes, WritesRun
    <3>2. /\ [Revised(r) EXCEPT !.cancel = "yes"] \in RunRecord
          /\ [Revised(r) EXCEPT !.cancel = "yes"].phase = run[r].phase
      BY <1>0 DEF Revised, RunRecord, RunPhase
    <3> QED BY <1>1, <1>5, <2>1, <3>1, <3>2 DEF Records
  <2>3. CASE run[r].phase = "Queued"
    <3> DEFINE to == [Revised(r) EXCEPT !.cancel = "yes", !.phase = "Finished",
                                        !.result = "cancelled"]
    <3>1. FinishChanges(r, to) /\ UNCHANGED delivery
      BY <1>5, <2>3 DEF Writes, WritesRun
    <3>2. to \in RunRecord /\ to.phase = "Finished" /\ to.result = "cancelled"
      BY <1>0 DEF Revised, RunRecord, RunPhase, RunResult
    <3> HIDE DEF to
    <3> QED BY <1>2, <1>5, <2>1, <2>3, <3>1, <3>2 DEF Terminal
  <2> QED BY <2>2, <2>3
<1>6. CASE kind = "finish"
  <2> DEFINE to == [Revised(r) EXCEPT !.result = arg,
                 !.phase = IF arg = "outcome_unknown" THEN "OutcomeUnknown" ELSE "Finished"]
  <2>1. FinishChanges(r, to) /\ UNCHANGED delivery
    BY <1>6 DEF Writes, WritesRun
  <2>2. run[r].phase = "Executing" /\ arg \in RunResult \ {"none"}
    BY <1>6 DEF HasRead, RunKinds
  <2>3. to \in RunRecord /\ to.phase \in Terminal /\ to.result = arg
    BY <1>0, <2>2 DEF Revised, RunRecord, RunPhase, Terminal
  <2> HIDE DEF to
  <2> QED BY <1>2, <1>6, <2>1, <2>2, <2>3 DEF Terminal
<1>7. CASE kind = "admit"
  <2> DEFINE to == [NoRun EXCEPT !.phase = "Queued", !.rev = 1]
  <2>1. /\ run' = [run EXCEPT ![r] = to] /\ active' = active \cup {r}
        /\ UNCHANGED <<outbox, delivery>>
    BY <1>7 DEF Writes, WritesRun
  <2>2. run[r].phase = "absent"
    BY <1>7 DEF HasRead, RunKinds, NoRun
  <2>3. to \in RunRecord /\ to.phase = "Queued"
    BY DEF NoRun, RunRecord, RunPhase, RunResult
  <2> HIDE DEF to
  <2>4. run'[r] = to /\ \A q \in Runs : q # r => run'[q] = run[q]
    BY <2>1 DEF Types
  <2>5. Records'
    BY <2>1, <2>2, <2>3, <2>4 DEF Records, Terminal
  <2> QED BY <1>7, <2>1, <2>2, <2>3, <2>4, <2>5 DEF Types, Terminal
<1>8. ASSUME UNCHANGED <<run, active>>, kind # "claim",
             outbox' = outbox \/ outbox' = [outbox EXCEPT ![r] = 0],
             delivery' \in [Runs -> [phase : DeliveryPhase, rev : Nat]],
             \A q \in Runs : q # r => delivery'[q] = delivery[q],
             delivery'[r] # NoDelivery => run[r].phase = "Finished" /\ run[r].rev = delivery'[r].rev
      PROVE  Effect(kind, r)
  <2>1. outbox' \in [Runs -> Nat] /\ \A q \in Runs : outbox'[q] # 0 => outbox[q] # 0
    BY <1>8 DEF Types
  <2>2. Records'
    BY <1>8, <2>1 DEF Records
  <2> QED BY <1>8, <2>1, <2>2 DEF Types
<1>9. CASE kind \in {"reserve", "ack", "receipt"}
  <2>1. UNCHANGED <<run, active, delivery>> /\ (outbox' = outbox \/ outbox' = [outbox EXCEPT ![r] = 0])
    BY <1>9 DEF Writes, WritesRun
  <2> QED BY <1>8, <1>9, <2>1 DEF Types, Records
<1>10. CASE kind = "deliver"
  <2>1. /\ UNCHANGED <<run, active, outbox>>
        /\ delivery' = [delivery EXCEPT ![r] = [phase |-> "Sending", rev |-> arg]]
    BY <1>10 DEF Writes, WritesRun
  <2>2. run[r].phase = "Finished" /\ run[r].rev = arg /\ arg \in Nat
    BY <1>0, <1>10 DEF HasRead, RunKinds, RunRecord
  <2>3. /\ delivery'[r] = [phase |-> "Sending", rev |-> arg]
        /\ \A q \in Runs : q # r => delivery'[q] = delivery[q]
        /\ delivery' \in [Runs -> [phase : DeliveryPhase, rev : Nat]]
    BY <2>1, <2>2 DEF Types, DeliveryPhase
  <2> QED BY <1>8, <1>10, <2>1, <2>2, <2>3
<1>11. CASE kind = "settle"
  <2> DEFINE to == [delivery[r] EXCEPT !.phase =
                       IF arg = "confirmed" THEN "Delivered" ELSE "OutcomeUnknown"]
  <2>1. /\ UNCHANGED <<run, active>> /\ delivery' = [delivery EXCEPT ![r] = to]
        /\ outbox' = outbox \/ outbox' = [outbox EXCEPT ![r] = 0]
    BY <1>11 DEF Writes, WritesRun
  <2>2. run[r].phase = "Finished" /\ run[r].rev = delivery[r].rev
    BY <1>11 DEF HasRead, RunKinds, Records, NoDelivery
  <2>3. to \in [phase : DeliveryPhase, rev : Nat] /\ to.rev = delivery[r].rev
    BY DEF Types, DeliveryPhase
  <2> HIDE DEF to
  <2>4. /\ delivery'[r] = to /\ \A q \in Runs : q # r => delivery'[q] = delivery[q]
        /\ delivery' \in [Runs -> [phase : DeliveryPhase, rev : Nat]]
    BY <2>1, <2>3 DEF Types
  <2> QED BY <1>8, <1>11, <2>1, <2>2, <2>3, <2>4
<1> QED BY <1>3, <1>4, <1>5, <1>6, <1>7, <1>9, <1>10, <1>11 DEF Kinds

(* The effect of a commit that finds what it read.                         *)
LEMMA CommitEffects ==
    ASSUME DInv, NEW c \in Callers, op[c].ret = "pending", Unchanged(c),
           Writes(op[c].kind, op[c].run, op[c].arg)
    PROVE  Effect(op[c].kind, op[c].run)
<1> DEFINE kind == op[c].kind
           r == op[c].run
           arg == op[c].arg
<1>1. HasRead(kind, r, arg, op[c].seen[1]) /\ op[c].seen = Compared(kind, r, arg)
  BY DEF DInv, PendingOps, PendingOp, Unchanged
<1>2. Writes(kind, r, arg)
  OBVIOUS
<1> HIDE DEF kind, r, arg
<1>3. kind \in Kinds /\ r \in Runs
  BY <1>1 DEF HasRead
<1>4. HasRead(kind, r, arg, IF kind \in RunKinds THEN run[r] ELSE delivery[r])
  BY <1>1, <1>3, ComparedFirst DEF HasRead, Kinds, RunKinds, DeliveryKinds
<1>5. Effect(kind, r)
  BY <1>2, <1>3, <1>4, WriteEffects DEF DInv
<1> QED BY <1>5 DEF kind, r

(* A commit, answered or not, keeps the invariant.                         *)
LEMMA CommitKeeps ==
    ASSUME DInv, NEW c \in Callers, op[c].ret = "pending",
           Effect(op[c].kind, op[c].run),
           NEW ret \in {"ok", "failed"}, NEW got, Replies(c, <<>>, ret, got),
           UNCHANGED <<mode, pc, executed>>
    PROVE  DInv'
<1> USE DEF DInv
<1>1. op'[c].kind = op[c].kind /\ op'[c].run = op[c].run /\ op'[c].ret = ret
  BY DEF Replies, Types
<1>2. \A d \in Callers : d # c => op'[d] = op[d]
  BY DEF Replies, Types
<1>3. mode = "open" /\ op[c].run \in Runs
  BY DEF CallerOf, NoOp, PendingOps, PendingOp, HasRead
<1>4. Types'
  <2>1. op' = [d \in Callers |-> op'[d]]
    BY DEF Replies, Types
  <2> QED BY <2>1 DEF Types, Effect
<1>5. Records'
  BY DEF Effect
<1>6. PendingOps'
  <2> SUFFICES ASSUME NEW d \in Callers PROVE PendingOp(d)'
    BY DEF PendingOps
  <2>1. CASE d = c BY <2>1, <1>1 DEF PendingOp
  <2>2. CASE d # c
    <3>1. \A q \in Runs : run[q].phase = "Finished" => run'[q] = run[q]
      BY DEF Effect, Terminal
    <3>2. op'[d] = op[d] /\ PendingOp(d)
      BY <2>2, <1>2 DEF PendingOps
    <3> QED BY <3>1, <3>2 DEF HasRead, PendingOp
  <2> QED BY <2>1, <2>2
<1>7. \A d \in Callers : CallerOf(d)'
  <2> SUFFICES ASSUME NEW d \in Callers PROVE CallerOf(d)'
    OBVIOUS
  <2>1. CASE d = c BY <2>1, <1>1, <1>3 DEF CallerOf
  <2>2. CASE d # c BY <2>2, <1>2 DEF CallerOf
  <2> QED BY <2>1, <2>2
<1>8. Holders'
  <2> DEFINE claims == c \in Hosts /\ pc[c] = "claim" /\ op[c].kind = "claim"
  <2>1. \A h \in Hosts : Host(h)' = Host(h)
    BY <1>1, <1>2 DEF Host, Callers
  <2>2. \A h \in Hosts : h # c => (Holds(h)' <=> Holds(h)) /\ (Claimed(h)' <=> Claimed(h))
    BY <1>2 DEF Holds, Claimed, Callers
  <2>3. c \in Hosts /\ Holds(c)' => claims \/ (Holds(c) /\ pc[c] # "finish")
    BY <1>1 DEF Holds, Claimed, CallerOf, ExecutionKinds
  <2>4. claims => run[Host(c)].phase = "Queued" /\ run'[Host(c)].phase = "Executing"
    BY DEF Effect, Host
  <2>5. op[c].kind = "finish" => c \in Hosts /\ pc[c] = "finish" /\ Holds(c)
    BY DEF CallerOf, ExecutionKinds, Holds
  <2>6. \A h \in Hosts : Holds(h) => Host(h) \in Runs
    BY DEF CallerOf, Holds, Claimed, Host, Callers
  <2>7. ASSUME NEW h \in Hosts, Holds(h)' PROVE run'[Host(h)].phase = "Executing"
    <3>1. CASE h = c /\ claims BY <2>4, <3>1
    <3>2. CASE ~(h = c /\ claims)
      <4>1. Holds(h) /\ (h = c => pc[c] # "finish") BY <2>2, <2>3, <2>7, <3>2
      <4>2. run[Host(h)].phase = "Executing" /\ Host(h) \in Runs BY <2>6, <4>1 DEF Holders
      <4>3. ~(op[c].kind = "finish" /\ Host(h) = op[c].run)
        BY <2>5, <4>1 DEF Holders, Host
      <4> QED BY <4>2, <4>3 DEF Effect
    <3> QED BY <3>1, <3>2
  <2>8. ASSUME NEW g \in Hosts, NEW h \in Hosts, Holds(g)', Holds(h)', Host(g) = Host(h)
        PROVE  g = h
    <3>1. \A k \in Hosts : Holds(k)' /\ ~(k = c /\ claims) => Holds(k)
      BY <2>2, <2>3
    <3>2. claims => \A k \in Hosts : Holds(k) => Host(k) # Host(c)
      BY <2>4 DEF Holders
    <3> QED BY <2>8, <3>1, <3>2 DEF Holders
  <2>9. \A q \in Runs : executed'[q] # 0 => run'[q].phase \notin {"absent", "Queued"}
    <3> SUFFICES ASSUME NEW q \in Runs, executed[q] # 0
                 PROVE  run'[q].phase \notin {"absent", "Queued"}
      OBVIOUS
    <3>1. run[q] \in RunRecord /\ run[q].phase \notin {"absent", "Queued"}
      BY DEF Holders, Types
    <3>2. run[q].phase = "Executing" \/ run[q].phase \in Terminal
      BY <3>1 DEF RunRecord, RunPhase, Terminal
    <3> QED BY <3>1, <3>2 DEF Effect, Terminal
  <2>10. ASSUME NEW h \in Hosts, Claimed(h)' PROVE executed'[Host(h)] = 0
    <3>1. CASE h # c BY <2>2, <2>10, <3>1 DEF Holders
    <3>2. CASE h = c
      <4>1. claims BY <2>10, <3>2 DEF Claimed, CallerOf, ExecutionKinds
      <4>2. Host(c) \in Runs BY <1>3 DEF Host
      <4> QED BY <2>4, <3>2, <4>1, <4>2 DEF Holders
    <3> QED BY <3>1, <3>2
  <2> HIDE DEF claims
  <2> QED BY <2>1, <2>7, <2>8, <2>9, <2>10 DEF Holders
<1> QED BY <1>4, <1>5, <1>6, <1>7, <1>8

(* An operation that is refused, or reads again, keeps the invariant.      *)
LEMMA RepliesKeep ==
    ASSUME DInv, NEW c \in Callers, op[c].ret = "pending",
           NEW seen, NEW ret, NEW got, Replies(c, seen, ret, got),
           ret # "pending" \/ HasRead(op[c].kind, op[c].run, op[c].arg, seen[1]),
           op[c].kind = "claim" => ret # "ok",
           UNCHANGED <<database, mode, pc, executed>>
    PROVE  DInv'
<1> DEFINE o == [kind |-> op[c].kind, run |-> op[c].run, arg |-> op[c].arg,
                 seen |-> seen, ret |-> ret, got |-> got]
<1>1. op' = [op EXCEPT ![c] = o] /\ pc' = [pc EXCEPT ![c] = pc[c]]
  BY DEF Replies, DInv, Types
<1>2. o.kind = op[c].kind /\ o.run = op[c].run /\ o.arg = op[c].arg /\ o.seen = seen /\ o.ret = ret
  OBVIOUS
<1> HIDE DEF o
<1>3. mode = "open" /\ op[c].run \in Runs
  BY DEF DInv, CallerOf, NoOp, PendingOps, PendingOp, HasRead
<1>4. /\ op[c].kind \in ExecutionKinds => c \in Hosts /\ pc[c] = op[c].kind
      /\ pc[c] \in ExecutionKinds => op[c].kind = pc[c]
  BY DEF DInv, CallerOf
<1>5. pc[c] \in {"bind", "turn", "finish"} => Holds(c)
  BY DEF Holds
<1>6. UNCHANGED <<run, active, outbox, delivery, mode>>
  BY DEF database
<1>7. /\ o.ret = "pending" => HasRead(o.kind, o.run, o.arg, o.seen[1])
      /\ o.ret = "pending" /\ o.kind \in ExecutionKinds => c \in Hosts /\ pc[c] = o.kind
      /\ pc[c] \in ExecutionKinds => o.kind = pc[c]
      /\ o.run \in Runs
  BY <1>2, <1>3, <1>4
<1>8. pc[c] = "claim" => o.ret # "ok"
  BY <1>2, <1>4 DEF ExecutionKinds
<1>9. pc[c] \in {"bind", "turn", "finish"} => Holds(c) /\ o.run = Host(c)
  BY <1>2, <1>5 DEF Host
<1> QED
  BY <1>1, <1>3, <1>6, <1>7, <1>8, <1>9, CallerMoves

(* Every step of the store's worker keeps the invariant: a commit, one of  *)
(* unknown outcome, a failure, a comparison that fails.                    *)
LEMMA WorkerSteps ==
    ASSUME DInv, NEW c \in Callers, Worker(c)
    PROVE  DInv'
<1> USE DEF process, history
<1>1. CASE Commits(c)
  BY <1>1, CommitEffects, CommitKeeps DEF Commits
<1>2. CASE CommitUnknown(c)
  <2>1. CASE Unchanged(c) /\ Writes(op[c].kind, op[c].run, op[c].arg)
    BY <1>2, <2>1, CommitEffects, CommitKeeps DEF CommitUnknown, Answer
  <2>2. CASE UNCHANGED <<database, acked>>
    BY <1>2, <2>2, RepliesKeep DEF CommitUnknown, Answer
  <2> QED BY <1>2, <2>1, <2>2 DEF CommitUnknown
<1>3. CASE CommitFails(c)
  BY <1>3, RepliesKeep DEF CommitFails, Answer
<1>4. CASE Conflicts(c)
  <2>1. CASE Answer(c, IF op[c].kind = "deliver" THEN "existing" ELSE "conflict")
    BY <1>4, <2>1, RepliesKeep DEF Conflicts, Answer
  <2>2. CASE /\ op[c].kind \in {"admit", "bind", "cancel", "finish", "reserve"}
             /\ Replies(c, Compared(op[c].kind, op[c].run, op[c].arg),
                        Reads(op[c].kind, op[c].run, op[c].arg), run[op[c].run])
    <3>1. HasRead(op[c].kind, op[c].run, op[c].arg, op[c].seen[1])
      BY <1>4 DEF Conflicts, DInv, PendingOps, PendingOp
    <3>2. Reads(op[c].kind, op[c].run, op[c].arg) = "pending"
             => HasRead(op[c].kind, op[c].run, op[c].arg,
                        Compared(op[c].kind, op[c].run, op[c].arg)[1])
      BY <3>1, ReadsSuffice DEF DInv, HasRead
    <3> QED BY <1>4, <2>2, <3>2, RepliesKeep DEF Conflicts
  <2> QED BY <1>4, <2>1, <2>2 DEF Conflicts
<1> QED BY <1>1, <1>2, <1>3, <1>4 DEF Worker

---------------------------------------------------------------------------
(* Without callers only the records matter.                                *)
LEMMA Quiescent ==
    ASSUME Types', Records',
           \A c \in Callers : op'[c] = NoOp /\ pc'[c] \in {"idle", "ended"},
           \A q \in Runs : executed'[q] # 0 => run'[q].phase \notin {"absent", "Queued"}
    PROVE  DInv'
<1>1. PendingOps'
  BY DEF PendingOps, PendingOp, NoOp
<1>2. \A c \in Callers : CallerOf(c)'
  BY DEF CallerOf, ExecutionKinds, NoOp
<1>3. Holders'
  BY DEF Holders, Holds, Claimed, Callers
<1> QED BY <1>1, <1>2, <1>3 DEF DInv

(* A crash leaves nothing but the database, at whatever point it comes.    *)
LEMMA CrashStep ==
    ASSUME DInv, Crash
    PROVE  DInv'
<1> USE DEF DInv
<1>1. UNCHANGED <<run, active, outbox, delivery, executed>>
  BY DEF Crash, database, history
<1>2. \A c \in Callers : op'[c] = NoOp /\ pc'[c] \in {"idle", "ended"}
  BY DEF Crash
<1>3. op' = [c \in Callers |-> op'[c]] /\ pc' = [c \in Callers |-> pc'[c]]
  BY DEF Crash
<1>4. Types' /\ Records'
  BY <1>1, <1>3 DEF Types, Records
<1> QED BY <1>1, <1>2, <1>4, Quiescent DEF Holders

(* Recovery runs before there are callers.                                 *)
LEMMA RecoverySteps ==
    ASSUME DInv,
           \/ \E r \in Runs : RecoverRun(r) \/ RecoverDelivery(r)
           \/ RunsRecovered \/ Open
    PROVE  DInv'
<1> USE DEF DInv, process, history
<1>1. mode # "open" /\ UNCHANGED <<pc, op, executed>>
  BY DEF RecoverRun, RecoverDelivery, RunsRecovered, Open
<1>2. \A c \in Callers : op'[c] = NoOp /\ pc'[c] \in {"idle", "ended"}
  BY <1>1 DEF CallerOf
<1>3. ASSUME UNCHANGED <<run, active, outbox, delivery>> PROVE DInv'
  <2>1. Types' /\ Records'
    BY <1>1, <1>3 DEF Types, Records
  <2> QED BY <1>1, <1>2, <1>3, <2>1, Quiescent DEF Holders
<1>4. CASE RunsRecovered
  BY <1>3, <1>4 DEF RunsRecovered
<1>5. CASE Open
  BY <1>3, <1>5 DEF Open, database
<1>6. ASSUME NEW r \in Runs, RecoverDelivery(r) PROVE DInv'
  <2> DEFINE to == [delivery[r] EXCEPT !.phase = "OutcomeUnknown"]
  <2>1. delivery' = [delivery EXCEPT ![r] = to] /\ UNCHANGED <<run, active, outbox>>
    BY <1>6 DEF RecoverDelivery
  <2>2. to \in [phase : DeliveryPhase, rev : Nat] /\ to.rev = delivery[r].rev
    BY DEF Types, DeliveryPhase
  <2>3. run[r].phase = "Finished" /\ run[r].rev = delivery[r].rev
    BY <1>6 DEF RecoverDelivery
  <2> HIDE DEF to
  <2>4. delivery'[r] = to /\ \A q \in Runs : q # r => delivery'[q] = delivery[q]
    BY <2>1 DEF Types
  <2>5. Types'
    BY <1>1, <2>1, <2>2 DEF Types
  <2>6. Records'
    BY <2>1, <2>2, <2>3, <2>4 DEF Records
  <2> QED BY <1>1, <1>2, <2>1, <2>5, <2>6, Quiescent DEF Holders
<1>7. ASSUME NEW r \in Runs, RecoverRun(r) PROVE DInv'
  <2> DEFINE to == [Revised(r) EXCEPT !.phase = "OutcomeUnknown", !.result = "outcome_unknown"]
  <2>1. /\ run' = [run EXCEPT ![r] = to] /\ outbox' = [outbox EXCEPT ![r] = to.rev]
        /\ active' = active \ {r} /\ UNCHANGED delivery
    BY <1>7 DEF RecoverRun, FinishChanges
  <2>2. run[r].phase = "Executing" /\ run[r] \in RunRecord
    BY <1>7 DEF RecoverRun, Types
  <2>3. to \in RunRecord /\ to.phase = "OutcomeUnknown" /\ to.result = "outcome_unknown"
    <3>1. run[r].rev + 1 \in Nat BY <2>2 DEF RunRecord
    <3> QED BY <2>2, <3>1 DEF Revised, RunRecord, RunPhase, RunResult
  <2> HIDE DEF to
  <2>4. /\ run'[r] = to /\ outbox'[r] = to.rev
        /\ \A q \in Runs : q # r => run'[q] = run[q] /\ outbox'[q] = outbox[q]
    BY <2>1 DEF Types
  <2>5. Types'
    <3>1. to.rev \in Nat BY <2>3 DEF RunRecord
    <3> QED BY <1>1, <2>1, <2>3, <3>1 DEF Types
  <2>6. Records'
    BY <2>1, <2>2, <2>3, <2>4 DEF Records, Terminal
  <2>7. \A q \in Runs : executed'[q] # 0 => run'[q].phase \notin {"absent", "Queued"}
    BY <1>1, <2>3, <2>4 DEF Holders
  <2> QED BY <1>2, <2>5, <2>6, <2>7, Quiescent
<1> QED BY <1>4, <1>5, <1>6, <1>7

(* Every step keeps the invariant, and so does a step of something else.   *)
LEMMA NextDInv == DInv /\ [Next]_vars => DInv'
<1> SUFFICES ASSUME DInv, [Next]_vars PROVE DInv'
  OBVIOUS
<1>1. CASE UNCHANGED vars
  <2>1. UNCHANGED <<run, active, outbox, delivery, mode, pc, op, executed>>
    BY <1>1 DEF vars, database, process, history
  <2>2. Types' /\ Records' /\ PendingOps'
    BY <2>1 DEF DInv, Types, Records, PendingOps, PendingOp, HasRead
  <2>3. (\A c \in Callers : CallerOf(c)') /\ Holders'
    BY <2>1 DEF DInv, CallerOf, Holders, Holds, Claimed, Host
  <2> QED BY <2>2, <2>3 DEF DInv
<1>2. CASE Next
  BY <1>2, HostSteps, ClientSteps, WorkerSteps, RecoverySteps, CrashStep DEF Next
<1> QED BY <1>1, <1>2

(* The invariant holds in every state the store and its users can reach.   *)
THEOREM DurableRunsInvariant == Spec => []DInv
BY InitDInv, NextDInv, PTL DEF Spec

---------------------------------------------------------------------------
(* Whenever the process dies, recover_interrupted() and                    *)
(* recover_deliveries() find records they accept: the database opens       *)
(* again, for any number of runs, callers and crashes.                     *)
THEOREM ReopenAlwaysSucceeds == Spec => []ReopenSucceeds
<1>1. DInv => ReopenSucceeds
  BY DEF DInv, Records, ReopenSucceeds, Terminal
<1> QED BY <1>1, DurableRunsInvariant, PTL

(* A result that was stored is never replaced, by a late host, a           *)
(* cancellation, a repeated commit or recovery.                            *)
THEOREM ResultsAreFinal == Spec => TerminalIsFinal
<1>1. ASSUME DInv, [Next]_vars, NEW r \in Runs, run[r].phase \in Terminal
      PROVE  run'[r] = run[r]
  <2> SUFFICES ASSUME UNCHANGED run => FALSE PROVE run'[r] = run[r]
    OBVIOUS
  <2>1. CASE UNCHANGED vars BY <2>1 DEF vars, database
  <2>2. ASSUME NEW h \in Hosts, HostStep(h) PROVE UNCHANGED run
    BY <2>2 DEF HostStep, Submit, Admitted, Refused, ClaimRefused, ExecuteChannel,
       ExecuteGateway, Bound, TurnEnds, FinishFails, Finished, Answered, NotMine,
       FirstSegment, Receipt, Send, Settled, Dropped, Call, Ends, database
  <2>3. ASSUME NEW c \in Clients, ClientStep(c) PROVE UNCHANGED run
    BY <2>3 DEF ClientStep, CancelRun, CancelReturns, Acknowledge, Reserve, ClientReturns,
       Call, database
  <2>4. ASSUME NEW c \in Callers, Worker(c) PROVE run'[r] = run[r]
    <3>1. op[c].ret = "pending" /\ Unchanged(c) /\ Writes(op[c].kind, op[c].run, op[c].arg)
      BY <2>4 DEF Worker, Commits, CommitUnknown, CommitFails, Conflicts, database
    <3> QED BY <1>1, <3>1, CommitEffects DEF Effect
  <2>5. ASSUME NEW q \in Runs, RecoverRun(q) PROVE run'[r] = run[r]
    <3>1. r # q BY <1>1, <2>5 DEF RecoverRun, Terminal
    <3> QED BY <1>1, <2>5, <3>1 DEF RecoverRun, FinishChanges, DInv, Types
  <2>6. CASE \/ \E q \in Runs : RecoverDelivery(q)
             \/ RunsRecovered \/ Open \/ Crash
    BY <2>6 DEF RecoverDelivery, RunsRecovered, Open, Crash, database
  <2> QED BY <1>1, <2>1, <2>2, <2>3, <2>4, <2>5, <2>6 DEF Next
<1>2. DInv /\ [Next]_vars
         => [\A r \in Runs : run[r].phase \in Terminal => run'[r] = run[r]]_vars
  BY <1>1
<1> QED BY <1>2, DurableRunsInvariant, PTL DEF Spec, TerminalIsFinal

(* External work for a run is started at most once, by a host whose claim  *)
(* is committed and still stands: a redelivered message, a repeated        *)
(* request, a commit of unknown outcome or a crash never starts it again.  *)
THEOREM WorkStartsOnce == Spec => ExecutedOnce
<1>1. ASSUME DInv, [Next]_vars, NEW r \in Runs, executed'[r] # executed[r]
      PROVE  executed[r] = 0 /\ run[r].phase = "Executing"
  <2> USE DEF process, history, Quiet
  <2>1. CASE UNCHANGED vars BY <1>1, <2>1 DEF vars
  <2>2. ASSUME NEW h \in Hosts, HostStep(h), executed' # executed
        PROVE  Claimed(h) /\ executed' = [executed EXCEPT ![Host(h)] = @ + 1]
    BY <2>2 DEF HostStep, Submit, Admitted, Refused, ClaimRefused, ExecuteChannel,
       ExecuteGateway, Bound, TurnEnds, FinishFails, Finished, Answered, NotMine,
       FirstSegment, Receipt, Send, Settled, Dropped, Claimed, Returned
  <2>3. ASSUME NEW h \in Hosts, HostStep(h) PROVE executed[r] = 0 /\ run[r].phase = "Executing"
    <3>1. Claimed(h) /\ r = Host(h) BY <1>1, <2>2, <2>3 DEF DInv, Types
    <3> QED BY <1>1, <3>1 DEF DInv, Holders, Holds
  <2>4. ASSUME NEW c \in Clients, ClientStep(c) PROVE UNCHANGED executed
    BY <2>4 DEF ClientStep, CancelRun, CancelReturns, Acknowledge, Reserve, ClientReturns
  <2>5. ASSUME NEW c \in Callers, Worker(c) PROVE UNCHANGED executed
    BY <2>5 DEF Worker, Commits, CommitUnknown, CommitFails, Conflicts
  <2>6. CASE \/ \E q \in Runs : RecoverRun(q) \/ RecoverDelivery(q)
             \/ RunsRecovered \/ Open \/ Crash
    BY <1>1, <2>6 DEF RecoverRun, RecoverDelivery, RunsRecovered, Open, Crash
  <2> QED BY <1>1, <2>1, <2>3, <2>4, <2>5, <2>6 DEF Next
<1>2. DInv /\ [Next]_vars
         => [\A r \in Runs : executed'[r] # executed[r]
                => executed[r] = 0 /\ run[r].phase = "Executing"]_vars
  BY <1>1
<1> QED BY <1>2, DurableRunsInvariant, PTL DEF Spec, ExecutedOnce

---------------------------------------------------------------------------
(* The indexes, the announcements, the deliveries and the cancellations:   *)
(* a second invariant, on top of DInv.                                     *)

Present == {r \in Runs : run[r] # NoRun}

Indexes ==
    /\ active = {r \in Runs : run[r].phase \in {"Queued", "Executing"}}
    /\ inbox = active
    /\ IsFiniteSet(Present) /\ count = Cardinality(Present) /\ count <= MaxRetainedRuns
    /\ owner \in [Runs -> Runs \cup {None, "legacy"}]
    /\ \A r \in Runs : run[r].phase # "absent" => owner[r] = r
    /\ \A r \in Runs : run[r].phase = "absent" => run[r] = NoRun

(* What else an operation about to commit has read, or can rely on because *)
(* nothing takes it back.                                                  *)
Relies(o) ==
    /\ o.kind = "admit" => o.seen[2] < MaxRetainedRuns
    /\ o.kind = "reserve" => o.seen[1] = None
    /\ o.kind = "cancel" => run[o.run].phase # "absent"
    /\ o.kind = "ack" => run[o.run].phase \in Terminal /\ run[o.run].rev = o.arg
    /\ o.kind = "deliver" => o.seen[1] = NoDelivery
    /\ o.kind = "receipt" => /\ o.arg \in Segments /\ o.arg \notin o.seen[2]
                             /\ o.arg = 1 \/ o.arg - 1 \in o.seen[2]
    /\ o.kind = "settle" /\ o.arg = "confirmed" => receipts[o.run] = Segments

Reliances == \A c \in Callers : op[c].ret = "pending" => Relies(op[c])

(* Receipts are stored in order, and all of them before the confirmation.  *)
Receipts ==
    /\ receipts \in [Runs -> SUBSET Segments]
    /\ \A r \in Runs : \E k \in 0 .. MaxSegments : receipts[r] = 1 .. k
    /\ DeliveredIsReceipted

(* The host whose claim of a delivery was committed, and the last segment  *)
(* it may have sent.                                                       *)
Sends(h) == pc[h] = "receipt" \/ (pc[h] = "deliver" /\ op[h].ret = "ok")
Reached(h) == IF pc[h] = "receipt" THEN op[h].arg ELSE 0

Senders ==
    /\ sent \in [Runs -> [Segments -> Nat]]
    /\ \A r \in Runs : \A i \in Segments :
          sent[r][i] <= 1 /\ (sent[r][i] # 0 => delivery[r] # NoDelivery)
    /\ \A h \in Hosts : Sends(h) =>
          /\ delivery[Host(h)] # NoDelivery
          /\ Reached(h) \in 0 .. MaxSegments
          /\ \A i \in Segments : i > Reached(h) => sent[Host(h)][i] = 0
    /\ \A g, h \in Hosts : Sends(g) /\ Sends(h) /\ Host(g) = Host(h) => g = h
    /\ \A h \in Hosts : pc[h] \in {"deliver", "receipt"} => op[h].kind = pc[h]
    /\ \A h \in Hosts : pc[h] = "receipt" /\ op[h].ret = "ok" => op[h].arg \in receipts[Host(h)]

(* A client whose cancellation is stored and who will tell the turn.       *)
Tells(c, r) ==
    pc[c] = "cancel" /\ op[c].ret = "ok" /\ op[c].run = r /\ op[c].got.turn = "bound"

Told(r) == r \in token \/ \E c \in Clients : Tells(c, r)

Cancels ==
    /\ token \subseteq Runs
    /\ \A c \in Callers : op[c].ret = "pending" /\ op[c].kind = "cancel"
          => c \in Clients /\ pc[c] = "cancel"
    /\ \A h \in Hosts : pc[h] = "bind" /\ op[h].ret = "ok" => run[Host(h)].turn = "bound"
    /\ \A h \in Hosts : pc[h] = "turn" => Host(h) \in token \/ run[Host(h)].turn = "bound"
    /\ ~fence => \A h \in Hosts :
          /\ pc[h] = "turn" /\ run[Host(h)].cancel = "yes" => Told(Host(h))
          /\ pc[h] = "bind" /\ op[h].ret = "ok" /\ run[Host(h)].cancel = "yes"
                => Got(h).cancel = "yes" \/ Told(Host(h))

Switches ==
    /\ mode \in {"open", "runs", "deliveries"} /\ fence \in BOOLEAN
    /\ storageFailed \in BOOLEAN /\ acked \subseteq Runs

EInv ==
    /\ DInv /\ Indexes /\ Reliances /\ ResultStaysPending
    /\ Receipts /\ Senders /\ Cancels /\ Switches

(* The empty store satisfies it.                                           *)
LEMMA InitEInv == Init => EInv
<1> SUFFICES ASSUME Init PROVE EInv
  OBVIOUS
<1>1. Present = {} /\ IsFiniteSet(Present) /\ Cardinality(Present) = 0
  BY FS_EmptySet DEF Init, Present
<1>2. Indexes
  BY <1>1, DurableRunsAssumption DEF Init, Indexes, NoRun
<1>3. Reliances /\ ResultStaysPending /\ Switches
  BY DEF Init, Reliances, NoOp, ResultStaysPending, NoRun, Terminal, Switches
<1>4. Receipts
  <2>1. \A r \in Runs : receipts[r] = 1 .. 0
    BY DEF Init
  <2>2. 0 \in 0 .. MaxSegments
    BY DurableRunsAssumption
  <2> QED
    BY <2>1, <2>2 DEF Init, Receipts, DeliveredIsReceipted, NoDelivery
<1>5. Senders
  BY DEF Init, Senders, Sends, Callers, Segments
<1>6. Cancels
  BY DEF Init, Cancels, Callers, NoOp
<1> QED
  BY <1>2, <1>3, <1>4, <1>5, <1>6, InitDInv DEF EInv

---------------------------------------------------------------------------
(* An operation that goes on to commit has read what Relies says.          *)
LEMMA ReadsRely ==
    ASSUME NEW kind \in Kinds, NEW r \in Runs, NEW arg, NEW o,
           o.kind = kind, o.run = r, o.arg = arg, o.seen = Compared(kind, r, arg),
           Reads(kind, r, arg) = "pending",
           kind = "cancel" => run[r].phase # "absent",
           kind = "receipt" => arg \in Segments,
           kind = "settle" /\ arg = "confirmed" => receipts[r] = Segments
    PROVE  Relies(o)
<1> USE DEF Relies, Kinds
<1>1. CASE kind = "admit"
  BY <1>1 DEF Reads, AdmitReads, Quota, Compared, AdmitCompared
<1>2. CASE kind \in {"claim", "bind", "finish", "cancel", "settle"}
  BY <1>2
<1>3. CASE kind = "ack"
  BY <1>3 DEF Reads, AckReads
<1>4. CASE kind = "deliver"
  BY <1>4 DEF Reads, DeliverReads, Compared
<1>5. CASE kind = "receipt"
  <2>1. /\ arg \in Segments /\ arg \notin receipts[r]
        /\ arg = 1 \/ arg - 1 \in receipts[r]
    BY <1>5 DEF Reads, ReceiptReads, Segments
  <2>2. o.seen[2] = receipts[r]
    BY <1>5 DEF Compared
  <2> QED
    BY <1>5, <2>1, <2>2
<1>6. CASE kind = "reserve"
  BY <1>6 DEF Reads, ReserveReads, Compared
<1> QED
  BY <1>1, <1>2, <1>3, <1>4, <1>5, <1>6

(* What a step of a caller is, seen from the store: it starts an operation *)
(* or drops one, and writes nothing.                                       *)
Starts(c, kind, r, arg, at) ==
    /\ Call(c, kind, r, arg, at)
    /\ kind \in Kinds /\ r \in Runs
    /\ kind = "cancel" => run[r].phase # "absent"
    /\ kind = "receipt" => arg \in Segments
    /\ kind = "settle" /\ arg = "confirmed" => receipts[r] = Segments

Moves(c) ==
    /\ UNCHANGED <<database, mode, fence, acked>>
    /\ \/ \E kind, r, arg, at : Starts(c, kind, r, arg, at)
       \/ \E o : op' = [op EXCEPT ![c] = o] /\ o.ret = "none"
       \/ op' = op

(* Such a step keeps what is said of the database.                         *)
LEMMA MovesKeep ==
    ASSUME EInv, NEW c \in Callers, Moves(c), storageFailed' \in BOOLEAN
    PROVE  Indexes' /\ Reliances' /\ ResultStaysPending' /\ Receipts' /\ Switches'
<1> USE DEF EInv
<1>1. UNCHANGED <<run, active, inbox, outbox, count, owner, delivery, receipts, mode, fence, acked>>
  BY DEF Moves, database
<1>2. Indexes' /\ ResultStaysPending' /\ Receipts' /\ Switches'
  BY <1>1 DEF Indexes, Present, ResultStaysPending, Receipts, DeliveredIsReceipted, Switches
<1>3. Reliances'
  <2> SUFFICES ASSUME NEW d \in Callers, op'[d].ret = "pending" PROVE Relies(op[d])'
    BY DEF Reliances
  <2>0. op = [e \in Callers |-> op[e]]
    BY DEF DInv, Types
  <2>1. CASE op'[d] = op[d]
    BY <1>1, <2>1 DEF Reliances, Relies
  <2>2. CASE op'[d] # op[d]
    <3>0. ~\E o : op' = [op EXCEPT ![c] = o] /\ o.ret = "none"
      BY <2>0, <2>2
    <3>1. PICK kind, r, arg, at : Starts(c, kind, r, arg, at)
      BY <2>2, <3>0 DEF Moves
    <3>5. d = c
      BY <2>0, <2>2, <3>1 DEF Starts, Call
    <3>2. /\ op'[c].kind = kind /\ op'[c].run = r /\ op'[c].arg = arg
          /\ op'[c].seen = Compared(kind, r, arg) /\ op'[c].ret = Reads(kind, r, arg)
      BY <2>0, <3>1 DEF Starts, Call
    <3>3. Relies(op'[c])
      BY <3>1, <3>2, <3>5, ReadsRely DEF Starts
    <3> QED
      BY <1>1, <3>3, <3>5 DEF Relies
  <2> QED
    BY <2>1, <2>2
<1> QED
  BY <1>2, <1>3

---------------------------------------------------------------------------
(* What a commit finds, its comparison having succeeded.                   *)
Finds(kind, r, arg) ==
    /\ kind = "admit" => count < MaxRetainedRuns
    /\ kind = "reserve" => owner[r] = None
    /\ kind = "cancel" => run[r].phase # "absent"
    /\ kind = "ack" => run[r].phase \in Terminal /\ run[r].rev = arg
    /\ kind = "deliver" => delivery[r] = NoDelivery
    /\ kind = "receipt" => /\ arg \in Segments /\ arg \notin receipts[r]
                           /\ arg = 1 \/ arg - 1 \in receipts[r]
    /\ kind = "settle" /\ arg = "confirmed" => receipts[r] = Segments

(* What no commit takes back, and what only one kind of commit adds.       *)
Grows(kind, r) ==
    /\ \A q \in Runs :
          /\ run[q].phase # "absent" => run'[q].phase # "absent"
          /\ receipts[q] \subseteq receipts'[q]
          /\ delivery[q] # NoDelivery => delivery'[q] # NoDelivery
          /\ run[q].turn = "bound" => run'[q].turn = "bound"
          /\ run'[q].cancel = "yes" => run[q].cancel = "yes" \/ (kind = "cancel" /\ q = r)
    /\ kind = "bind" => run'[r].turn = "bound"
    /\ kind = "deliver" => delivery'[r] # NoDelivery

Indexed == Indexes /\ ResultStaysPending /\ Receipts /\ acked \subseteq Runs

(* The comparison turns what was read into what is found.                  *)
LEMMA UnchangedFinds ==
    ASSUME NEW c \in Callers, op[c].kind \in Kinds, Relies(op[c]), Unchanged(c)
    PROVE  Finds(op[c].kind, op[c].run, op[c].arg)
<1> DEFINE kind == op[c].kind
           r == op[c].run
           arg == op[c].arg
           seen == op[c].seen
<1>1. seen = Compared(kind, r, arg)
  BY DEF Unchanged
<1>2. /\ kind = "admit" => seen[2] = count
      /\ kind = "reserve" => seen[1] = owner[r]
      /\ kind = "deliver" => seen[1] = delivery[r]
      /\ kind = "receipt" => seen[2] = receipts[r]
  <2> HIDE DEF kind, r, arg, seen
  <2> QED
    BY <1>1 DEF Compared, AdmitCompared
<1> QED
  BY <1>2 DEF Relies, Finds

(* Writing a run that goes on.                                             *)
LEMMA UpdateKeeps ==
    ASSUME Types, Indexed, NEW r \in Runs, NEW to \in RunRecord, Update(r, to),
           UNCHANGED <<count, owner, delivery, receipts, acked>>,
           run[r].phase \in {"Queued", "Executing"}, to.phase \in {"Queued", "Executing"}
    PROVE  Indexed'
<1>1. run'[r] = to /\ \A q \in Runs : q # r => run'[q] = run[q]
  BY DEF Update, Types
<1>2. UNCHANGED <<active, inbox, outbox>>
  BY DEF Update
<1>3. Present' = Present
  BY <1>1 DEF Present, NoRun
<1>4. Indexes'
  BY <1>1, <1>2, <1>3 DEF Indexed, Indexes
<1>5. ResultStaysPending' /\ Receipts'
  BY <1>1, <1>2 DEF Indexed, ResultStaysPending, Receipts, DeliveredIsReceipted, Terminal
<1> QED
  BY <1>4, <1>5 DEF Indexed

(* Writing a run that ends.                                                *)
LEMMA FinishKeeps ==
    ASSUME Types, Indexed, NEW r \in Runs, NEW to \in RunRecord, FinishChanges(r, to),
           UNCHANGED <<count, owner, delivery, receipts, acked>>,
           run[r].phase \in {"Queued", "Executing"}, to.phase \in Terminal
    PROVE  Indexed'
<1>1. /\ run'[r] = to /\ outbox'[r] = to.rev
      /\ \A q \in Runs : q # r => run'[q] = run[q] /\ outbox'[q] = outbox[q]
  BY DEF FinishChanges, Types
<1>2. active' = active \ {r} /\ inbox' = inbox \ {r}
  BY DEF FinishChanges
<1>3. Present' = Present
  BY <1>1 DEF Present, NoRun, Terminal
<1>4. Indexes'
  BY <1>1, <1>2, <1>3 DEF Indexed, Indexes, Terminal
<1>5. ResultStaysPending' /\ Receipts'
  BY <1>1 DEF Indexed, ResultStaysPending, Receipts, DeliveredIsReceipted, Terminal
<1> QED
  BY <1>4, <1>5 DEF Indexed

(* A commit keeps the indexes, the announcements and the receipts.         *)
LEMMA WriteKeeps ==
    ASSUME Types, Records, Indexed, NEW kind \in Kinds, NEW r \in Runs, NEW arg,
           HasRead(kind, r, arg, IF kind \in RunKinds THEN run[r] ELSE delivery[r]),
           Finds(kind, r, arg), Writes(kind, r, arg)
    PROVE  Indexed' /\ Grows(kind, r)
<1>0. run[r] \in RunRecord /\ run[r].rev + 1 \in Nat
  BY DEF Types, RunRecord
<1>1. CASE kind = "claim"
  <2> DEFINE to == [Revised(r) EXCEPT !.phase = "Executing"]
  <2>1. Update(r, to) /\ UNCHANGED <<count, owner, delivery, receipts, acked>>
    BY <1>1 DEF Writes, WritesRun
  <2>2. run[r].phase = "Queued"
    BY <1>1 DEF HasRead, RunKinds
  <2>3. /\ to \in RunRecord /\ to.phase = "Executing"
        /\ to.turn = run[r].turn /\ to.cancel = run[r].cancel
    BY <1>0 DEF Revised, RunRecord, RunPhase
  <2> HIDE DEF to
  <2>4. Indexed'
    BY <2>1, <2>2, <2>3, UpdateKeeps
  <2>5. Grows(kind, r)
    BY <1>1, <2>1, <2>3 DEF Update, Types, Grows
  <2> QED
    BY <2>4, <2>5
<1>2. CASE kind = "bind"
  <2> DEFINE to == [Revised(r) EXCEPT !.turn = "bound"]
  <2>1. Update(r, to) /\ UNCHANGED <<count, owner, delivery, receipts, acked>>
    BY <1>2 DEF Writes, WritesRun
  <2>2. run[r].phase = "Executing"
    BY <1>2 DEF HasRead, RunKinds
  <2>3. /\ to \in RunRecord /\ to.phase = "Executing"
        /\ to.turn = "bound" /\ to.cancel = run[r].cancel
    BY <1>0, <2>2 DEF Revised, RunRecord, RunPhase
  <2> HIDE DEF to
  <2>4. Indexed'
    BY <2>1, <2>2, <2>3, UpdateKeeps
  <2>5. Grows(kind, r)
    BY <1>2, <2>1, <2>3 DEF Update, Types, Grows
  <2> QED
    BY <2>4, <2>5
<1>3. CASE kind = "cancel"
  <2>1. run[r].phase \in {"Queued", "Executing"}
    <3>1. run[r].phase \notin Terminal /\ run[r].phase # "absent"
      BY <1>3 DEF HasRead, RunKinds, Records, Finds
    <3> QED
      BY <1>0, <3>1 DEF RunRecord, RunPhase, Terminal
  <2>2. CASE run[r].phase # "Queued"
    <3> DEFINE to == [Revised(r) EXCEPT !.cancel = "yes"]
    <3>1. Update(r, to) /\ UNCHANGED <<count, owner, delivery, receipts, acked>>
      BY <1>3, <2>2 DEF Writes, WritesRun
    <3>2. to \in RunRecord /\ to.phase = run[r].phase /\ to.turn = run[r].turn
      BY <1>0 DEF Revised, RunRecord, RunPhase
    <3> HIDE DEF to
    <3>3. Indexed'
      BY <2>1, <3>1, <3>2, UpdateKeeps
    <3>4. Grows(kind, r)
      BY <1>3, <3>1, <3>2 DEF Update, Types, Grows
    <3> QED
      BY <3>3, <3>4
  <2>3. CASE run[r].phase = "Queued"
    <3> DEFINE to == [Revised(r) EXCEPT !.cancel = "yes", !.phase = "Finished",
                                        !.result = "cancelled"]
    <3>1. FinishChanges(r, to) /\ UNCHANGED <<count, owner, delivery, receipts, acked>>
      BY <1>3, <2>3 DEF Writes, WritesRun
    <3>2. to \in RunRecord /\ to.phase = "Finished" /\ to.turn = run[r].turn
      BY <1>0 DEF Revised, RunRecord, RunPhase, RunResult
    <3> HIDE DEF to
    <3>3. Indexed'
      BY <2>1, <3>1, <3>2, FinishKeeps DEF Terminal
    <3>4. Grows(kind, r)
      BY <1>3, <3>1, <3>2 DEF FinishChanges, Types, Grows
    <3> QED
      BY <3>3, <3>4
  <2> QED
    BY <2>2, <2>3
<1>4. CASE kind = "finish"
  <2> DEFINE to == [Revised(r) EXCEPT !.result = arg,
                 !.phase = IF arg = "outcome_unknown" THEN "OutcomeUnknown" ELSE "Finished"]
  <2>1. FinishChanges(r, to) /\ UNCHANGED <<count, owner, delivery, receipts, acked>>
    BY <1>4 DEF Writes, WritesRun
  <2>2. run[r].phase = "Executing" /\ arg \in RunResult \ {"none"}
    BY <1>4 DEF HasRead, RunKinds
  <2>3. /\ to \in RunRecord /\ to.phase \in Terminal
        /\ to.turn = run[r].turn /\ to.cancel = run[r].cancel
    BY <1>0, <2>2 DEF Revised, RunRecord, RunPhase, Terminal
  <2> HIDE DEF to
  <2>4. Indexed'
    BY <2>1, <2>2, <2>3, FinishKeeps
  <2>5. Grows(kind, r)
    BY <1>4, <2>1, <2>3 DEF FinishChanges, Types, Grows, Terminal
  <2> QED
    BY <2>4, <2>5
<1>5. CASE kind = "admit"
  <2> DEFINE to == [NoRun EXCEPT !.phase = "Queued", !.rev = 1]
  <2>1. /\ run' = [run EXCEPT ![r] = to] /\ active' = active \cup {r} /\ inbox' = inbox \cup {r}
        /\ count' = count + 1 /\ owner' = [owner EXCEPT ![r] = r]
        /\ UNCHANGED <<outbox, delivery, receipts, acked>>
    BY <1>5 DEF Writes, WritesRun
  <2>2. run[r] = NoRun /\ run[r].phase = "absent" /\ NoRun.turn = "none" /\ NoRun.cancel = "no"
    BY <1>5 DEF HasRead, RunKinds, NoRun
  <2>3. /\ to \in RunRecord /\ to.phase = "Queued" /\ to # NoRun
        /\ to.turn = "none" /\ to.cancel = "no"
    BY DEF NoRun, RunRecord, RunPhase, RunResult
  <2> HIDE DEF to
  <2>4. run'[r] = to /\ \A q \in Runs : q # r => run'[q] = run[q]
    BY <2>1 DEF Types
  <2>5. Present' = Present \cup {r} /\ r \notin Present
    BY <2>2, <2>3, <2>4 DEF Present
  <2>6. IsFiniteSet(Present') /\ Cardinality(Present') = Cardinality(Present) + 1
    BY <2>5, FS_AddElement DEF Indexed, Indexes
  <2>7. Cardinality(Present) \in Nat
    BY FS_CardinalityType DEF Indexed, Indexes
  <2>8. count' = Cardinality(Present') /\ count' <= MaxRetainedRuns
    BY <1>5, <2>1, <2>6, <2>7, DurableRunsAssumption DEF Indexed, Indexes, Finds
  <2>9. active' = {q \in Runs : run'[q].phase \in {"Queued", "Executing"}} /\ inbox' = active'
    BY <2>1, <2>3, <2>4 DEF Indexed, Indexes
  <2>10. owner' \in [Runs -> Runs \cup {None, "legacy"}]
    BY <2>1 DEF Indexed, Indexes
  <2>11. owner'[r] = r /\ \A q \in Runs : q # r => owner'[q] = owner[q]
    BY <2>1 DEF Indexed, Indexes
  <2>12. \A q \in Runs : /\ run'[q].phase # "absent" => owner'[q] = q
                         /\ run'[q].phase = "absent" => run'[q] = NoRun
    BY <2>3, <2>4, <2>11 DEF Indexed, Indexes
  <2>13. Indexes'
    BY <2>6, <2>8, <2>9, <2>10, <2>12 DEF Indexes
  <2>14. ResultStaysPending' /\ Receipts'
    BY <2>1, <2>3, <2>4 DEF Indexed, ResultStaysPending, Receipts, DeliveredIsReceipted, Terminal
  <2>15. Grows(kind, r)
    BY <1>5, <2>1, <2>2, <2>3, <2>4 DEF Grows
  <2> QED
    BY <2>1, <2>13, <2>14, <2>15 DEF Indexed
<1>6. CASE kind = "reserve"
  <2>1. /\ owner' = [owner EXCEPT ![r] = "legacy"]
        /\ UNCHANGED <<run, active, inbox, outbox, count, delivery, receipts, acked>>
    BY <1>6 DEF Writes, WritesRun
  <2>2. owner[r] # r
    BY <1>6, DurableRunsAssumption DEF Finds
  <2>3. Indexes'
    BY <2>1, <2>2 DEF Indexed, Indexes, Present
  <2>4. ResultStaysPending' /\ Receipts'
    BY <2>1 DEF Indexed, ResultStaysPending, Receipts, DeliveredIsReceipted
  <2> QED
    BY <1>6, <2>1, <2>3, <2>4 DEF Indexed, Grows
<1>7. CASE kind = "ack"
  <2>1. /\ outbox' = [outbox EXCEPT ![r] = 0] /\ acked' = acked \cup {r}
        /\ UNCHANGED <<run, active, inbox, count, owner, delivery, receipts>>
    BY <1>7 DEF Writes, WritesRun, Finds
  <2>2. Indexes' /\ Receipts'
    BY <2>1 DEF Indexed, Indexes, Present, Receipts, DeliveredIsReceipted
  <2>3. ResultStaysPending'
    BY <2>1 DEF Indexed, ResultStaysPending, Types
  <2> QED
    BY <1>7, <2>1, <2>2, <2>3 DEF Indexed, Grows
<1>8. CASE kind = "deliver"
  <2>1. /\ delivery' = [delivery EXCEPT ![r] = [phase |-> "Sending", rev |-> arg]]
        /\ UNCHANGED <<run, active, inbox, outbox, count, owner, receipts, acked>>
    BY <1>8 DEF Writes, WritesRun
  <2>2. delivery[r] = NoDelivery /\ NoDelivery.phase = "none"
    BY <1>8 DEF Finds, NoDelivery
  <2>3. /\ delivery'[r].phase = "Sending" /\ delivery'[r] # NoDelivery
        /\ \A q \in Runs : q # r => delivery'[q] = delivery[q]
    BY <2>1 DEF Types, NoDelivery
  <2>4. Indexes'
    BY <2>1 DEF Indexed, Indexes, Present
  <2>5. ResultStaysPending' /\ Receipts'
    BY <2>1, <2>2, <2>3 DEF Indexed, ResultStaysPending, Receipts, DeliveredIsReceipted
  <2> QED
    BY <1>8, <2>1, <2>3, <2>4, <2>5 DEF Indexed, Grows
<1>9. CASE kind = "receipt"
  <2>1. /\ receipts' = [receipts EXCEPT ![r] = @ \cup {arg}]
        /\ UNCHANGED <<run, active, inbox, outbox, count, owner, delivery, acked>>
    BY <1>9 DEF Writes, WritesRun
  <2>2. /\ arg \in Segments /\ arg \notin receipts[r] /\ (arg = 1 \/ arg - 1 \in receipts[r])
        /\ delivery[r].phase = "Sending"
    BY <1>9 DEF Finds, HasRead, RunKinds
  <2>3. /\ receipts'[r] = receipts[r] \cup {arg}
        /\ \A q \in Runs : q # r => receipts'[q] = receipts[q]
        /\ receipts' \in [Runs -> SUBSET Segments]
    BY <2>1, <2>2 DEF Indexed, Receipts
  <2>4. \E k \in 0 .. MaxSegments : receipts'[r] = 1 .. k
    <3>1. PICK k \in 0 .. MaxSegments : receipts[r] = 1 .. k
      BY DEF Indexed, Receipts
    <3>2. arg = k + 1
      BY <2>2, <3>1, DurableRunsAssumption DEF Segments
    <3>3. receipts'[r] = 1 .. arg /\ arg \in 0 .. MaxSegments
      BY <2>2, <2>3, <3>1, <3>2, DurableRunsAssumption DEF Segments
    <3> QED
      BY <3>3
  <2>5. DeliveredIsReceipted'
    BY <2>1, <2>2, <2>3 DEF Indexed, Receipts, DeliveredIsReceipted
  <2>6. Receipts'
    BY <2>3, <2>4, <2>5 DEF Indexed, Receipts
  <2>7. Indexes' /\ ResultStaysPending'
    BY <2>1 DEF Indexed, Indexes, Present, ResultStaysPending
  <2> QED
    BY <1>9, <2>1, <2>3, <2>6, <2>7 DEF Indexed, Grows
<1>10. CASE kind = "settle"
  <2> DEFINE to == [delivery[r] EXCEPT !.phase =
                       IF arg = "confirmed" THEN "Delivered" ELSE "OutcomeUnknown"]
  <2>1. /\ delivery' = [delivery EXCEPT ![r] = to]
        /\ outbox' = IF arg = "confirmed" THEN [outbox EXCEPT ![r] = 0] ELSE outbox
        /\ UNCHANGED <<run, active, inbox, count, owner, receipts, acked>>
    BY <1>10 DEF Writes, WritesRun
  <2>2. to.phase = (IF arg = "confirmed" THEN "Delivered" ELSE "OutcomeUnknown") /\ to # NoDelivery
    BY DEF Types, NoDelivery
  <2> HIDE DEF to
  <2>3. delivery'[r] = to /\ \A q \in Runs : q # r => delivery'[q] = delivery[q]
    BY <2>1 DEF Types
  <2>4. delivery[r].phase = "Sending" /\ (arg = "confirmed" => receipts[r] = Segments)
    BY <1>10 DEF HasRead, RunKinds, Finds
  <2>5. Indexes'
    BY <2>1 DEF Indexed, Indexes, Present
  <2>6. Receipts'
    BY <2>1, <2>2, <2>3, <2>4 DEF Indexed, Receipts, DeliveredIsReceipted
  <2>7. ResultStaysPending'
    <3>1. CASE arg = "confirmed"
      BY <2>1, <2>2, <2>3, <3>1 DEF Indexed, ResultStaysPending, Types
    <3>2. CASE arg # "confirmed"
      BY <2>1, <2>2, <2>3, <2>4, <3>2 DEF Indexed, ResultStaysPending
    <3> QED
      BY <3>1, <3>2
  <2> QED
    BY <1>10, <2>1, <2>2, <2>3, <2>5, <2>6, <2>7 DEF Indexed, Grows
<1> QED
  BY <1>1, <1>2, <1>3, <1>4, <1>5, <1>6, <1>7, <1>8, <1>9, <1>10 DEF Kinds

(* A commit keeps the second invariant.  Its answer may be lost, but then  *)
(* the store is fenced.                                                    *)
LEMMA CommitKeepsMore ==
    ASSUME EInv, NEW c \in Callers, op[c].ret = "pending", Unchanged(c),
           Writes(op[c].kind, op[c].run, op[c].arg),
           NEW ret \in {"ok", "failed"}, NEW got, Replies(c, <<>>, ret, got),
           ret = "ok" => got = run'[op[c].run],
           fence' \in BOOLEAN, ~fence' => ret = "ok" /\ ~fence,
           UNCHANGED <<mode, storageFailed, token, pc, executed, sent>>
    PROVE  EInv'
<1> USE DEF EInv
<1> DEFINE kind == op[c].kind
           r == op[c].run
           arg == op[c].arg
<1>1. HasRead(kind, r, arg, op[c].seen[1]) /\ op[c].seen = Compared(kind, r, arg)
  BY DEF DInv, PendingOps, PendingOp, Unchanged
<1>2. kind \in Kinds /\ r \in Runs
  BY <1>1 DEF HasRead
<1>3. Finds(kind, r, arg)
  BY <1>2, UnchangedFinds DEF Reliances
<1>4. Indexed' /\ Grows(kind, r)
  <2>1. Writes(kind, r, arg)
    OBVIOUS
  <2> HIDE DEF kind, r, arg
  <2>2. HasRead(kind, r, arg, IF kind \in RunKinds THEN run[r] ELSE delivery[r])
    BY <1>1, <1>2, ComparedFirst DEF HasRead, Kinds, RunKinds, DeliveryKinds
  <2> QED
    BY <1>2, <1>3, <2>1, <2>2, WriteKeeps DEF DInv, Indexed, Switches
<1>5. Effect(kind, r) /\ DInv'
  BY CommitEffects, CommitKeeps
<1>6. /\ op'[c].kind = kind /\ op'[c].run = r /\ op'[c].arg = arg /\ op'[c].ret = ret
      /\ op'[c].got = got
      /\ \A d \in Callers : d # c => op'[d] = op[d]
  BY DEF Replies, DInv, Types
<1>7. Reliances'
  <2> SUFFICES ASSUME NEW d \in Callers, op'[d].ret = "pending" PROVE Relies(op[d])'
    BY DEF Reliances
  <2>1. d # c /\ op'[d] = op[d] /\ Relies(op[d]) /\ op[d].run \in Runs
    BY <1>6 DEF Reliances, DInv, PendingOps, PendingOp, HasRead
  <2>2. \A q \in Runs : /\ run[q].phase \in Terminal => run'[q] = run[q]
                        /\ run[q].phase # "absent" => run'[q].phase # "absent"
                        /\ receipts[q] = Segments => receipts'[q] = Segments
    <3>1. \A q \in Runs : run[q].phase \in Terminal => run'[q] = run[q]
      BY <1>5 DEF Effect
    <3>2. \A q \in Runs : /\ run[q].phase # "absent" => run'[q].phase # "absent"
                          /\ receipts[q] = Segments => receipts'[q] = Segments
      BY <1>4 DEF Grows, Indexed, Receipts
    <3> QED
      BY <3>1, <3>2
  <2> QED
    BY <2>1, <2>2 DEF Relies
<1>8. Senders'
  <2>1. \A h \in Hosts : Host(h)' = Host(h) /\ Reached(h)' = Reached(h)
    BY <1>6 DEF Host, Reached, Callers
  <2>2. \A h \in Hosts : h # c => (Sends(h)' <=> Sends(h))
    BY <1>6 DEF Sends, Callers
  <2>3. c \in Hosts /\ Sends(c)' /\ ~Sends(c)
           => kind = "deliver" /\ Host(c) = r /\ Reached(c) = 0 /\ delivery[r] = NoDelivery
    BY <1>3, <1>6 DEF Sends, Senders, Host, Reached, Finds
  <2>4. c \in Hosts /\ Sends(c)' /\ ~Sends(c)
           => /\ delivery'[r] # NoDelivery
              /\ \A i \in Segments : sent[r][i] = 0
              /\ \A h \in Hosts : Sends(h) => Host(h) # r
    BY <1>2, <1>4, <2>3 DEF Senders, Grows
  <2>5. \A h \in Hosts : Sends(h) => Host(h) \in Runs
    BY DEF Sends, DInv, CallerOf, Host, Callers
  <2>6. sent' \in [Runs -> [Segments -> Nat]]
        /\ \A q \in Runs : \A i \in Segments :
              sent'[q][i] <= 1 /\ (sent'[q][i] # 0 => delivery'[q] # NoDelivery)
    BY <1>4 DEF Senders, Grows
  <2>7. ASSUME NEW h \in Hosts, Sends(h)'
        PROVE  /\ delivery'[Host(h)'] # NoDelivery
               /\ Reached(h)' \in 0 .. MaxSegments
               /\ \A i \in Segments : i > Reached(h)' => sent'[Host(h)'][i] = 0
    <3>1. CASE Sends(h)
      BY <1>4, <2>1, <2>5, <3>1 DEF Senders, Grows
    <3>2. CASE ~Sends(h)
      BY <2>1, <2>2, <2>3, <2>4, <2>7, <3>2, DurableRunsAssumption
    <3> QED
      BY <3>1, <3>2
  <2>8. \A g, h \in Hosts : Sends(g)' /\ Sends(h)' /\ Host(g)' = Host(h)' => g = h
    BY <2>1, <2>2, <2>3, <2>4 DEF Senders
  <2>9. \A h \in Hosts : pc'[h] \in {"deliver", "receipt"} => op'[h].kind = pc'[h]
    BY <1>6 DEF Senders, Callers
  <2>10. ASSUME NEW h \in Hosts, pc'[h] = "receipt", op'[h].ret = "ok"
         PROVE  op'[h].arg \in receipts'[Host(h)']
    <3>1. CASE h # c
      <4>1. op'[h] = op[h] /\ op[h].arg \in receipts[Host(h)] /\ Host(h) \in Runs
        BY <1>6, <2>5, <2>10, <3>1 DEF Senders, Sends, Callers
      <4> QED
        BY <1>4, <2>1, <4>1 DEF Grows
    <3>2. CASE h = c
      <4>1. kind = "receipt"
        BY <2>10, <3>2 DEF Senders
      <4>2. receipts' = [receipts EXCEPT ![r] = @ \cup {arg}]
        BY <4>1 DEF Writes, WritesRun
      <4>3. arg \in receipts'[r]
        BY <1>2, <4>2 DEF Receipts
      <4> QED
        BY <1>6, <2>1, <3>2, <4>3 DEF Host
    <3> QED
      BY <3>1, <3>2
  <2> QED
    BY <2>6, <2>7, <2>8, <2>9, <2>10 DEF Senders
<1>9. Cancels'
  <2>1. \A h \in Hosts : Host(h)' = Host(h)
    BY <1>6 DEF Host, Callers
  <2>2. \A h \in Hosts : pc[h] \in {"bind", "turn"} => Host(h) \in Runs
    BY DEF DInv, CallerOf, Host, Callers
  <2>3. \A q \in Runs : Told(q) => Told(q)'
    BY <1>6 DEF Told, Tells, Callers
  <2>4. \A d \in Callers : op'[d].ret = "pending" /\ op'[d].kind = "cancel"
           => d \in Clients /\ pc'[d] = "cancel"
    BY <1>6 DEF Cancels
  <2>5. ASSUME NEW h \in Hosts, pc'[h] = "bind", op'[h].ret = "ok"
        PROVE  run'[Host(h)'].turn = "bound"
    <3>1. CASE h # c
      BY <1>4, <1>6, <2>1, <2>2, <2>5, <3>1 DEF Cancels, Grows, Callers
    <3>2. CASE h = c
      <4>1. kind = "bind" /\ Host(h) = r
        BY <2>5, <3>2 DEF DInv, CallerOf, ExecutionKinds, Host
      <4> QED
        BY <1>4, <2>1, <4>1 DEF Grows
    <3> QED
      BY <3>1, <3>2
  <2>6. \A h \in Hosts : pc'[h] = "turn" => Host(h)' \in token' \/ run'[Host(h)'].turn = "bound"
    BY <1>4, <2>1, <2>2 DEF Cancels, Grows
  <2>7. ASSUME ~fence', NEW h \in Hosts, run'[Host(h)].cancel = "yes", Host(h) \in Runs,
               run[Host(h)].turn = "bound", ~(run[Host(h)].cancel = "yes")
        PROVE  Told(Host(h))'
    <3>1. kind = "cancel" /\ Host(h) = r
      BY <1>4, <2>7 DEF Grows
    <3>2. c \in Clients /\ pc[c] = "cancel"
      BY <3>1 DEF Cancels
    <3>3. got.turn = "bound" /\ ret = "ok"
      BY <1>4, <2>7, <3>1 DEF Grows
    <3> QED
      BY <1>6, <2>1, <3>1, <3>2, <3>3 DEF Told, Tells
  <2>8. ASSUME ~fence', NEW h \in Hosts, pc'[h] = "turn", run'[Host(h)'].cancel = "yes"
        PROVE  Told(Host(h))'
    <3>1. Host(h) \in Runs /\ run'[Host(h)].cancel = "yes" /\ pc[h] = "turn" /\ ~fence
      BY <2>1, <2>2, <2>8
    <3>2. CASE run[Host(h)].cancel = "yes" \/ Host(h) \in token
      <4>1. Told(Host(h))
        BY <3>1, <3>2 DEF Cancels, Told
      <4> QED
        BY <2>1, <2>3, <3>1, <4>1
    <3>3. CASE ~(run[Host(h)].cancel = "yes" \/ Host(h) \in token)
      <4>1. run[Host(h)].turn = "bound"
        BY <3>1, <3>3 DEF Cancels
      <4> QED
        BY <2>1, <2>7, <2>8, <3>1, <3>3, <4>1
    <3> QED
      BY <3>2, <3>3
  <2>9. ASSUME ~fence', NEW h \in Hosts, pc'[h] = "bind", op'[h].ret = "ok",
               run'[Host(h)'].cancel = "yes"
        PROVE  Got(h)'.cancel = "yes" \/ Told(Host(h))'
    <3>1. Host(h) \in Runs /\ run'[Host(h)].cancel = "yes" /\ pc[h] = "bind" /\ ~fence
      BY <2>1, <2>2, <2>9
    <3>2. CASE h = c
      BY <1>6, <2>9, <3>1, <3>2 DEF Got, Host
    <3>3. CASE h # c /\ run[Host(h)].cancel = "yes"
      <4>1. op'[h] = op[h]
        BY <1>6, <3>3 DEF Callers
      <4>2. Got(h).cancel = "yes" \/ Told(Host(h))
        BY <2>9, <3>1, <3>3, <4>1 DEF Cancels
      <4> QED
        BY <2>1, <2>3, <3>1, <4>1, <4>2 DEF Got
    <3>4. CASE h # c /\ run[Host(h)].cancel # "yes"
      <4>1. op[h].ret = "ok"
        BY <1>6, <2>9, <3>4 DEF Callers
      <4>2. run[Host(h)].turn = "bound"
        BY <3>1, <4>1 DEF Cancels
      <4> QED
        BY <2>1, <2>7, <2>9, <3>1, <3>4, <4>2
    <3> QED
      BY <3>2, <3>3, <3>4
  <2> QED
    BY <2>4, <2>5, <2>6, <2>8, <2>9 DEF Cancels
<1>10. Switches'
  BY <1>4 DEF Switches, Indexed
<1> QED
  BY <1>4, <1>5, <1>7, <1>8, <1>9, <1>10 DEF Indexed

(* An operation that is refused, or reads again, keeps it too.             *)
LEMMA RepliesKeepMore ==
    ASSUME EInv, DInv', NEW c \in Callers, op[c].ret = "pending",
           NEW seen, NEW ret, NEW got, Replies(c, seen, ret, got),
           ret = "pending" => /\ op[c].kind \notin {"receipt", "settle"}
                              /\ seen = Compared(op[c].kind, op[c].run, op[c].arg)
                              /\ Reads(op[c].kind, op[c].run, op[c].arg) = "pending",
           op[c].kind \in {"bind", "deliver", "receipt"} => ret # "ok",
           fence' \in BOOLEAN, ~fence' => ~fence,
           UNCHANGED <<database, mode, storageFailed, token, pc, history>>
    PROVE  EInv'
<1> USE DEF EInv
<1>0. UNCHANGED <<run, active, inbox, outbox, count, owner, delivery, receipts, acked, sent>>
  BY DEF database, history
<1>1. /\ op'[c].kind = op[c].kind /\ op'[c].run = op[c].run /\ op'[c].arg = op[c].arg
      /\ op'[c].seen = seen /\ op'[c].ret = ret
      /\ \A d \in Callers : d # c => op'[d] = op[d]
  BY DEF Replies, DInv, Types
<1>2. op[c].kind \in Kinds /\ op[c].run \in Runs
  BY DEF DInv, PendingOps, PendingOp, HasRead
<1>3. Indexes' /\ ResultStaysPending' /\ Receipts' /\ Switches'
  BY <1>0 DEF Indexes, Present, ResultStaysPending, Receipts, DeliveredIsReceipted, Switches
<1>4. Reliances'
  <2> SUFFICES ASSUME NEW d \in Callers, op'[d].ret = "pending" PROVE Relies(op[d])'
    BY DEF Reliances
  <2>1. CASE d # c
    BY <1>0, <1>1, <2>1 DEF Reliances, Relies
  <2>2. CASE d = c
    <3>1. op[c].kind = "cancel" => run[op[c].run].phase # "absent"
      BY DEF Reliances, Relies
    <3>2. Relies(op'[c])
      BY <1>1, <1>2, <2>2, <3>1, ReadsRely
    <3> QED
      BY <1>0, <2>2, <3>2 DEF Relies
  <2> QED
    BY <2>1, <2>2
<1>5. Senders'
  <2>1. \A h \in Hosts : Host(h)' = Host(h) /\ Reached(h)' = Reached(h)
    BY <1>1 DEF Host, Reached, Callers
  <2>2. \A h \in Hosts : Sends(h)' => Sends(h)
    BY <1>1 DEF Sends, Callers, Senders
  <2>3. \A h \in Hosts : pc[h] \in {"deliver", "receipt"} => op'[h].kind = pc[h]
    BY <1>1 DEF Senders, Callers
  <2>4. \A h \in Hosts : pc[h] = "receipt" /\ op'[h].ret = "ok" => op'[h] = op[h]
    BY <1>1 DEF Senders, Callers
  <2> QED
    BY <1>0, <2>1, <2>2, <2>3, <2>4 DEF Senders
<1>6. Cancels'
  <2>1. \A h \in Hosts : Host(h)' = Host(h)
    BY <1>1 DEF Host, Callers
  <2>2. \A h \in Hosts : pc[h] = "bind" /\ op'[h].ret = "ok" => op'[h] = op[h]
    BY <1>1 DEF DInv, CallerOf, ExecutionKinds, Callers
  <2>4. \A h \in Hosts : Told(Host(h)) => Told(Host(h))'
    BY <1>1, <2>1 DEF Told, Tells, Callers
  <2>5. \A d \in Callers : op'[d].ret = "pending" /\ op'[d].kind = "cancel"
           => d \in Clients /\ pc'[d] = "cancel"
    BY <1>1 DEF Cancels
  <2> QED
    BY <1>0, <2>1, <2>2, <2>4, <2>5 DEF Cancels, Got
<1> QED
  BY <1>3, <1>4, <1>5, <1>6

(* Every step of the store's worker.                                       *)
LEMMA WorkerKeeps ==
    ASSUME EInv, NEW c \in Callers, Worker(c)
    PROVE  EInv'
<1> USE DEF process, history
<1>0. DInv' /\ fence \in BOOLEAN /\ op[c].ret = "pending"
  BY WorkerSteps DEF EInv, Switches, Worker, Commits, CommitUnknown, CommitFails, Conflicts
<1>1. CASE Commits(c)
  BY <1>0, <1>1, CommitKeepsMore DEF Commits
<1>2. CASE CommitUnknown(c)
  <2>1. CASE Unchanged(c) /\ Writes(op[c].kind, op[c].run, op[c].arg)
    BY <1>0, <1>2, <2>1, CommitKeepsMore DEF CommitUnknown, Answer
  <2>2. CASE UNCHANGED <<database, acked>>
    BY <1>0, <1>2, <2>2, RepliesKeepMore DEF CommitUnknown, Answer
  <2> QED
    BY <1>2, <2>1, <2>2 DEF CommitUnknown
<1>3. CASE CommitFails(c)
  BY <1>0, <1>3, RepliesKeepMore DEF CommitFails, Answer
<1>4. CASE Conflicts(c)
  <2>1. CASE Answer(c, IF op[c].kind = "deliver" THEN "existing" ELSE "conflict")
    BY <1>0, <1>4, <2>1, RepliesKeepMore DEF Conflicts, Answer
  <2>2. CASE /\ op[c].kind \in {"admit", "bind", "cancel", "finish", "reserve"}
             /\ Replies(c, Compared(op[c].kind, op[c].run, op[c].arg),
                        Reads(op[c].kind, op[c].run, op[c].arg), run[op[c].run])
    <3>1. op[c].kind = "bind" => Reads(op[c].kind, op[c].run, op[c].arg) # "ok"
      BY DEF Reads, BindReads
    <3> QED
      BY <1>0, <1>4, <2>2, <3>1, RepliesKeepMore DEF Conflicts
  <2> QED
    BY <1>4, <2>1, <2>2 DEF Conflicts
<1> QED
  BY <1>1, <1>2, <1>3, <1>4 DEF Worker

---------------------------------------------------------------------------
(* A host moves to "at" with the operation "o": how that bears on its      *)
(* delivery and on its turn.                                               *)
LEMMA HostMovesOn ==
    ASSUME EInv, DInv', NEW h \in Hosts, NEW at, NEW o, Moves(h), storageFailed' \in BOOLEAN,
           pc' = [pc EXCEPT ![h] = at], op' = [op EXCEPT ![h] = o],
           o.ret = "pending" => o.kind # "cancel",
           at \in {"deliver", "receipt"} => o.kind = at /\ o.ret # "ok",
           \/ sent' = sent /\ at # "receipt"
           \/ /\ Sends(h) /\ at # "deliver" /\ Reached(h) + 1 \in Segments
              /\ sent' = [sent EXCEPT ![Host(h)][Reached(h) + 1] = @ + 1]
              /\ at = "receipt" => o.arg = Reached(h) + 1 /\ o.run = Host(h),
           at = "bind" => o.ret # "ok",
           \/ at # "turn" /\ UNCHANGED token
           \/ /\ at = "turn" /\ pc[h] = "bind" /\ o.run = Host(h)
              /\ token' = IF op[h].ret # "ok" \/ Got(h).cancel = "yes"
                             THEN token \cup {Host(h)} ELSE token
    PROVE  EInv'
<1> USE DEF EInv
<1>0. h \in Callers /\ h \notin Clients
  BY DurableRunsAssumption DEF Callers
<1>1. UNCHANGED <<run, delivery, receipts, fence>>
  BY DEF Moves, database
<1>2. /\ op'[h] = o /\ pc'[h] = at
      /\ \A d \in Callers : d # h => op'[d] = op[d] /\ pc'[d] = pc[d]
  BY <1>0 DEF DInv, Types
<1>3. Indexes' /\ Reliances' /\ ResultStaysPending' /\ Receipts' /\ Switches'
  BY <1>0, MovesKeep
<1>4. Senders'
  <2> DEFINE i == Reached(h) + 1
  <2>0. Sends(h) => Host(h) \in Runs
    BY <1>0 DEF Sends, DInv, CallerOf, Host
  <2>1. \A g \in Hosts : g # h => /\ Sends(g)' <=> Sends(g)
                                  /\ Host(g)' = Host(g) /\ Reached(g)' = Reached(g)
    BY <1>2 DEF Sends, Host, Reached, Callers
  <2>2. Sends(h)' => at = "receipt" /\ Sends(h) /\ Host(h)' = Host(h) /\ Reached(h)' = i
    BY <1>2 DEF Sends, Host, Reached
  <2>3. CASE sent' = sent /\ at # "receipt"
    <3>1. ~Sends(h)'
      BY <2>2, <2>3
    <3> QED
      BY <1>1, <1>2, <2>1, <2>3, <3>1 DEF Senders, Callers
  <2>4. CASE /\ Sends(h) /\ at # "deliver" /\ i \in Segments
             /\ sent' = [sent EXCEPT ![Host(h)][i] = @ + 1]
    <3> DEFINE r == Host(h)
    <3>1. /\ Reached(h) \in 0 .. MaxSegments /\ delivery[r] # NoDelivery
          /\ \A j \in Segments : j > Reached(h) => sent[r][j] = 0
      BY <2>4 DEF Senders
    <3>2. sent[r][i] = 0
      BY <2>4, <3>1 DEF Segments
    <3>3. sent[r] \in [Segments -> Nat] /\ sent \in [Runs -> [Segments -> Nat]]
      BY <2>0, <2>4 DEF Senders
    <3>4. sent' = [sent EXCEPT ![r] = [sent[r] EXCEPT ![i] = 1]]
      BY <2>0, <2>4, <3>2, <3>3
    <3>5. [sent[r] EXCEPT ![i] = 1] \in [Segments -> Nat]
      BY <3>3
    <3>6. /\ sent' \in [Runs -> [Segments -> Nat]]
          /\ \A q \in Runs : q # r => sent'[q] = sent[q]
          /\ sent'[r][i] = 1
          /\ \A j \in Segments : j # i => sent'[r][j] = sent[r][j]
      BY <2>0, <2>4, <3>3, <3>4, <3>5
    <3> HIDE DEF r
    <3>7. \A g \in Hosts : g # h /\ Sends(g) => Host(g) # r /\ Host(g) \in Runs
      BY <2>4 DEF Senders, r, Sends, DInv, CallerOf, Host, Callers
    <3>8. \A q \in Runs : \A j \in Segments :
             sent'[q][j] <= 1 /\ (sent'[q][j] # 0 => delivery'[q] # NoDelivery)
      BY <1>1, <3>1, <3>6 DEF Senders
    <3>9. ASSUME NEW g \in Hosts, Sends(g)'
          PROVE  /\ delivery'[Host(g)'] # NoDelivery
                 /\ Reached(g)' \in 0 .. MaxSegments
                 /\ \A j \in Segments : j > Reached(g)' => sent'[Host(g)'][j] = 0
      <4>1. CASE g # h
        BY <1>1, <2>1, <3>6, <3>7, <3>9, <4>1 DEF Senders
      <4>2. CASE g = h
        <5>1. Host(g)' = r /\ Reached(g)' = i
          BY <2>2, <3>9, <4>2 DEF r
        <5>2. i \in 0 .. MaxSegments /\ i = Reached(h) + 1
          BY <2>4, <3>1 DEF Segments
        <5> HIDE DEF i
        <5>3. \A j \in Segments : j > i => sent'[r][j] = 0
          BY <3>1, <3>6, <5>2 DEF Segments
        <5> QED
          BY <1>1, <3>1, <5>1, <5>2, <5>3
      <4> QED
        BY <4>1, <4>2
    <3>10. \A f, g \in Hosts : Sends(f)' /\ Sends(g)' /\ Host(f)' = Host(g)' => f = g
      BY <2>1, <2>2, <3>7 DEF Senders, r
    <3>11. \A g \in Hosts : pc'[g] \in {"deliver", "receipt"} => op'[g].kind = pc'[g]
      BY <1>2 DEF Senders, Callers
    <3>12. \A g \in Hosts : pc'[g] = "receipt" /\ op'[g].ret = "ok"
              => op'[g].arg \in receipts'[Host(g)']
      BY <1>1, <1>2, <2>1 DEF Senders, Callers
    <3> QED
      BY <3>6, <3>8, <3>9, <3>10, <3>11, <3>12 DEF Senders
  <2> QED
    BY <2>3, <2>4
<1>5. Cancels'
  <2>0. at = "turn" => Host(h) \in Runs
    BY <1>0 DEF DInv, CallerOf, Host
  <2>1. \A g \in Hosts : g # h => Host(g)' = Host(g) /\ Got(g)' = Got(g)
    BY <1>2 DEF Host, Got, Callers
  <2>2. token \subseteq token' /\ token' \subseteq Runs
    BY <2>0 DEF Cancels
  <2>4. \A g \in Hosts : g # h /\ Told(Host(g)) => Told(Host(g))'
    BY <1>0, <1>2, <2>1, <2>2 DEF Told, Tells, Callers
  <2>5. at = "turn" /\ Told(Host(h)) => Told(Host(h))'
    BY <1>0, <1>2, <2>2 DEF Told, Tells, Callers, Host
  <2>6. at = "turn" => Host(h)' = Host(h)
    BY <1>2 DEF Host
  <2>7. \A d \in Callers : op'[d].ret = "pending" /\ op'[d].kind = "cancel"
           => d \in Clients /\ pc'[d] = "cancel"
    BY <1>2 DEF Cancels
  <2>8. at = "turn" => \/ Host(h) \in token'
                       \/ op[h].ret = "ok" /\ Got(h).cancel # "yes" /\ pc[h] = "bind"
    OBVIOUS
  <2>9. Host(h)' \in token' => Told(Host(h))'
    BY DEF Told
  <2>10. \A g \in Hosts : /\ pc'[g] = "bind" /\ op'[g].ret = "ok" => g # h
                          /\ g # h => pc'[g] = pc[g] /\ op'[g] = op[g]
    BY <1>2 DEF Callers
  <2>11. \A g \in Hosts : pc'[g] = "turn" => Host(g)' \in token' \/ run'[Host(g)'].turn = "bound"
    BY <1>1, <1>2, <2>1, <2>2, <2>6, <2>8, <2>10 DEF Cancels
  <2>12. ASSUME ~fence', NEW g \in Hosts, pc'[g] = "turn", run'[Host(g)'].cancel = "yes"
         PROVE  Told(Host(g))'
    <3>1. CASE g # h
      BY <1>1, <2>1, <2>4, <2>10, <2>12, <3>1 DEF Cancels
    <3>2. CASE g = h
      <4>1. at = "turn" /\ run[Host(h)].cancel = "yes"
        BY <1>1, <1>2, <2>6, <2>12, <3>2
      <4>2. CASE Host(h) \in token'
        BY <2>6, <2>9, <3>2, <4>1, <4>2
      <4>3. CASE Host(h) \notin token'
        <5>1. Told(Host(h))
          BY <1>1, <2>8, <2>12, <4>1, <4>3 DEF Cancels
        <5> QED
          BY <2>5, <3>2, <4>1, <5>1
      <4> QED
        BY <4>2, <4>3
    <3> QED
      BY <3>1, <3>2
  <2>13. ASSUME ~fence', NEW g \in Hosts, pc'[g] = "bind", op'[g].ret = "ok",
                run'[Host(g)'].cancel = "yes"
         PROVE  Got(g)'.cancel = "yes" \/ Told(Host(g))'
    BY <1>1, <2>1, <2>4, <2>10, <2>13 DEF Cancels
  <2>14. \A g \in Hosts : pc'[g] = "bind" /\ op'[g].ret = "ok" => run'[Host(g)'].turn = "bound"
    BY <1>1, <2>1, <2>10 DEF Cancels
  <2> QED
    BY <2>2, <2>7, <2>11, <2>12, <2>13, <2>14 DEF Cancels
<1> QED
  BY <1>3, <1>4, <1>5

(* A host that starts a store operation.                                   *)
LEMMA HostCalls ==
    ASSUME EInv, DInv', NEW h \in Hosts, NEW kind \in Kinds \ {"cancel"}, NEW r \in Runs,
           NEW arg, Call(h, kind, r, arg, kind),
           UNCHANGED <<mode, fence, acked, token, storageFailed>>,
           kind = "receipt" => arg \in Segments,
           kind = "settle" /\ arg = "confirmed" => receipts[r] = Segments,
           \/ sent' = sent /\ kind # "receipt"
           \/ /\ Sends(h) /\ kind # "deliver" /\ Reached(h) + 1 \in Segments
              /\ sent' = [sent EXCEPT ![Host(h)][Reached(h) + 1] = @ + 1]
              /\ kind = "receipt" => arg = Reached(h) + 1 /\ r = Host(h)
    PROVE  EInv'
<1> DEFINE o == [kind |-> kind, run |-> r, arg |-> arg, seen |-> Compared(kind, r, arg),
                 ret |-> Reads(kind, r, arg), got |-> run[r]]
<1>1. pc' = [pc EXCEPT ![h] = kind] /\ op' = [op EXCEPT ![h] = o]
  BY DEF Call
<1>2. o.kind = kind /\ o.run = r /\ o.arg = arg /\ o.ret = Reads(kind, r, arg)
  OBVIOUS
<1> HIDE DEF o
<1>3. kind \in {"deliver", "receipt", "bind"} => Reads(kind, r, arg) # "ok"
  BY DEF Reads, DeliverReads, ReceiptReads, BindReads
<1>4. Moves(h)
  <2>1. Starts(h, kind, r, arg, kind)
    BY DEF Starts
  <2> QED
    BY <2>1 DEF Moves, Starts, Call
<1>5. storageFailed' \in BOOLEAN /\ kind # "turn"
  BY DEF EInv, Switches, Kinds
<1> QED
  BY <1>1, <1>2, <1>3, <1>4, <1>5, HostMovesOn

(* A host that is done.                                                    *)
LEMMA HostEnds ==
    ASSUME EInv, DInv', NEW h \in Hosts, Ends(h), storageFailed' \in BOOLEAN,
           UNCHANGED <<mode, fence, acked, token, sent>>
    PROVE  EInv'
<1>1. NoOp.ret = "none"
  BY DEF NoOp
<1>2. Moves(h)
  BY <1>1 DEF Moves, Ends
<1>3. pc' = [pc EXCEPT ![h] = "ended"] /\ op' = [op EXCEPT ![h] = NoOp]
  BY DEF Ends
<1> QED
  BY <1>1, <1>2, <1>3, HostMovesOn

(* Every step of a host.                                                   *)
LEMMA HostKeeps ==
    ASSUME EInv, NEW h \in Hosts, HostStep(h)
    PROVE  EInv'
<1> USE DEF Quiet, process, history, Returned
<1>0. DInv' /\ h \in Callers /\ storageFailed \in BOOLEAN
  BY HostSteps DEF EInv, Callers, Switches
<1>1. pc[h] \notin {"idle", "ended"} => mode = "open" /\ Host(h) \in Runs
  BY <1>0 DEF EInv, DInv, CallerOf, Host
<1>2. ASSUME Ends(h), storageFailed' \in BOOLEAN, UNCHANGED <<mode, fence, acked, token, sent>>
      PROVE  EInv'
  BY <1>0, <1>2, HostEnds
<1>3. CASE Submit(h)
  BY <1>0, <1>3, HostCalls DEF Submit, Kinds
<1>4. CASE Admitted(h)
  <2>1. CASE Call(h, "claim", Host(h), 0, "claim")
    BY <1>0, <1>1, <1>4, <2>1, HostCalls DEF Admitted, Kinds
  <2> QED
    BY <1>0, <1>2, <1>4, <2>1 DEF Admitted
<1>5. CASE Refused(h) \/ NotMine(h) \/ Settled(h)
  BY <1>0, <1>2, <1>5 DEF Refused, NotMine, Settled
<1>6. CASE ClaimRefused(h) \/ FinishFails(h)
  <2>1. storageFailed' \in BOOLEAN
    BY <1>0, <1>6 DEF ClaimRefused, FinishFails
  <2> QED
    BY <1>2, <1>6, <2>1 DEF ClaimRefused, FinishFails
<1>7. CASE ExecuteChannel(h)
  <2>1. PICK result \in {"completed", "null", "outcome_unknown"} :
           Call(h, "finish", Host(h), result, "finish")
    BY <1>7 DEF ExecuteChannel
  <2> QED
    BY <1>0, <1>1, <1>7, <2>1, HostCalls DEF ExecuteChannel, Kinds
<1>8. CASE ExecuteGateway(h)
  <2>1. CASE Call(h, "bind", Host(h), 0, "bind")
    BY <1>0, <1>1, <1>8, <2>1, HostCalls DEF ExecuteGateway, Kinds
  <2>2. CASE Call(h, "finish", Host(h), "failed", "finish")
    BY <1>0, <1>1, <1>8, <2>2, HostCalls DEF ExecuteGateway, Kinds
  <2> QED
    BY <1>8, <2>1, <2>2 DEF ExecuteGateway
<1>9. CASE Bound(h)
  <2> DEFINE o == [NoOp EXCEPT !.run = Host(h)]
  <2>1. op' = [op EXCEPT ![h] = o] /\ pc' = [pc EXCEPT ![h] = "turn"]
    BY <1>9 DEF Bound, Idle
  <2>2. o.ret = "none" /\ o.run = Host(h)
    BY DEF NoOp
  <2> HIDE DEF o
  <2>3. Moves(h)
    BY <1>9, <2>1, <2>2 DEF Bound, Moves
  <2>4. storageFailed' \in BOOLEAN
    BY <1>0, <1>9 DEF Bound
  <2>5. /\ pc[h] = "bind" /\ sent' = sent
        /\ token' = IF op[h].ret # "ok" \/ Got(h).cancel = "yes"
                       THEN token \cup {Host(h)} ELSE token
    BY <1>9 DEF Bound
  <2> QED
    BY <1>0, <2>1, <2>2, <2>3, <2>4, <2>5, HostMovesOn
<1>10. CASE TurnEnds(h)
  <2>1. PICK result \in {"completed", "cancelled", "failed", "outcome_unknown"} :
           Call(h, "finish", Host(h), result, "finish")
    BY <1>10 DEF TurnEnds
  <2> QED
    BY <1>0, <1>1, <1>10, <2>1, HostCalls DEF TurnEnds, Kinds
<1>12. CASE Finished(h)
  <2>1. CASE Call(h, "ack", Host(h), Got(h).rev, "ack")
    BY <1>0, <1>1, <1>12, <2>1, HostCalls DEF Finished, Kinds
  <2> QED
    BY <1>0, <1>2, <1>12, <2>1 DEF Finished
<1>13. ASSUME NEW at \in {"admit", "finish"}, Answered(h, at) PROVE EInv'
  <2>1. CASE Call(h, "deliver", Host(h), Got(h).rev, "deliver")
    BY <1>0, <1>1, <1>13, <2>1, HostCalls DEF Answered, Kinds
  <2> QED
    BY <1>0, <1>2, <1>13, <2>1 DEF Answered
<1>14. ASSUME Sends(h), Reached(h) + 1 \in Segments, Send(h, Reached(h) + 1) PROVE EInv'
  <2>0. Host(h) \in Runs
    BY <1>1, <1>14 DEF Sends
  <2> DEFINE i == Reached(h) + 1
  <2>1. UNCHANGED <<mode, fence, acked, token, storageFailed>>
    BY <1>14 DEF Send
  <2>2. CASE Call(h, "receipt", Host(h), i, "receipt") /\ sent' = [sent EXCEPT ![Host(h)][i] = @ + 1]
    BY <1>0, <1>14, <2>0, <2>1, <2>2, HostCalls DEF Kinds
  <2>3. CASE /\ Call(h, "settle", Host(h), "unconfirmed", "settle")
             /\ sent' = [sent EXCEPT ![Host(h)][i] = @ + 1] \/ sent' = sent
    BY <1>0, <1>14, <2>0, <2>1, <2>3, HostCalls DEF Kinds
  <2> QED
    BY <1>14, <2>2, <2>3 DEF Send
<1>15. CASE FirstSegment(h)
  <2>1. Sends(h) /\ Reached(h) = 0 /\ Send(h, 1)
    BY <1>15 DEF FirstSegment, Sends, Reached
  <2> QED
    BY <1>14, <2>1, DurableRunsAssumption DEF Segments
<1>16. CASE Receipt(h)
  <2>0. pc[h] = "receipt" /\ Sends(h) /\ Reached(h) = op[h].arg /\ Host(h) \in Runs
    BY <1>1, <1>16 DEF Receipt, Sends, Reached
  <2>1. op[h].arg \in 0 .. MaxSegments
    BY <2>0 DEF EInv, Senders
  <2>2. CASE op[h].arg < MaxSegments /\ Send(h, op[h].arg + 1)
    BY <1>14, <2>0, <2>1, <2>2, DurableRunsAssumption DEF Segments
  <2>3. CASE op[h].ret = "ok" /\ op[h].arg >= MaxSegments
             /\ Call(h, "settle", Host(h), "confirmed", "settle") /\ Quiet
    <3>0. op[h].arg \in receipts[Host(h)]
      BY <2>0, <2>3 DEF EInv, Senders
    <3>1. op[h].arg \in receipts[Host(h)] /\ op[h].arg = MaxSegments
      BY <2>1, <2>3, <3>0, DurableRunsAssumption
    <3>2. PICK k \in 0 .. MaxSegments : receipts[Host(h)] = 1 .. k
      BY <2>0 DEF EInv, Receipts
    <3>3. receipts[Host(h)] = Segments
      BY <3>1, <3>2, DurableRunsAssumption DEF Segments
    <3> QED
      BY <1>0, <2>0, <2>3, <3>3, HostCalls DEF Kinds
  <2>4. CASE Call(h, "settle", Host(h), "unconfirmed", "settle") /\ Quiet
    BY <1>0, <2>0, <2>4, HostCalls DEF Kinds
  <2> QED
    BY <1>16, <2>1, <2>2, <2>3, <2>4, DurableRunsAssumption DEF Receipt
<1>17. CASE Dropped(h)
  <2> DEFINE o == op[h]
  <2>1. op' = [op EXCEPT ![h] = o] /\ pc' = [pc EXCEPT ![h] = "ended"]
    BY <1>17 DEF Dropped, EInv, DInv, Types
  <2>2. Moves(h) /\ sent' = sent /\ token' = token /\ storageFailed' = storageFailed
    BY <1>17 DEF Dropped, Moves
  <2>3. o.ret = "pending" => o.kind # "cancel"
    BY <1>0, <1>17 DEF Dropped, EInv, Cancels
  <2> HIDE DEF o
  <2> QED
    BY <1>0, <2>1, <2>2, <2>3, HostMovesOn
<1> QED
  BY <1>3, <1>4, <1>5, <1>6, <1>7, <1>8, <1>9, <1>10, <1>12, <1>13, <1>15, <1>16, <1>17
  DEF HostStep

---------------------------------------------------------------------------
(* A client moves to "at" with the operation "o": it tells the turn of a   *)
(* cancellation that is stored before it goes away.                        *)
LEMMA ClientMovesOn ==
    ASSUME EInv, DInv', NEW c \in Clients, NEW at, NEW o, Moves(c),
           pc' = [pc EXCEPT ![c] = at], op' = [op EXCEPT ![c] = o],
           o.ret = "pending" /\ o.kind = "cancel" => at = "cancel",
           UNCHANGED <<sent, storageFailed>>,
           token \subseteq token', token' \subseteq Runs,
           \A r \in Runs : Tells(c, r) => r \in token'
    PROVE  EInv'
<1> USE DEF EInv
<1>0. c \in Callers /\ c \notin Hosts
  BY DurableRunsAssumption DEF Callers
<1>1. UNCHANGED <<run, delivery, receipts, fence>>
  BY DEF Moves, database
<1>2. /\ op'[c] = o /\ pc'[c] = at
      /\ \A d \in Callers : d # c => op'[d] = op[d] /\ pc'[d] = pc[d]
  BY <1>0 DEF DInv, Types
<1>3. Indexes' /\ Reliances' /\ ResultStaysPending' /\ Receipts' /\ Switches'
  BY <1>0, MovesKeep DEF Switches
<1>4. \A h \in Hosts : op'[h] = op[h] /\ pc'[h] = pc[h]
  BY <1>0, <1>2 DEF Callers
<1>5. Senders'
  <2>1. \A h \in Hosts : /\ Sends(h)' <=> Sends(h)
                         /\ Host(h)' = Host(h) /\ Reached(h)' = Reached(h)
    BY <1>4 DEF Sends, Host, Reached
  <2> QED
    BY <1>1, <1>4, <2>1 DEF Senders
<1>6. Cancels'
  <2>1. \A h \in Hosts : Host(h)' = Host(h) /\ Got(h)' = Got(h)
    BY <1>4 DEF Host, Got
  <2>2. ASSUME NEW h \in Hosts, Host(h) \in Runs, Told(Host(h)) PROVE Told(Host(h))'
    <3>1. CASE Tells(c, Host(h)) \/ Host(h) \in token
      BY <2>1, <2>2, <3>1 DEF Told
    <3>2. CASE \E d \in Clients : d # c /\ Tells(d, Host(h))
      BY <1>2, <2>1, <3>2 DEF Told, Tells, Callers
    <3> QED
      BY <2>2, <3>1, <3>2 DEF Told
  <2>3. \A d \in Callers : op'[d].ret = "pending" /\ op'[d].kind = "cancel"
           => d \in Clients /\ pc'[d] = "cancel"
    BY <1>2 DEF Cancels
  <2>4. \A h \in Hosts : pc[h] \in {"turn", "bind"} => Host(h) \in Runs
    BY DEF DInv, CallerOf, Host, Callers
  <2> QED
    BY <1>1, <1>4, <2>1, <2>2, <2>3, <2>4 DEF Cancels
<1> QED
  BY <1>3, <1>5, <1>6

(* Every step of a client.                                                 *)
LEMMA ClientKeeps ==
    ASSUME EInv, NEW c \in Clients, ClientStep(c)
    PROVE  EInv'
<1> USE DEF Quiet, process, history, Returned
<1>0. DInv' /\ c \in Callers /\ token \subseteq Runs
  BY ClientSteps DEF EInv, Callers, Cancels
<1>1. ASSUME NEW kind \in {"cancel", "ack", "reserve"}, NEW r \in Runs, NEW arg, NEW at,
             Call(c, kind, r, arg, at), pc[c] = "idle", kind = "cancel" => at = "cancel",
             kind = "cancel" => run[r] # NoRun, Quiet
      PROVE  EInv'
  <2> DEFINE o == [kind |-> kind, run |-> r, arg |-> arg, seen |-> Compared(kind, r, arg),
                   ret |-> Reads(kind, r, arg), got |-> run[r]]
  <2>1. pc' = [pc EXCEPT ![c] = at] /\ op' = [op EXCEPT ![c] = o]
    BY <1>1 DEF Call
  <2>2. o.kind = kind
    OBVIOUS
  <2> HIDE DEF o
  <2>3. kind = "cancel" => run[r].phase # "absent"
    BY <1>1 DEF EInv, Indexes
  <2>4. Starts(c, kind, r, arg, at)
    BY <1>1, <2>3 DEF Starts, Kinds
  <2>5. Moves(c)
    BY <1>1, <2>4 DEF Moves, Call
  <2>6. \A q \in Runs : ~Tells(c, q)
    BY <1>1 DEF Tells
  <2> QED
    BY <1>0, <1>1, <2>1, <2>2, <2>5, <2>6, ClientMovesOn
<1>2. CASE CancelRun(c)
  <2>1. PICK r \in GatewayRuns : run[r] # NoRun /\ Call(c, "cancel", r, 0, "cancel")
    BY <1>2 DEF CancelRun
  <2>2. r \in Runs
    BY DEF Runs
  <2> QED
    BY <1>1, <1>2, <2>1, <2>2 DEF CancelRun
<1>3. CASE Acknowledge(c)
  <2>1. PICK r \in Runs : \E rev \in 1 .. run[r].rev : Call(c, "ack", r, rev, "call")
    BY <1>3 DEF Acknowledge, Runs
  <2> QED
    BY <1>1, <1>3, <2>1 DEF Acknowledge
<1>4. CASE Reserve(c)
  <2>1. PICK r \in Runs : Call(c, "reserve", r, 0, "call")
    BY <1>4 DEF Reserve
  <2> QED
    BY <1>1, <1>4, <2>1 DEF Reserve
<1>5. CASE CancelReturns(c) \/ ClientReturns(c)
  <2>1. pc' = [pc EXCEPT ![c] = "idle"] /\ op' = [op EXCEPT ![c] = NoOp] /\ NoOp.ret = "none"
    BY <1>5 DEF CancelReturns, ClientReturns, NoOp
  <2>2. Moves(c) /\ UNCHANGED <<sent, storageFailed>>
    BY <1>5, <2>1 DEF CancelReturns, ClientReturns, Moves
  <2>3. op[c].run \in Runs
    BY <1>0, <1>5 DEF EInv, DInv, CallerOf, CancelReturns, ClientReturns
  <2>4. token \subseteq token' /\ token' \subseteq Runs
    BY <1>0, <1>5, <2>3 DEF CancelReturns, ClientReturns
  <2>5. \A r \in Runs : Tells(c, r) => r \in token'
    BY <1>5 DEF CancelReturns, ClientReturns, Tells, Got
  <2> QED
    BY <1>0, <2>1, <2>2, <2>4, <2>5, ClientMovesOn
<1> QED
  BY <1>2, <1>3, <1>4, <1>5 DEF ClientStep

---------------------------------------------------------------------------
(* Without callers only the database matters.                              *)
LEMMA QuiescentKeeps ==
    ASSUME DInv', Indexed', Switches', token' \subseteq Runs,
           \A c \in Callers : op'[c] = NoOp /\ pc'[c] \in {"idle", "ended"},
           Senders, sent' = sent,
           \A r \in Runs : delivery[r] # NoDelivery => delivery'[r] # NoDelivery
    PROVE  EInv'
<1>1. Reliances' /\ Cancels'
  BY DEF Reliances, Cancels, NoOp, Callers
<1>2. Senders'
  BY DEF Senders, Sends, Callers
<1> QED
  BY <1>1, <1>2 DEF EInv, Indexed

(* A crash, and every step of the recovery.                                *)
LEMMA RecoveryKeeps ==
    ASSUME EInv,
           \/ \E r \in Runs : RecoverRun(r) \/ RecoverDelivery(r)
           \/ RunsRecovered \/ Open \/ Crash
    PROVE  EInv'
<1> USE DEF process, history
<1>1. DInv'
  BY RecoverySteps, CrashStep DEF EInv
<1>2. /\ \A c \in Callers : op'[c] = NoOp /\ pc'[c] \in {"idle", "ended"}
      /\ sent' = sent /\ acked' = acked /\ token' \subseteq Runs
  <2>1. CASE Crash
    BY <2>1 DEF Crash
  <2>2. CASE ~Crash
    <3>1. mode # "open" /\ UNCHANGED <<pc, op, sent, acked, token>>
      BY <2>2 DEF RecoverRun, RecoverDelivery, RunsRecovered, Open
    <3> QED
      BY <3>1 DEF EInv, DInv, CallerOf, Cancels
  <2> QED
    BY <2>1, <2>2
<1>3. Switches'
  BY <1>2 DEF EInv, Switches, RecoverRun, RecoverDelivery, RunsRecovered, Open, Crash
<1>4. Types /\ Indexed /\ Senders
  BY DEF EInv, DInv, Indexed, Switches
<1>5. ASSUME Indexed', \A r \in Runs : delivery[r] # NoDelivery => delivery'[r] # NoDelivery
      PROVE  EInv'
  BY <1>1, <1>2, <1>3, <1>4, <1>5, QuiescentKeeps
<1>6. ASSUME UNCHANGED <<run, active, outbox, count, owner, delivery, receipts>>, inbox' = inbox
      PROVE  EInv'
  <2>1. Indexed'
    BY <1>2, <1>4, <1>6
    DEF Indexed, Indexes, Present, ResultStaysPending, Receipts, DeliveredIsReceipted
  <2> QED
    BY <1>5, <1>6, <2>1
<1>7. CASE Open \/ Crash
  BY <1>6, <1>7 DEF Open, Crash, database
<1>8. CASE RunsRecovered
  <2>1. inbox' = inbox
    BY <1>4, <1>8 DEF RunsRecovered, Indexed, Indexes
  <2> QED
    BY <1>6, <1>8, <2>1 DEF RunsRecovered
<1>9. ASSUME NEW r \in Runs, RecoverRun(r) PROVE EInv'
  <2> DEFINE to == [Revised(r) EXCEPT !.phase = "OutcomeUnknown", !.result = "outcome_unknown"]
  <2>1. /\ FinishChanges(r, to) /\ UNCHANGED <<count, owner, delivery, receipts, acked>>
        /\ run[r].phase = "Executing"
    BY <1>9 DEF RecoverRun
  <2>2. run[r] \in RunRecord
    BY <1>4 DEF Types
  <2>3. to \in RunRecord /\ to.phase = "OutcomeUnknown"
    <3>1. run[r].rev + 1 \in Nat
      BY <2>2 DEF RunRecord
    <3> QED
      BY <2>2, <3>1 DEF Revised, RunRecord, RunPhase, RunResult
  <2> HIDE DEF to
  <2>4. Indexed'
    BY <1>4, <2>1, <2>3, FinishKeeps DEF Terminal
  <2> QED
    BY <1>5, <2>1, <2>4
<1>10. ASSUME NEW r \in Runs, RecoverDelivery(r) PROVE EInv'
  <2> DEFINE to == [delivery[r] EXCEPT !.phase = "OutcomeUnknown"]
  <2>1. /\ delivery' = [delivery EXCEPT ![r] = to] /\ delivery[r].phase = "Sending"
        /\ UNCHANGED <<run, active, inbox, outbox, count, owner, receipts, acked>>
    BY <1>10 DEF RecoverDelivery
  <2>2. to.phase = "OutcomeUnknown"
    BY <1>4 DEF Types
  <2> HIDE DEF to
  <2>3. delivery'[r] = to /\ \A q \in Runs : q # r => delivery'[q] = delivery[q]
    BY <1>4, <2>1 DEF Types
  <2>4. Indexed'
    BY <1>4, <2>1, <2>2, <2>3
    DEF Indexed, Indexes, Present, ResultStaysPending, Receipts, DeliveredIsReceipted
  <2>5. \A q \in Runs : delivery[q] # NoDelivery => delivery'[q] # NoDelivery
    BY <2>2, <2>3 DEF NoDelivery
  <2> QED
    BY <1>5, <2>4, <2>5
<1> QED
  BY <1>7, <1>8, <1>9, <1>10

(* Every step keeps the second invariant, and so does a step of something  *)
(* else.                                                                   *)
LEMMA NextEInv == EInv /\ [Next]_vars => EInv'
<1> SUFFICES ASSUME EInv, [Next]_vars PROVE EInv'
  OBVIOUS
<1>1. CASE UNCHANGED vars
  <2>1. UNCHANGED <<run, active, inbox, outbox, count, owner, delivery, receipts, mode, fence,
                    storageFailed, pc, op, token, sent, acked>>
    BY <1>1 DEF vars, database, process, history
  <2>2. DInv'
    BY NextDInv DEF EInv
  <2>3. Indexes' /\ ResultStaysPending' /\ Receipts' /\ Switches'
    BY <2>1 DEF EInv, Indexes, Present, ResultStaysPending, Receipts, DeliveredIsReceipted,
                Switches
  <2>4. Reliances' /\ Senders'
    BY <2>1 DEF EInv, Reliances, Relies, Senders, Sends, Host, Reached
  <2>5. Cancels'
    BY <2>1 DEF EInv, Cancels, Told, Tells, Host, Got
  <2> QED
    BY <2>2, <2>3, <2>4, <2>5 DEF EInv
<1>2. CASE Next
  BY <1>2, HostKeeps, ClientKeeps, WorkerKeeps, RecoveryKeeps DEF Next
<1> QED
  BY <1>1, <1>2

(* The second invariant holds in every state.                              *)
THEOREM DurableRunsSecondInvariant == Spec => []EInv
BY InitEInv, NextEInv, PTL DEF Spec

(* Types; admissions that race with each other never push the store over   *)
(* the quota it retains (admit_run()).                                     *)
THEOREM QuotaIsKept == Spec => []TypeOK
<1>1. ASSUME EInv PROVE TypeOK
  <2>1. \A r \in Runs : run[r] = NoRun \/ run[r] \in DurableRun
    <3> SUFFICES ASSUME NEW r \in Runs, run[r].phase # "absent" PROVE run[r] \in DurableRun
      BY <1>1 DEF EInv, Indexes
    <3>1. run[r] \in RunRecord
      BY <1>1 DEF EInv, DInv, Types
    <3> QED
      BY <3>1 DEF RunRecord, DurableRun
  <2>2. count \in 0 .. MaxRetainedRuns
    <3>1. Cardinality(Present) \in Nat
      BY <1>1, FS_CardinalityType DEF EInv, Indexes
    <3> QED
      BY <1>1, <3>1, DurableRunsAssumption DEF EInv, Indexes
  <2>3. active \subseteq Runs /\ inbox \subseteq Runs
    BY <1>1 DEF EInv, Indexes
  <2>4. outbox \in [Runs -> Nat] /\ delivery \in [Runs -> [phase : DeliveryPhase, rev : Nat]]
    BY <1>1 DEF EInv, DInv, Types
  <2> QED
    BY <1>1, <2>1, <2>2, <2>3, <2>4 DEF EInv, Indexes, Receipts, Cancels, Switches, TypeOK
<1> QED
  BY <1>1, DurableRunsSecondInvariant, PTL

(* No segment of a reply goes out twice, however often its message is      *)
(* redelivered, a receipt fails or the process restarts                    *)
(* (claim_run_delivery(), send_discord_reply_once()).                      *)
THEOREM RepliesGoOutOnce == Spec => []SegmentsSentOnce
<1>1. EInv => SegmentsSentOnce
  BY DEF EInv, Senders, SegmentsSentOnce
<1> QED
  BY <1>1, DurableRunsSecondInvariant, PTL

(* A reply counts as delivered only when every segment has its receipt     *)
(* (finish_run_delivery()).                                               *)
THEOREM DeliveriesAreReceipted == Spec => []DeliveredIsReceipted
<1>1. EInv => DeliveredIsReceipted
  BY DEF EInv, Receipts
<1> QED
  BY <1>1, DurableRunsSecondInvariant, PTL

(* A result stays announced until it is delivered, or acknowledged at its  *)
(* own revision (acknowledge_run()).                                       *)
THEOREM ResultsStayAnnounced == Spec => []ResultStaysPending
<1>1. EInv => ResultStaysPending
  BY DEF EInv
<1> QED
  BY <1>1, DurableRunsSecondInvariant, PTL

(* The active and inbox markers, the retained count and the session owners *)
(* tell the truth about the runs, after every commit and every crash, and  *)
(* racing admissions never push the count over the quota (admit_run()).    *)
THEOREM IndexesAlwaysAgree == Spec => []IndexesAgree
<1>1. ASSUME EInv PROVE IndexesAgree
  <2>1. \A r \in Runs : run[r] # NoRun => owner[r] = r
    BY <1>1 DEF EInv, Indexes
  <2> QED
    BY <1>1, <2>1 DEF EInv, Indexes, IndexesAgree, Present
<1> QED
  BY <1>1, DurableRunsSecondInvariant, PTL

(* A cancellation on record reaches the turn: gateway_abort() tells a turn *)
(* it found bound, and the binding tells one it finds cancelled.           *)
THEOREM CancellationsArrive == Spec => []CancelReachesTurn
<1>1. EInv => CancelReachesTurn
  BY DEF EInv, Cancels, CancelReachesTurn, Told, Tells
<1> QED
  BY <1>1, DurableRunsSecondInvariant, PTL
=============================================================================
