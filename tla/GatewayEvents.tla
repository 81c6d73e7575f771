--------------------------- MODULE GatewayEvents ---------------------------
(***************************************************************************)
(* The gateway's event bus and the connections it feeds                    *)
(* (crates/claw-gateway/src/events.rs, connection.rs, authority.rs).       *)
(* Publishers run on any thread: the ordinal of a publication is taken     *)
(* before the subscriber lock, the fan-out happens under it, and a         *)
(* subscriber whose bounded queue would overflow is recorded as lagging    *)
(* and removed.  A connection pops its queue without the lock,             *)
(* revalidates its authorisation against the device directory and writes.  *)
(* The server publishes `shutdown` before it signals it.                   *)
(*                                                                         *)
(* Modelled: operators, one device per connection, events that belong to   *)
(* no topic group and to no device (the topic filter and the device check  *)
(* admit them).  Requests and pings only make the connection revalidate.   *)
(***************************************************************************)
EXTENDS Integers, Sequences, FiniteSets

CONSTANTS Publishers,     \* threads that publish
          Conns,          \* connections, each of a device of its own
          Grants,         \* scope sets a device may be granted
          Drafts,         \* [audience, scope, size] of what may be published
          Broadcast,      \* EventAudience::Broadcast
          Anyone,         \* EventVisibility::AllAuthenticated
          None,           \* no grant, nobody, nothing
          Capacity,       \* event_queue_capacity
          QueueBytes,     \* event_queue_bytes
          MaxOrdinal,     \* bound on publications
          MaxGeneration   \* bound on changes of the directory

Scopes == {"read", "write", "admin"}

ASSUME LimitsAssumption == Capacity \in Nat \ {0} /\ QueueBytes \in Nat
ASSUME BoundsAssumption == MaxOrdinal \in Nat /\ MaxGeneration \in Nat
ASSUME NamesAssumption ==
    /\ None \notin Publishers \cup Conns
    /\ Broadcast \notin Conns /\ Anyone \notin Scopes
    /\ Grants \subseteq SUBSET Scopes /\ None \notin Grants
    /\ Conns \cap {"idle", "lock", "fan"} = {}
ASSUME DraftsAssumption ==
    Drafts \subseteq [audience : Conns \cup {Broadcast}, scope : Scopes \cup {Anyone},
                      size : Nat \ {0}]

ShutdownDraft == [audience |-> Broadcast, scope |-> Anyone, size |-> 1]
Envelopes == [ordinal : Nat, draft : Drafts \cup {ShutdownDraft}, shutdown : BOOLEAN]

ASSUME NoneAssumption == None \notin Envelopes

VARIABLES
    \* the bus
    ordinal,      \* last publication ordinal
    busLock,      \* holder of the subscribers mutex
    subs,         \* connections with a live subscription
    subScopes,    \* the scopes fan-out uses for each subscriber
    queue,        \* bounded queue of each subscriber
    bytes,        \* queued_bytes (negative: wrapped below zero)
    firstMissed,  \* ordinal of the first publication not enqueued, or 0
    \* publishers
    ppc, env, todo, lagging,
    \* the device directory
    grant,        \* scopes each device is granted as an operator, or None
    generation, directoryLocked,
    \* connections
    cpc, scopes, authorizedAt, seen, item, left, broadcastSeq, reason,
    \* the server handle
    shutdown,
    \* history
    admitted,     \* envelopes admitted for a connection, in lock order
    taken,        \* envelopes its task took from the queue
    wire          \* sequence numbers of the broadcasts written to the peer

busVars == <<ordinal, busLock, subs, subScopes, queue, bytes, firstMissed>>
pubVars == <<ppc, env, todo, lagging>>
dirVars == <<grant, generation, directoryLocked>>
connVars == <<cpc, scopes, authorizedAt, seen, item, left, broadcastSeq, reason>>
histVars == <<admitted, taken, wire>>
vars == <<busVars, pubVars, dirVars, connVars, shutdown, histVars>>

\* satisfies() and EventVisibility::admits() for an operator.
Satisfies(granted, required) ==
    \/ "admin" \in granted
    \/ required \in granted
    \/ required = "read" /\ "write" \in granted

Admits(e, granted) == e.draft.scope = Anyone \/ Satisfies(granted, e.draft.scope)

\* What the fan-out offers to one subscriber.
Addressed(e, c) ==
    /\ e.draft.audience \in {Broadcast, c}
    /\ Admits(e, subScopes[c])

\* would_exceed_bytes, or try_send() on a full queue.
Overflows(e, c) ==
    \/ bytes[c] # 0 /\ (bytes[c] < 0 \/ bytes[c] + e.draft.size > QueueBytes)
    \/ Len(queue[c]) = Capacity

Init ==
    /\ ordinal = 0 /\ busLock = None /\ subs = {}
    /\ subScopes = [c \in Conns |-> {}]
    /\ queue = [c \in Conns |-> <<>>]
    /\ bytes = [c \in Conns |-> 0]
    /\ firstMissed = [c \in Conns |-> 0]
    /\ ppc = [q \in Publishers |-> "idle"]
    /\ env = [q \in Publishers |-> None]
    /\ todo = [q \in Publishers |-> {}]
    /\ lagging = [q \in Publishers |-> {}]
    /\ grant \in [Conns -> Grants]
    /\ generation = 1 /\ directoryLocked = FALSE
    /\ cpc = [c \in Conns |-> "connect"]
    /\ scopes = [c \in Conns |-> {}]
    /\ authorizedAt = [c \in Conns |-> 0]
    /\ seen = [c \in Conns |-> 0]
    /\ item = [c \in Conns |-> None]
    /\ left = [c \in Conns |-> 0]
    /\ broadcastSeq = [c \in Conns |-> 0]
    /\ reason = [c \in Conns |-> "none"]
    /\ shutdown = "no"
    /\ admitted = [c \in Conns |-> <<>>]
    /\ taken = [c \in Conns |-> <<>>]
    /\ wire = [c \in Conns |-> <<>>]

-----------------------------------------------------------------------------
(* publish().                                                               *)

\* fetch_add on the ordinal, before the lock.
TakeOrdinal(q, d, isShutdown) ==
    /\ ppc[q] = "idle" /\ ordinal < MaxOrdinal
    /\ ordinal' = ordinal + 1
    /\ env' = [env EXCEPT ![q] = [ordinal |-> ordinal + 1, draft |-> d, shutdown |-> isShutdown]]
    /\ ppc' = [ppc EXCEPT ![q] = "lock"]
    /\ UNCHANGED <<busLock, subs, subScopes, queue, bytes, firstMissed, todo, lagging,
                   dirVars, connVars, histVars>>

Publish(q) == \E d \in Drafts : TakeOrdinal(q, d, FALSE) /\ UNCHANGED shutdown

\* GatewayHandle::shutdown() publishes first.
PublishShutdown(q) ==
    /\ shutdown = "no"
    /\ TakeOrdinal(q, ShutdownDraft, TRUE)
    /\ shutdown' = "publishing"

LockSubscribers(q) ==
    /\ ppc[q] = "lock" /\ busLock = None
    /\ busLock' = q
    /\ todo' = [todo EXCEPT ![q] = subs]
    /\ ppc' = [ppc EXCEPT ![q] = "fan"]
    /\ UNCHANGED <<ordinal, subs, subScopes, queue, bytes, firstMissed, env, lagging,
                   dirVars, connVars, shutdown, histVars>>

\* One subscriber of the fan-out: not for it, lagging, or enqueued.  The bytes
\* of an enqueued envelope are added after try_send().
Offer(q, c) ==
    LET e == env[q] IN
    /\ ppc[q] = "fan" /\ c \in todo[q]
    /\ todo' = [todo EXCEPT ![q] = @ \ {c}]
    /\ \/ /\ ~Addressed(e, c)
          /\ UNCHANGED <<queue, firstMissed, lagging, ppc, admitted>>
       \/ /\ Addressed(e, c) /\ Overflows(e, c)
          /\ firstMissed' = [firstMissed EXCEPT ![c] = IF @ = 0 THEN e.ordinal ELSE @]
          /\ lagging' = [lagging EXCEPT ![q] = @ \cup {c}]
          /\ admitted' = [admitted EXCEPT ![c] = Append(@, e)]
          /\ UNCHANGED <<queue, ppc>>
       \/ /\ Addressed(e, c) /\ ~Overflows(e, c)
          /\ queue' = [queue EXCEPT ![c] = Append(@, e)]
          /\ admitted' = [admitted EXCEPT ![c] = Append(@, e)]
          /\ ppc' = [ppc EXCEPT ![q] = c]
          /\ UNCHANGED <<firstMissed, lagging>>
    /\ UNCHANGED <<ordinal, busLock, subs, subScopes, bytes, env,
                   dirVars, connVars, shutdown, taken, wire>>

AccountBytes(q) ==
    /\ ppc[q] \in Conns
    /\ bytes' = [bytes EXCEPT ![ppc[q]] = @ + env[q].draft.size]
    /\ ppc' = [ppc EXCEPT ![q] = "fan"]
    /\ UNCHANGED <<ordinal, busLock, subs, subScopes, queue, firstMissed, env, todo, lagging,
                   dirVars, connVars, shutdown, histVars>>

\* Mutant: a lagging subscriber stays subscribed.
FinishPublishKeeps(q) ==
    /\ ppc[q] = "fan" /\ todo[q] = {}
    /\ lagging' = [lagging EXCEPT ![q] = {}]
    /\ busLock' = None
    /\ ppc' = [ppc EXCEPT ![q] = "idle"]
    /\ env' = [env EXCEPT ![q] = None]
    /\ shutdown' = IF env[q].shutdown THEN "announced" ELSE shutdown
    /\ UNCHANGED <<ordinal, subs, subScopes, queue, bytes, firstMissed, todo,
                   dirVars, connVars, histVars>>

\* Lagging subscribers are removed and the lock is released.
FinishPublish(q) ==
    /\ ppc[q] = "fan" /\ todo[q] = {}
    /\ subs' = subs \ lagging[q]
    /\ lagging' = [lagging EXCEPT ![q] = {}]
    /\ busLock' = None
    /\ ppc' = [ppc EXCEPT ![q] = "idle"]
    /\ env' = [env EXCEPT ![q] = None]
    /\ shutdown' = IF env[q].shutdown THEN "announced" ELSE shutdown
    /\ UNCHANGED <<ordinal, subScopes, queue, bytes, firstMissed, todo,
                   dirVars, connVars, histVars>>

\* ... and only then signals.
SignalShutdown ==
    /\ shutdown = "announced"
    /\ shutdown' = "signalled"
    /\ UNCHANGED <<busVars, pubVars, dirVars, connVars, histVars>>

-----------------------------------------------------------------------------
(* DeviceDirectory: the grant changes, then the generation, under the lock. *)

\* pair() with a new grant for an operator, pair() for another role, or revoke().  To
\* a connection of an operator the last two are the same: there is no grant for it.
ChangeGrant(c) ==
    /\ ~directoryLocked /\ generation < MaxGeneration
    /\ \E g \in Grants \cup {None} : grant' = [grant EXCEPT ![c] = g]
    /\ directoryLocked' = TRUE
    /\ UNCHANGED <<busVars, pubVars, generation, connVars, shutdown, histVars>>

BumpGeneration ==
    /\ directoryLocked
    /\ generation' = generation + 1
    /\ directoryLocked' = FALSE
    /\ UNCHANGED <<busVars, pubVars, grant, connVars, shutdown, histVars>>

-----------------------------------------------------------------------------
(* A connection: negotiate(), dispatch_loop(), revalidate(), deliver().     *)

CGoto(c, l) == cpc' = [cpc EXCEPT ![c] = l]
Close(c, why) == CGoto(c, "closing") /\ reason' = [reason EXCEPT ![c] = why]
\* Where the loop goes on after a delivery.
Resume(c) == IF left[c] > 0 THEN "flush" ELSE "select"

\* negotiate(): the generation is read before the authentication decision.
ReadGenerationFirst(c) ==
    /\ cpc[c] = "connect"
    /\ authorizedAt' = [authorizedAt EXCEPT ![c] = generation]
    /\ CGoto(c, "authenticate")
    /\ UNCHANGED <<busVars, pubVars, dirVars, scopes, seen, item, left, broadcastSeq, reason,
                   shutdown, histVars>>

Authenticate(c) ==
    /\ cpc[c] = "authenticate" /\ ~directoryLocked
    /\ \/ grant[c] = None /\ Close(c, "rejected") /\ UNCHANGED scopes
       \/ /\ grant[c] # None
          /\ scopes' = [scopes EXCEPT ![c] = grant[c]]
          /\ CGoto(c, "subscribe") /\ UNCHANGED reason
    /\ UNCHANGED <<busVars, pubVars, dirVars, authorizedAt, seen, item, left, broadcastSeq,
                   shutdown, histVars>>

Subscribe(c) ==
    /\ cpc[c] = "subscribe" /\ busLock = None
    /\ subs' = subs \cup {c}
    /\ subScopes' = [subScopes EXCEPT ![c] = scopes[c]]
    /\ CGoto(c, "select")
    /\ UNCHANGED <<ordinal, busLock, queue, bytes, firstMissed, pubVars, dirVars, scopes,
                   authorizedAt, seen, item, left, broadcastSeq, reason, shutdown, histVars>>

\* The channel hands over the head of the queue; the bytes are subtracted next.
Pop(c) ==
    /\ queue[c] # <<>>
    /\ item' = [item EXCEPT ![c] = Head(queue[c])]
    /\ queue' = [queue EXCEPT ![c] = Tail(@)]
    /\ taken' = [taken EXCEPT ![c] = Append(@, Head(queue[c]))]
    /\ CGoto(c, "unaccount")

\* recv() in the select.
Receive(c) ==
    /\ cpc[c] = "select" /\ Pop(c)
    /\ UNCHANGED <<ordinal, busLock, subs, subScopes, bytes, firstMissed, pubVars, dirVars,
                   scopes, authorizedAt, seen, left, broadcastSeq, reason, shutdown,
                   admitted, wire>>

\* Mutant: a delivered envelope stays charged.
UnaccountNothing(c) ==
    /\ cpc[c] = "unaccount"
    /\ CGoto(c, IF left[c] > 0 THEN "deliver" ELSE "revalidate")
    /\ UNCHANGED <<busVars, pubVars, dirVars, scopes, authorizedAt, seen, item, left,
                   broadcastSeq, reason, shutdown, histVars>>

UnaccountBytes(c) ==
    /\ cpc[c] = "unaccount"
    /\ bytes' = [bytes EXCEPT ![c] = @ - item[c].draft.size]
    /\ CGoto(c, IF left[c] > 0 THEN "deliver" ELSE "revalidate")
    /\ UNCHANGED <<ordinal, busLock, subs, subScopes, queue, firstMissed, pubVars, dirVars,
                   scopes, authorizedAt, seen, item, left, broadcastSeq, reason, shutdown,
                   histVars>>

\* A request or a ping, or recv() on a drained queue whose sender is gone.
Wake(c) ==
    /\ cpc[c] = "select"
    /\ CGoto(c, "revalidate")
    /\ UNCHANGED <<busVars, pubVars, dirVars, scopes, authorizedAt, seen, item, left,
                   broadcastSeq, reason, shutdown, histVars>>

\* revalidate(): the generation is read before the grant.
ReadGeneration(c) ==
    /\ cpc[c] = "revalidate"
    /\ seen' = [seen EXCEPT ![c] = generation]
    /\ CGoto(c, IF generation = authorizedAt[c] THEN "deliver" ELSE "narrow")
    /\ UNCHANGED <<busVars, pubVars, dirVars, scopes, authorizedAt, item, left, broadcastSeq,
                   reason, shutdown, histVars>>

\* Mutant: only a withdrawn grant has consequences.
NarrowOnRevocationOnly(c) ==
    /\ cpc[c] = "narrow" /\ ~directoryLocked
    /\ \/ /\ grant[c] = None
          /\ Close(c, "revoked")
          /\ UNCHANGED authorizedAt
       \/ /\ grant[c] # None
          /\ authorizedAt' = [authorizedAt EXCEPT ![c] = seen[c]]
          /\ CGoto(c, "deliver")
          /\ UNCHANGED reason
    /\ UNCHANGED <<busVars, pubVars, dirVars, scopes, seen, item, left, broadcastSeq, shutdown,
                   histVars>>

\* A withdrawn grant, or one for another role, ends the connection; a changed one
\* narrows its scopes.
Narrow(c) ==
    /\ cpc[c] = "narrow" /\ ~directoryLocked
    /\ \/ /\ grant[c] = None
          /\ Close(c, "revoked")
          /\ UNCHANGED <<scopes, authorizedAt>>
       \/ /\ grant[c] # None
          /\ scopes' = [scopes EXCEPT ![c] = @ \cap grant[c]]
          /\ authorizedAt' = [authorizedAt EXCEPT ![c] = seen[c]]
          /\ CGoto(c, IF scopes[c] \subseteq grant[c] THEN "deliver" ELSE "reauthorize")
          /\ UNCHANGED reason
    /\ UNCHANGED <<busVars, pubVars, dirVars, seen, item, left, broadcastSeq, shutdown, histVars>>

Reauthorize(c) ==
    /\ cpc[c] = "reauthorize" /\ busLock = None
    /\ subScopes' = IF c \in subs THEN [subScopes EXCEPT ![c] = scopes[c]] ELSE subScopes
    /\ CGoto(c, "deliver")
    /\ UNCHANGED <<ordinal, busLock, subs, queue, bytes, firstMissed, pubVars, dirVars, scopes,
                   authorizedAt, seen, item, left, broadcastSeq, reason, shutdown, histVars>>

\* The number to_frame() puts on a frame: only a broadcast carries it.
Written(c, e) == IF e.draft.audience = Broadcast THEN <<broadcastSeq[c] + 1>> ELSE <<>>

\* deliver() of an event: entitlement is checked again, and the counter advances
\* for every event written, targeted ones included.
Deliver(c) ==
    /\ cpc[c] = "deliver" /\ item[c] # None
    /\ IF Admits(item[c], scopes[c])
       THEN /\ broadcastSeq' = [broadcastSeq EXCEPT ![c] = @ + 1]
            /\ wire' = [wire EXCEPT ![c] = @ \o Written(c, item[c])]
       ELSE UNCHANGED <<broadcastSeq, wire>>
    /\ item' = [item EXCEPT ![c] = None]
    /\ left' = [left EXCEPT ![c] = IF @ > 0 THEN @ - 1 ELSE 0]
    /\ IF left[c] = 1 THEN Close(c, "shutdown") ELSE CGoto(c, Resume(c)) /\ UNCHANGED reason
    /\ UNCHANGED <<busVars, pubVars, dirVars, scopes, authorizedAt, seen, shutdown,
                   admitted, taken>>

\* Nothing to write: the request or ping was served, or the sender is gone and
\* the terminal delivery says whether a gap was recorded.
Terminal(c) == IF firstMissed[c] # 0 THEN "slow" ELSE "shutdown"

Continue(c) ==
    /\ cpc[c] = "deliver" /\ item[c] = None
    /\ \/ CGoto(c, "select") /\ UNCHANGED reason
       \/ c \notin subs /\ queue[c] = <<>> /\ Close(c, Terminal(c))
       \/ Close(c, "peer")
    /\ UNCHANGED <<busVars, pubVars, dirVars, scopes, authorizedAt, seen, item, left,
                   broadcastSeq, shutdown, histVars>>

\* Mutant: one delivery too few is flushed.
ObserveShutdownShort(c) ==
    /\ cpc[c] = "select" /\ shutdown = "signalled"
    /\ left' = [left EXCEPT ![c] = Capacity - 1]
    /\ CGoto(c, "flush")
    /\ UNCHANGED <<busVars, pubVars, dirVars, scopes, authorizedAt, seen, item, broadcastSeq,
                   reason, shutdown, histVars>>

\* shutdown.changed(): at most Capacity queued deliveries are flushed, without
\* revalidating.
ObserveShutdown(c) ==
    /\ cpc[c] = "select" /\ shutdown = "signalled"
    /\ left' = [left EXCEPT ![c] = Capacity]
    /\ CGoto(c, "flush")
    /\ UNCHANGED <<busVars, pubVars, dirVars, scopes, authorizedAt, seen, item, broadcastSeq,
                   reason, shutdown, histVars>>

FlushOne(c) ==
    /\ cpc[c] = "flush" /\ Pop(c)
    /\ UNCHANGED <<ordinal, busLock, subs, subScopes, bytes, firstMissed, pubVars, dirVars,
                   scopes, authorizedAt, seen, left, broadcastSeq, reason, shutdown,
                   admitted, wire>>

FlushEnds(c) ==
    /\ cpc[c] = "flush" /\ queue[c] = <<>>
    /\ Close(c, IF c \in subs THEN "shutdown" ELSE Terminal(c))
    /\ UNCHANGED <<busVars, pubVars, dirVars, scopes, authorizedAt, seen, item, left,
                   broadcastSeq, shutdown, histVars>>

\* unsubscribe(), by the drop of the subscription and by serve().
Unsubscribe(c) ==
    /\ cpc[c] = "closing" /\ busLock = None
    /\ subs' = subs \ {c}
    /\ CGoto(c, "closed")
    /\ UNCHANGED <<ordinal, busLock, subScopes, queue, bytes, firstMissed, pubVars, dirVars,
                   scopes, authorizedAt, seen, item, left, broadcastSeq, reason, shutdown,
                   histVars>>

PublisherStep(q) ==
    \/ Publish(q) \/ PublishShutdown(q) \/ LockSubscribers(q)
    \/ (\E c \in Conns : Offer(q, c)) \/ AccountBytes(q) \/ FinishPublish(q)

ConnectionStep(c) ==
    \/ ReadGenerationFirst(c) \/ Authenticate(c) \/ Subscribe(c)
    \/ Receive(c) \/ UnaccountBytes(c) \/ Wake(c) \/ ReadGeneration(c) \/ Narrow(c)
    \/ Reauthorize(c) \/ Deliver(c) \/ Continue(c)
    \/ ObserveShutdown(c) \/ FlushOne(c) \/ FlushEnds(c) \/ Unsubscribe(c)

Next ==
    \/ \E q \in Publishers : PublisherStep(q)
    \/ \E c \in Conns : ConnectionStep(c) \/ ChangeGrant(c)
    \/ BumpGeneration \/ SignalShutdown

Spec == Init /\ [][Next]_vars

-----------------------------------------------------------------------------
(* Properties.                                                              *)

Live == {"select", "unaccount", "revalidate", "narrow", "reauthorize", "deliver", "flush"}

BusTypeOK ==
    /\ ordinal \in 0 .. MaxOrdinal
    /\ busLock \in Publishers \cup {None}
    /\ subs \subseteq Conns
    /\ subScopes \in [Conns -> SUBSET Scopes]
    /\ queue \in [Conns -> Seq(Envelopes)] /\ \A c \in Conns : Len(queue[c]) <= Capacity
    /\ bytes \in [Conns -> Int]
    /\ firstMissed \in [Conns -> 0 .. MaxOrdinal]

PublisherTypeOK ==
    /\ ppc \in [Publishers -> {"idle", "lock", "fan"} \cup Conns]
    /\ env \in [Publishers -> Envelopes \cup {None}]
    /\ todo \in [Publishers -> SUBSET Conns] /\ lagging \in [Publishers -> SUBSET Conns]

DirectoryTypeOK ==
    /\ grant \in [Conns -> Grants \cup {None}]
    /\ generation \in 1 .. MaxGeneration + 1 /\ directoryLocked \in BOOLEAN

ConnectionTypeOK ==
    /\ cpc \in [Conns -> Live \cup {"connect", "authenticate", "subscribe", "closing", "closed"}]
    /\ scopes \in [Conns -> SUBSET Scopes]
    /\ authorizedAt \in [Conns -> 0 .. MaxGeneration + 1]
    /\ seen \in [Conns -> 0 .. MaxGeneration + 1]
    /\ item \in [Conns -> Envelopes \cup {None}]
    /\ left \in [Conns -> 0 .. Capacity]
    /\ broadcastSeq \in [Conns -> Nat]
    /\ reason \in [Conns -> {"none", "rejected", "revoked", "slow", "shutdown", "peer"}]

HistoryTypeOK ==
    /\ admitted \in [Conns -> Seq(Envelopes)] /\ taken \in [Conns -> Seq(Envelopes)]
    /\ wire \in [Conns -> Seq(Nat)]

\* Every variable keeps its type; a queue never exceeds its capacity.
TypeOK ==
    /\ BusTypeOK /\ PublisherTypeOK /\ DirectoryTypeOK /\ ConnectionTypeOK /\ HistoryTypeOK
    /\ shutdown \in {"no", "publishing", "announced", "signalled"}

\* A subscriber sees everything it was entitled to, in the order of the fan-out,
\* up to one gap: nothing is enqueued after the first envelope that did not fit,
\* and the gap it is told of names exactly that envelope, although ordinals are
\* taken before the lock and queues are popped without it (events.rs:687).
PrefixThenGap ==
    \A c \in Conns :
        LET kept == taken[c] \o queue[c] IN
        \/ admitted[c] = kept /\ firstMissed[c] = 0
        \/ /\ firstMissed[c] # 0
           /\ Len(admitted[c]) = Len(kept) + 1
           /\ kept = SubSeq(admitted[c], 1, Len(kept))
           /\ firstMissed[c] = admitted[c][Len(kept) + 1].ordinal

Total(s) ==
    LET upTo[i \in 0 .. Len(s)] == IF i = 0 THEN 0 ELSE upTo[i - 1] + s[i].draft.size
    IN  upTo[Len(s)]

\* What a publisher reads as queued_bytes under the lock is never wrapped below
\* zero and is the size of the queue, plus at most the one envelope the task has
\* taken and not yet subtracted (events.rs:734, 804): the subtraction may overtake
\* the addition, but no publisher reads in between.
BytesReadAreSane ==
    \A q \in Publishers, c \in Conns :
        ppc[q] = "fan" /\ c \in todo[q] =>
            bytes[c] = Total(queue[c]) + IF cpc[c] = "unaccount" THEN item[c].draft.size ELSE 0

\* A connection that believes its authorisation current never holds a scope its
\* device is not granted, however the handshake, a revalidation and changes of
\* the directory interleave (connection.rs:218).
GrantIsFresh ==
    \A c \in Conns :
        cpc[c] \in Live /\ authorizedAt[c] = generation /\ ~directoryLocked =>
            grant[c] # None /\ scopes[c] \subseteq grant[c]

\* A connection closed for a shutdown has taken the shutdown event if the bus
\* enqueued it: the bounded flush reaches the end of the queue (connection.rs:277).
ShutdownIsFlushed ==
    \A c \in Conns : reason[c] = "shutdown" =>
        \A i \in DOMAIN queue[c] : ~queue[c][i].shutdown

\* Violated.  events.rs:735 "An empty queue always admits one envelope": an envelope
\* on offer to a subscriber that holds nothing fits, whatever its size, although the
\* connection subtracts the bytes of what it takes after it has taken it.
EmptyQueueAdmits ==
    \A q \in Publishers, c \in Conns :
        ppc[q] = "fan" /\ c \in todo[q] /\ queue[c] = <<>> => ~Overflows(env[q], c)

\* Violated.  events.rs:8 "Each connection therefore assigns its own consecutive
\* wire sequence for the broadcasts it actually writes": the numbers a peer's
\* EventSequenceTracker observes are 1, 2, 3, ...
WireSequenceIsConsecutive ==
    \A c \in Conns : \A i \in DOMAIN wire[c] : wire[c][i] = i
=============================================================================
