-------------------------- MODULE GatewayEventsProofs --------------------------
(***************************************************************************)
(* What is proved of the gateway's bus and connections, for any number of  *)
(* them and of publishers, any drafts, queue limits and grants.            *)
(*                                                                         *)
(* The authorisation a connection works under: the order of the generation *)
(* and the grant, on both sides, is what the argument rests on (FreshInv). *)
(*                                                                         *)
(* What a subscriber receives, and that a shutdown reaches it (BusInv):    *)
(* the lock has one holder, which offers its envelope once to each         *)
(* subscriber; who missed one is gone or about to be removed; and what is  *)
(* left of a flush covers the place of the shutdown event in the queue.    *)
(*                                                                         *)
(* The byte counts (Accounted): each is the size of its queue, less what   *)
(* the holder of the lock has enqueued and not yet added, plus what the    *)
(* connection has taken and not yet subtracted.                            *)
(***************************************************************************)
EXTENDS GatewayEvents, SequenceTheorems, WellFoundedInduction, TLAPS

\* The part of the state the argument needs.
AuthTypes ==
    /\ generation \in Nat
    /\ grant \in [Conns -> Grants \cup {None}]
    /\ scopes \in [Conns -> SUBSET Scopes]
    /\ authorizedAt \in [Conns -> Nat]
    /\ seen \in [Conns -> Nat]
    /\ DOMAIN cpc = Conns

\* No connection is ahead of the directory.
NotAhead ==
    \A c \in Conns : authorizedAt[c] <= generation /\ seen[c] <= generation

\* GrantIsFresh also before the subscription is there.
Fresh ==
    \A c \in Conns :
        /\ cpc[c] \in Live \cup {"subscribe"}
        /\ authorizedAt[c] = generation
        /\ ~directoryLocked
        => grant[c] # None /\ scopes[c] \subseteq grant[c]

FreshInv == AuthTypes /\ NotAhead /\ Fresh

\* No connection is authorised yet.
LEMMA FreshInit == Init => FreshInv
<1> SUFFICES ASSUME Init PROVE FreshInv
  OBVIOUS
<1>1. grant \in [Conns -> Grants] /\ generation = 1
  BY DEF Init
<1>2. AuthTypes
  BY <1>1 DEF Init, AuthTypes
<1>3. NotAhead
  BY <1>1 DEF Init, NotAhead
<1>4. Fresh
  BY DEF Init, Fresh, Live
<1> QED
  BY <1>2, <1>3, <1>4 DEF FreshInv

\* A step that leaves the authorisation alone and takes no connection into the
\* dispatch loop keeps the invariant.
LEMMA FreshFrame ==
    ASSUME FreshInv, UNCHANGED <<dirVars, scopes, authorizedAt, seen>>,
           DOMAIN cpc' = Conns,
           \A c \in Conns : cpc'[c] \in Live \cup {"subscribe"}
                            => cpc[c] \in Live \cup {"subscribe"}
    PROVE  FreshInv'
  BY DEF FreshInv, AuthTypes, NotAhead, Fresh, dirVars

\* Every step keeps the invariant.
LEMMA FreshStep == FreshInv /\ [Next]_vars => FreshInv'
<1> SUFFICES ASSUME FreshInv, [Next]_vars PROVE FreshInv'
  OBVIOUS
<1> USE DEF Live, CGoto, busVars, pubVars, dirVars, connVars
<1>1. ASSUME NEW q \in Publishers, PublisherStep(q)
      PROVE  FreshInv'
  <2>1. UNCHANGED <<dirVars, connVars>>
    BY <1>1 DEF PublisherStep, Publish, PublishShutdown, TakeOrdinal, LockSubscribers,
       Offer, AccountBytes, FinishPublish
  <2> QED
    BY <2>1, FreshFrame DEF FreshInv, AuthTypes
<1>2. ASSUME NEW c \in Conns, ChangeGrant(c)
      PROVE  FreshInv'
  <2>1. PICK g \in Grants \cup {None} : grant' = [grant EXCEPT ![c] = g]
    BY <1>2 DEF ChangeGrant
  <2>2. directoryLocked' = TRUE /\ UNCHANGED <<generation, scopes, authorizedAt, seen, cpc>>
    BY <1>2 DEF ChangeGrant
  <2>3. AuthTypes' /\ NotAhead'
    BY <2>1, <2>2 DEF FreshInv, AuthTypes, NotAhead
  <2>4. Fresh'
    BY <2>2 DEF Fresh
  <2> QED
    BY <2>3, <2>4 DEF FreshInv
<1>3. CASE BumpGeneration
  <2>1. generation' = generation + 1 /\ UNCHANGED <<grant, scopes, authorizedAt, seen, cpc>>
    BY <1>3 DEF BumpGeneration
  <2>2. AuthTypes' /\ NotAhead'
    BY <2>1 DEF FreshInv, AuthTypes, NotAhead
  <2>3. \A c \in Conns : authorizedAt'[c] # generation'
    BY <2>1 DEF FreshInv, AuthTypes, NotAhead
  <2> QED
    BY <2>2, <2>3 DEF FreshInv, Fresh
<1>4. CASE SignalShutdown
  BY <1>4, FreshFrame DEF SignalShutdown, FreshInv, AuthTypes
<1>5. CASE UNCHANGED vars
  BY <1>5, FreshFrame DEF vars, FreshInv, AuthTypes
<1>6. ASSUME NEW c \in Conns, ReadGenerationFirst(c)
      PROVE  FreshInv'
  BY <1>6, NamesAssumption DEF ReadGenerationFirst, FreshInv, AuthTypes, NotAhead, Fresh
<1>7. ASSUME NEW c \in Conns, Authenticate(c)
      PROVE  FreshInv'
  BY <1>7, NamesAssumption DEF Authenticate, Close, FreshInv, AuthTypes, NotAhead, Fresh
<1>8. ASSUME NEW c \in Conns, Subscribe(c)
      PROVE  FreshInv'
  BY <1>8, FreshFrame DEF Subscribe, FreshInv, AuthTypes
<1>9. ASSUME NEW c \in Conns, Receive(c)
      PROVE  FreshInv'
  BY <1>9, FreshFrame DEF Receive, Pop, FreshInv, AuthTypes
<1>10. ASSUME NEW c \in Conns, UnaccountBytes(c)
      PROVE  FreshInv'
  BY <1>10, FreshFrame DEF UnaccountBytes, FreshInv, AuthTypes
<1>11. ASSUME NEW c \in Conns, Wake(c)
      PROVE  FreshInv'
  BY <1>11, FreshFrame DEF Wake, FreshInv, AuthTypes
<1>12. ASSUME NEW c \in Conns, ReadGeneration(c)
      PROVE  FreshInv'
  BY <1>12, NamesAssumption DEF ReadGeneration, FreshInv, AuthTypes, NotAhead, Fresh
<1>13. ASSUME NEW c \in Conns, Narrow(c)
      PROVE  FreshInv'
  BY <1>13, NamesAssumption DEF Narrow, Close, FreshInv, AuthTypes, NotAhead, Fresh
<1>14. ASSUME NEW c \in Conns, Reauthorize(c)
      PROVE  FreshInv'
  BY <1>14, FreshFrame DEF Reauthorize, FreshInv, AuthTypes
<1>15. ASSUME NEW c \in Conns, Deliver(c)
      PROVE  FreshInv'
  BY <1>15, FreshFrame DEF Deliver, Close, Resume, FreshInv, AuthTypes
<1>16. ASSUME NEW c \in Conns, Continue(c)
      PROVE  FreshInv'
  BY <1>16, FreshFrame DEF Continue, Close, FreshInv, AuthTypes
<1>17. ASSUME NEW c \in Conns, ObserveShutdown(c)
      PROVE  FreshInv'
  BY <1>17, FreshFrame DEF ObserveShutdown, FreshInv, AuthTypes
<1>18. ASSUME NEW c \in Conns, FlushOne(c)
      PROVE  FreshInv'
  BY <1>18, FreshFrame DEF FlushOne, Pop, FreshInv, AuthTypes
<1>19. ASSUME NEW c \in Conns, FlushEnds(c)
      PROVE  FreshInv'
  BY <1>19, FreshFrame DEF FlushEnds, Close, FreshInv, AuthTypes
<1>20. ASSUME NEW c \in Conns, Unsubscribe(c)
      PROVE  FreshInv'
  BY <1>20, FreshFrame DEF Unsubscribe, FreshInv, AuthTypes
<1> QED
  BY <1>1, <1>2, <1>3, <1>4, <1>5, <1>6, <1>7, <1>8, <1>9, <1>10, <1>11,
     <1>12, <1>13, <1>14, <1>15, <1>16, <1>17, <1>18, <1>19, <1>20
     DEF Next, ConnectionStep

\* However handshakes, revalidations and changes of the device directory
\* interleave, a connection that believes its authorisation current holds no
\* scope its device is not granted (negotiate() and revalidate() read the
\* generation first, pair() and revoke() move it last).
THEOREM GrantsAreFresh == Spec => []GrantIsFresh
<1>1. FreshInv => GrantIsFresh
  BY DEF FreshInv, Fresh, GrantIsFresh
<1> QED
  BY FreshInit, FreshStep, <1>1, PTL DEF Spec
-----------------------------------------------------------------------------
(* What a subscriber receives.  The lock has one holder, which offers an    *)
(* envelope at most once to each subscriber; a subscriber that missed one   *)
(* is no longer subscribed, or about to be removed by the holder.           *)

Holding(q) == ppc[q] \notin {"idle", "lock"}
Early == {"connect", "authenticate", "subscribe"}

\* The directory is locked only where its generation may still move.
Bounded == directoryLocked => generation < MaxGeneration

Numbered ==
    \A q \in Publishers :
        /\ ppc[q] = "idle" => env[q] = None
        /\ ppc[q] # "idle" => env[q] # None /\ env[q].ordinal \in 1 .. ordinal

Fanning ==
    \A q \in Publishers :
        /\ Holding(q) <=> busLock = q
        /\ Holding(q) => todo[q] \subseteq subs /\ lagging[q] \cap todo[q] = {}
        /\ ~Holding(q) => lagging[q] = {}

Removed ==
    \A c \in Conns :
        /\ firstMissed[c] # 0
              => c \notin subs \/ \E q \in Publishers : Holding(q) /\ c \in lagging[q]
        /\ cpc[c] \in Early => c \notin subs /\ firstMissed[c] = 0

\* The shutdown event is published once, and before it is signalled.
Announcing ==
    /\ \A q \in Publishers :
          env[q] # None /\ env[q].shutdown => shutdown = "publishing"
    /\ \A p, q \in Publishers :
          env[p] # None /\ env[p].shutdown /\ env[q] # None /\ env[q].shutdown => p = q

\* Within the flush, what is left of it covers the shutdown event.
Covers(c, n) == \A i \in DOMAIN queue[c] : queue[c][i].shutdown => i <= n

FlushingAt(c) ==
    /\ cpc[c] \in {"select", "revalidate", "narrow", "reauthorize"} \cup Early => left[c] = 0
    /\ left[c] > 0 => shutdown = "signalled"
    /\ cpc[c] = "flush" => left[c] > 0 /\ Covers(c, left[c])
    /\ cpc[c] = "unaccount" => item[c] # None
    /\ cpc[c] \in {"unaccount", "deliver"} /\ left[c] > 0
          => item[c] # None /\ Covers(c, left[c] - 1)
    /\ reason[c] = "shutdown" => /\ cpc[c] \in {"closing", "closed"}
                                 /\ c \notin subs \/ shutdown = "signalled"
                                 /\ Covers(c, 0)

Flushing == \A c \in Conns : FlushingAt(c)

BusInv ==
    /\ TypeOK /\ Bounded /\ Numbered /\ Fanning /\ Removed /\ PrefixThenGap
    /\ Announcing /\ Flushing

\* Taking the head of a queue moves it to the end of what was taken.
LEMMA PopKeeps ==
    ASSUME NEW S, NEW s \in Seq(S), NEW t \in Seq(S), t # <<>>
    PROVE  /\ Head(t) \in S /\ Tail(t) \in Seq(S) /\ Append(s, Head(t)) \in Seq(S)
           /\ Len(Tail(t)) = Len(t) - 1
           /\ \A i \in DOMAIN Tail(t) : i + 1 \in DOMAIN t /\ Tail(t)[i] = t[i + 1]
           /\ Append(s, Head(t)) \o Tail(t) = s \o t
<1>1. /\ Head(t) \in S /\ Tail(t) \in Seq(S) /\ Append(s, Head(t)) \in Seq(S)
      /\ Len(Tail(t)) = Len(t) - 1
  BY HeadTailProperties, AppendProperties
<1>2. \A i \in DOMAIN Tail(t) : i + 1 \in DOMAIN t /\ Tail(t)[i] = t[i + 1]
  BY <1>1, HeadTailProperties
<1>3. Append(s, Head(t)) \o Tail(t) = s \o t
  <2> DEFINE a == Append(s, Head(t))
             x == a \o Tail(t)
             y == s \o t
  <2>1. a \in Seq(S) /\ Len(a) = Len(s) + 1 /\ a[Len(s) + 1] = Head(t) /\ Head(t) = t[1]
    BY <1>1, AppendProperties
  <2>2. \A i \in 1 .. Len(s) : a[i] = s[i]
    BY <1>1, AppendProperties
  <2> HIDE DEF a
  <2>3. x \in Seq(S) /\ y \in Seq(S) /\ Len(x) = Len(y)
    <3>1. x \in Seq(S) /\ Len(x) = Len(a) + Len(Tail(t))
      BY <1>1, <2>1, ConcatProperties
    <3>2. y \in Seq(S) /\ Len(y) = Len(s) + Len(t)
      BY ConcatProperties
    <3>3. Len(s) \in Nat /\ Len(t) \in Nat
      OBVIOUS
    <3> QED
      BY <1>1, <2>1, <3>1, <3>2, <3>3
  <2>4. ASSUME NEW i \in 1 .. Len(x) PROVE x[i] = y[i]
    <3>1. CASE i <= Len(s)
      BY <1>1, <2>1, <2>2, <2>3, <3>1, ConcatProperties
    <3>2. CASE i = Len(s) + 1
      BY <1>1, <2>1, <2>3, <3>2, ConcatProperties
    <3>3. CASE i > Len(s) + 1
      BY <1>1, <1>2, <2>1, <2>3, <3>3, ConcatProperties
    <3> QED
      BY <3>1, <3>2, <3>3, <2>3
  <2>5. x = y
    BY <2>3, <2>4, SeqEqual
  <2> QED
    BY <2>5 DEF a
<1> QED
  BY <1>1, <1>2, <1>3

\* What is enqueued is the last of what is kept.
LEMMA AppendKeeps ==
    ASSUME NEW S, NEW s \in Seq(S), NEW t \in Seq(S), NEW e \in S
    PROVE  s \o Append(t, e) = Append(s \o t, e)
  BY ConcatProperties, AppendProperties, SeqEqual

\* What is admitted and not enqueued is the gap.
LEMMA GapKeeps ==
    ASSUME NEW S, NEW k \in Seq(S), NEW e \in S
    PROVE  /\ Append(k, e) \in Seq(S) /\ Len(Append(k, e)) = Len(k) + 1
           /\ k = SubSeq(Append(k, e), 1, Len(k))
           /\ Append(k, e)[Len(k) + 1] = e
  BY AppendProperties, SeqEqual

\* The empty bus satisfies it.
LEMMA BusInit == Init => BusInv
<1> SUFFICES ASSUME Init PROVE BusInv
  OBVIOUS
<1> USE DEF Init
<1>1. TypeOK
  <2>0. <<>> \in Seq(Envelopes) /\ <<>> \in Seq(Nat) /\ Len(<<>>) = 0
    BY EmptySeq
  <2>1. BusTypeOK
    BY <2>0, BoundsAssumption, LimitsAssumption DEF BusTypeOK
  <2>2. PublisherTypeOK /\ HistoryTypeOK
    BY <2>0 DEF PublisherTypeOK, HistoryTypeOK
  <2>3. DirectoryTypeOK
    <3>1. grant \in [Conns -> Grants] /\ generation = 1 /\ directoryLocked = FALSE
      OBVIOUS
    <3>2. grant \in [Conns -> Grants \cup {None}]
      BY <3>1
    <3>3. 1 \in 1 .. MaxGeneration + 1
      BY BoundsAssumption
    <3> QED
      BY <3>1, <3>2, <3>3 DEF DirectoryTypeOK
  <2>4. ConnectionTypeOK
    BY BoundsAssumption, LimitsAssumption DEF ConnectionTypeOK, Live
  <2> QED
    BY <2>1, <2>2, <2>3, <2>4 DEF TypeOK
<1>2. Bounded /\ Numbered /\ Removed /\ Announcing
  BY DEF Bounded, Numbered, Removed, Announcing
<1>3. Fanning
  BY NamesAssumption DEF Fanning, Holding
<1>4. PrefixThenGap
  <2>1. \A c \in Conns : taken[c] \o queue[c] = <<>>
    BY ConcatEmptySeq, EmptySeq
  <2> QED
    BY <2>1 DEF PrefixThenGap
<1>5. Flushing
  BY DEF Flushing, FlushingAt, Covers
<1> QED
  BY <1>1, <1>2, <1>3, <1>4, <1>5 DEF BusInv

-----------------------------------------------------------------------------
\* The types of what a step does not touch.
LEMMA TypeFrame ==
    ASSUME TypeOK
    PROVE  /\ UNCHANGED busVars => BusTypeOK'
           /\ UNCHANGED pubVars => PublisherTypeOK'
           /\ UNCHANGED dirVars => DirectoryTypeOK'
           /\ UNCHANGED connVars => ConnectionTypeOK'
           /\ UNCHANGED histVars => HistoryTypeOK'
<1>1. UNCHANGED busVars => BusTypeOK'
  BY DEF TypeOK, BusTypeOK, busVars
<1>2. UNCHANGED pubVars => PublisherTypeOK'
  BY DEF TypeOK, PublisherTypeOK, pubVars
<1>3. UNCHANGED dirVars => DirectoryTypeOK'
  BY DEF TypeOK, DirectoryTypeOK, dirVars
<1>4. UNCHANGED connVars => ConnectionTypeOK'
  BY DEF TypeOK, ConnectionTypeOK, connVars
<1>5. UNCHANGED histVars => HistoryTypeOK'
  BY DEF TypeOK, HistoryTypeOK, histVars
<1> QED
  BY <1>1, <1>2, <1>3, <1>4, <1>5

\* The steps of a publisher.
LEMMA PublisherTypes ==
    ASSUME BusInv, NEW q \in Publishers, PublisherStep(q)
    PROVE  TypeOK' /\ Bounded'
<1> USE BoundsAssumption, NamesAssumption DEF BusInv
<1>0. UNCHANGED <<dirVars, connVars>> /\ DirectoryTypeOK' /\ ConnectionTypeOK' /\ Bounded'
  <2>1. UNCHANGED <<dirVars, connVars>>
    BY DEF PublisherStep, Publish, PublishShutdown, TakeOrdinal, LockSubscribers, Offer,
           AccountBytes, FinishPublish
  <2> QED
    BY <2>1, TypeFrame DEF Bounded, dirVars
<1> USE DEF BusTypeOK, PublisherTypeOK, HistoryTypeOK, TypeOK
<1>1. ASSUME NEW d \in Drafts \cup {ShutdownDraft}, NEW b \in BOOLEAN, TakeOrdinal(q, d, b)
      PROVE  BusTypeOK' /\ PublisherTypeOK' /\ HistoryTypeOK'
  <2>1. [ordinal |-> ordinal + 1, draft |-> d, shutdown |-> b] \in Envelopes
    BY DEF Envelopes
  <2>2. PublisherTypeOK'
    BY <1>1, <2>1 DEF TakeOrdinal
  <2>3. BusTypeOK' /\ HistoryTypeOK'
    BY <1>1 DEF TakeOrdinal, histVars
  <2> QED
    BY <2>2, <2>3
<1>2. CASE Publish(q)
  BY <1>0, <1>1, <1>2 DEF Publish
<1>3. CASE PublishShutdown(q)
  BY <1>0, <1>1, <1>3 DEF PublishShutdown
<1>4. CASE LockSubscribers(q)
  <2>1. BusTypeOK' /\ PublisherTypeOK' /\ HistoryTypeOK'
    BY <1>4 DEF LockSubscribers, histVars
  <2> QED
    BY <1>0, <1>4, <2>1 DEF LockSubscribers
<1>5. ASSUME NEW c \in Conns, Offer(q, c) PROVE TypeOK' /\ Bounded'
  <2> DEFINE e == env[q]
  <2>1. e \in Envelopes /\ e.ordinal \in 0 .. MaxOrdinal
    BY <1>5 DEF Offer, Numbered
  <2>2. \A s \in Seq(Envelopes) : Append(s, e) \in Seq(Envelopes) /\ Len(Append(s, e)) = Len(s) + 1
    BY <2>1, AppendProperties
  <2>3. \/ UNCHANGED <<queue, admitted, firstMissed, lagging, ppc>>
        \/ /\ UNCHANGED <<queue, ppc>>
           /\ firstMissed' = [firstMissed EXCEPT ![c] = IF @ = 0 THEN e.ordinal ELSE @]
           /\ lagging' = [lagging EXCEPT ![q] = @ \cup {c}]
           /\ admitted' = [admitted EXCEPT ![c] = Append(@, e)]
        \/ /\ UNCHANGED <<firstMissed, lagging>>
           /\ queue' = [queue EXCEPT ![c] = Append(@, e)] /\ Len(queue[c]) # Capacity
           /\ admitted' = [admitted EXCEPT ![c] = Append(@, e)]
           /\ ppc' = [ppc EXCEPT ![q] = c]
    BY <1>5 DEF Offer, Overflows
  <2>4. /\ UNCHANGED <<ordinal, busLock, subs, subScopes, bytes, env, shutdown, taken, wire>>
        /\ todo' = [todo EXCEPT ![q] = @ \ {c}]
    BY <1>5 DEF Offer
  <2> HIDE DEF e
  <2>5. HistoryTypeOK'
    <3>1. CASE admitted' = admitted
      BY <2>4, <3>1
    <3>2. CASE admitted' = [admitted EXCEPT ![c] = Append(@, e)]
      <4>1. Append(admitted[c], e) \in Seq(Envelopes)
        BY <2>2
      <4>2. admitted' \in [Conns -> Seq(Envelopes)]
        BY <3>2, <4>1
      <4> QED
        BY <2>4, <4>2
    <3> QED
      BY <2>3, <3>1, <3>2
  <2>6. PublisherTypeOK'
    <3>1. todo' \in [Publishers -> SUBSET Conns] /\ env' = env
      BY <2>4
    <3>2. lagging' \in [Publishers -> SUBSET Conns]
      <4>1. lagging[q] \cup {c} \in SUBSET Conns
        OBVIOUS
      <4>2. lagging' = lagging \/ lagging' = [lagging EXCEPT ![q] = @ \cup {c}]
        BY <2>3
      <4>3. CASE lagging' = lagging
        BY <4>3
      <4>4. CASE lagging' = [lagging EXCEPT ![q] = @ \cup {c}]
        BY <4>1, <4>4
      <4> QED
        BY <4>2, <4>3, <4>4
    <3>3. ppc' \in [Publishers -> {"idle", "lock", "fan"} \cup Conns]
      BY <2>3
    <3> QED
      BY <3>1, <3>2, <3>3
  <2>7. queue' \in [Conns -> Seq(Envelopes)] /\ \A d \in Conns : Len(queue'[d]) <= Capacity
    <3>1. CASE queue' = queue
      BY <3>1
    <3>2. CASE queue' = [queue EXCEPT ![c] = Append(@, e)] /\ Len(queue[c]) # Capacity
      <4>1. Len(queue[c]) + 1 <= Capacity
        BY <3>2, LimitsAssumption
      <4> QED
        BY <2>2, <3>2, <4>1
    <3> QED
      BY <2>3, <3>1, <3>2
  <2>8. firstMissed' \in [Conns -> 0 .. MaxOrdinal]
    BY <2>1, <2>3
  <2> QED
    BY <1>0, <2>4, <2>5, <2>6, <2>7, <2>8
<1>6. CASE AccountBytes(q)
  <2> DEFINE n == env[q].draft.size
  <2>1. n \in Int
    BY <1>6, DraftsAssumption DEF AccountBytes, Numbered, Envelopes, ShutdownDraft
  <2>2. /\ bytes' = [bytes EXCEPT ![ppc[q]] = @ + n] /\ ppc' = [ppc EXCEPT ![q] = "fan"]
        /\ ppc[q] \in Conns
    BY <1>6 DEF AccountBytes
  <2>3. UNCHANGED <<ordinal, busLock, subs, subScopes, queue, firstMissed, env, todo, lagging,
                    shutdown, histVars>>
    BY <1>6 DEF AccountBytes
  <2> HIDE DEF n
  <2>4. bytes' \in [Conns -> Int]
    BY <2>1, <2>2
  <2>5. PublisherTypeOK' /\ HistoryTypeOK'
    BY <2>2, <2>3 DEF histVars
  <2> QED
    BY <1>0, <2>3, <2>4, <2>5
<1>7. CASE FinishPublish(q)
  <2>1. BusTypeOK' /\ PublisherTypeOK' /\ HistoryTypeOK'
    BY <1>7 DEF FinishPublish, histVars
  <2> QED
    BY <1>0, <1>7, <2>1 DEF FinishPublish
<1> QED
  BY <1>2, <1>3, <1>4, <1>5, <1>6, <1>7 DEF PublisherStep

\* The steps of a connection.
LEMMA ConnectionTypes ==
    ASSUME BusInv, NEW c \in Conns, ConnectionStep(c)
    PROVE  TypeOK' /\ Bounded'
<1> USE BoundsAssumption, NamesAssumption, LimitsAssumption DEF BusInv
<1>0. UNCHANGED <<pubVars, dirVars, shutdown>> /\ PublisherTypeOK' /\ DirectoryTypeOK' /\ Bounded'
  <2>1. UNCHANGED <<pubVars, dirVars, shutdown>>
    BY DEF ConnectionStep, ReadGenerationFirst, Authenticate, Subscribe, Receive, UnaccountBytes,
           Wake, ReadGeneration, Narrow, Reauthorize, Deliver, Continue, ObserveShutdown,
           FlushOne, FlushEnds, Unsubscribe
  <2> QED
    BY <2>1, TypeFrame DEF Bounded, dirVars
<1>1. ASSUME BusTypeOK', ConnectionTypeOK', HistoryTypeOK' PROVE TypeOK' /\ Bounded'
  BY <1>0, <1>1 DEF TypeOK
<1>2. ASSUME UNCHANGED <<busVars, histVars>>, ConnectionTypeOK' PROVE TypeOK' /\ Bounded'
  BY <1>1, <1>2, TypeFrame
<1> USE DEF CGoto, Close, Live, TypeOK, ConnectionTypeOK, DirectoryTypeOK
<1>3. CASE ReadGenerationFirst(c)
  BY <1>2, <1>3 DEF ReadGenerationFirst
<1>4. CASE Authenticate(c)
  BY <1>2, <1>4 DEF Authenticate
<1>5. CASE Subscribe(c)
  <2>1. ConnectionTypeOK'
    BY <1>5 DEF Subscribe
  <2>2. BusTypeOK'
    BY <1>5 DEF Subscribe, BusTypeOK
  <2>3. HistoryTypeOK'
    BY <1>5, TypeFrame DEF Subscribe
  <2> QED
    BY <1>1, <2>1, <2>2, <2>3
<1>6. CASE Receive(c) \/ FlushOne(c)
  <2>1. Pop(c) /\ UNCHANGED <<ordinal, busLock, subs, subScopes, bytes, firstMissed, scopes,
           authorizedAt, seen, left, broadcastSeq, reason, admitted, wire>>
    BY <1>6 DEF Receive, FlushOne
  <2>2. /\ Head(queue[c]) \in Envelopes /\ Tail(queue[c]) \in Seq(Envelopes)
        /\ Append(taken[c], Head(queue[c])) \in Seq(Envelopes)
        /\ Len(Tail(queue[c])) <= Capacity
    <3>1. queue[c] \in Seq(Envelopes) /\ taken[c] \in Seq(Envelopes) /\ queue[c] # <<>>
      BY <2>1 DEF Pop, BusTypeOK, HistoryTypeOK
    <3>2. Len(Tail(queue[c])) = Len(queue[c]) - 1 /\ Len(queue[c]) <= Capacity
      BY <3>1, PopKeeps DEF BusTypeOK
    <3> QED
      BY <3>1, <3>2, PopKeeps
  <2>3. ConnectionTypeOK'
    BY <2>1, <2>2 DEF Pop
  <2>4. BusTypeOK'
    BY <2>1, <2>2 DEF Pop, BusTypeOK
  <2>5. HistoryTypeOK'
    BY <2>1, <2>2 DEF Pop, HistoryTypeOK
  <2> QED
    BY <1>1, <2>3, <2>4, <2>5
<1>7. CASE UnaccountBytes(c)
  <2> DEFINE n == item[c].draft.size
  <2>1. n \in Int
    BY <1>7, DraftsAssumption DEF UnaccountBytes, Flushing, FlushingAt, Envelopes, ShutdownDraft
  <2>2. bytes' = [bytes EXCEPT ![c] = @ - n] /\ UNCHANGED <<ordinal, busLock, subs, subScopes, queue,
           firstMissed, scopes, authorizedAt, seen, item, left, broadcastSeq, reason, histVars>>
    BY <1>7 DEF UnaccountBytes
  <2> HIDE DEF n
  <2>3. BusTypeOK'
    BY <2>1, <2>2 DEF BusTypeOK
  <2>4. ConnectionTypeOK'
    BY <1>7, <2>2 DEF UnaccountBytes
  <2> QED
    BY <1>1, <2>2, <2>3, <2>4, TypeFrame
<1>8. CASE Wake(c)
  BY <1>2, <1>8 DEF Wake
<1>9. CASE ReadGeneration(c)
  BY <1>2, <1>9 DEF ReadGeneration
<1>10. CASE Narrow(c)
  BY <1>2, <1>10 DEF Narrow
<1>11. CASE Reauthorize(c)
  <2>1. ConnectionTypeOK'
    BY <1>11 DEF Reauthorize
  <2>2. BusTypeOK'
    BY <1>11 DEF Reauthorize, BusTypeOK
  <2> QED
    BY <1>1, <1>11, <2>1, <2>2, TypeFrame DEF Reauthorize
<1>12. CASE Deliver(c)
  <2>1. wire[c] \o Written(c, item[c]) \in Seq(Nat)
    <3>1. wire[c] \in Seq(Nat) /\ Written(c, item[c]) \in Seq(Nat)
      BY DEF Written, HistoryTypeOK
    <3> QED
      BY <3>1, ConcatProperties
  <2>2. HistoryTypeOK'
    <3>1. CASE wire' = wire
      BY <1>12, <3>1 DEF Deliver, HistoryTypeOK
    <3>2. CASE wire' = [wire EXCEPT ![c] = @ \o Written(c, item[c])]
      <4>1. wire' \in [Conns -> Seq(Nat)]
        BY <2>1, <3>2 DEF HistoryTypeOK
      <4> QED
        BY <1>12, <4>1 DEF Deliver, HistoryTypeOK
    <3> QED
      BY <1>12, <3>1, <3>2 DEF Deliver
  <2>3. ConnectionTypeOK'
    <3>1. cpc' \in [Conns -> Live \cup {"connect", "authenticate", "subscribe", "closing", "closed"}]
      <4>1. PICK at \in {"closing", "flush", "select"} : cpc' = [cpc EXCEPT ![c] = at]
        BY <1>12 DEF Deliver, Resume
      <4> QED
        BY <4>1
    <3>2. reason' \in [Conns -> {"none", "rejected", "revoked", "slow", "shutdown", "peer"}]
      <4>1. reason' = reason \/ reason' = [reason EXCEPT ![c] = "shutdown"]
        BY <1>12 DEF Deliver, Close
      <4> QED
        BY <4>1 DEF ConnectionTypeOK
    <3>3. broadcastSeq' \in [Conns -> Nat]
      BY <1>12 DEF Deliver
    <3>4. left' \in [Conns -> 0 .. Capacity]
      BY <1>12 DEF Deliver
    <3>5. item' \in [Conns -> Envelopes \cup {None}]
      BY <1>12 DEF Deliver
    <3> QED
      BY <1>12, <3>1, <3>2, <3>3, <3>4, <3>5 DEF Deliver
  <2> QED
    BY <1>1, <1>12, <2>2, <2>3, TypeFrame DEF Deliver
<1>13. CASE Continue(c)
  <2>1. PICK why \in {"none", "slow", "shutdown", "peer"} :
           (CGoto(c, "select") /\ UNCHANGED reason) \/ Close(c, why)
    BY <1>13 DEF Continue, Terminal
  <2>2. ConnectionTypeOK'
    <3>1. reason' \in [Conns -> {"none", "rejected", "revoked", "slow", "shutdown", "peer"}]
      BY <2>1
    <3>2. \E at \in {"select", "closing"} : cpc' = [cpc EXCEPT ![c] = at]
      BY <2>1
    <3>3. cpc' \in [Conns -> Live \cup {"connect", "authenticate", "subscribe", "closing", "closed"}]
      BY <3>2
    <3> QED
      BY <1>13, <3>1, <3>3 DEF Continue
  <2> QED
    BY <1>2, <1>13, <2>2 DEF Continue
<1>14. CASE ObserveShutdown(c)
  BY <1>2, <1>14 DEF ObserveShutdown
<1>15. CASE FlushEnds(c)
  BY <1>2, <1>15 DEF FlushEnds, Terminal
<1>16. CASE Unsubscribe(c)
  <2>1. ConnectionTypeOK'
    BY <1>16 DEF Unsubscribe
  <2>2. BusTypeOK'
    BY <1>16 DEF Unsubscribe, BusTypeOK
  <2> QED
    BY <1>1, <1>16, <2>1, <2>2, TypeFrame DEF Unsubscribe
<1> QED
  BY <1>3, <1>4, <1>5, <1>6, <1>7, <1>8, <1>9, <1>10, <1>11, <1>12, <1>13, <1>14, <1>15, <1>16
  DEF ConnectionStep

-----------------------------------------------------------------------------
\* What goes on in the flush while publishers publish: after the signal only
\* other events are enqueued, and they go to subscribers.
LEMMA FlushFrame ==
    ASSUME BusInv, UNCHANGED <<cpc, left, item, reason>>, subs' \subseteq subs,
           shutdown = "signalled" => shutdown' = "signalled",
           \A c \in Conns :
              \/ queue'[c] = queue[c]
              \/ /\ c \in subs
                 /\ \E e \in Envelopes : /\ queue'[c] = Append(queue[c], e)
                                         /\ shutdown = "signalled" => ~e.shutdown
    PROVE  Flushing'
<1> USE DEF BusInv
<1>1. ASSUME NEW c \in Conns, NEW n \in Nat, Covers(c, n), queue'[c] # queue[c] => shutdown = "signalled"
      PROVE  Covers(c, n)'
  <2>1. CASE queue'[c] = queue[c]
    BY <1>1, <2>1 DEF Covers
  <2>2. CASE queue'[c] # queue[c]
    <3>1. PICK e \in Envelopes : queue'[c] = Append(queue[c], e) /\ ~e.shutdown
      BY <1>1, <2>2
    <3>2. queue[c] \in Seq(Envelopes)
      BY DEF TypeOK, BusTypeOK
    <3>3. /\ queue'[c] \in Seq(Envelopes) /\ Len(queue'[c]) = Len(queue[c]) + 1
          /\ \A i \in 1 .. Len(queue[c]) : queue'[c][i] = queue[c][i]
          /\ queue'[c][Len(queue[c]) + 1] = e
      BY <3>1, <3>2, AppendProperties
    <3>4. ASSUME NEW i \in DOMAIN queue'[c], queue'[c][i].shutdown PROVE i <= n
      <4>1. i \in 1 .. Len(queue[c]) + 1
        BY <3>3
      <4>2. i # Len(queue[c]) + 1
        BY <3>1, <3>3, <3>4
      <4>3. i \in 1 .. Len(queue[c])
        BY <3>2, <4>1, <4>2
      <4> QED
        BY <1>1, <3>2, <3>3, <3>4, <4>3 DEF Covers
    <3> QED
      BY <3>4 DEF Covers
  <2> QED
    BY <2>1, <2>2
<1>2. \A c \in Conns : left[c] \in Nat
  BY LimitsAssumption DEF TypeOK, ConnectionTypeOK
<1> SUFFICES ASSUME NEW c \in Conns
             PROVE  /\ cpc[c] \in {"select", "revalidate", "narrow", "reauthorize"} \cup Early
                          => left[c] = 0
                    /\ left[c] > 0 => shutdown' = "signalled"
                    /\ cpc[c] = "flush" => left[c] > 0 /\ Covers(c, left[c])'
                    /\ cpc[c] = "unaccount" => item[c] # None
                    /\ cpc[c] \in {"unaccount", "deliver"} /\ left[c] > 0
                          => item[c] # None /\ Covers(c, left[c] - 1)'
                    /\ reason[c] = "shutdown" => /\ cpc[c] \in {"closing", "closed"}
                                                 /\ c \notin subs' \/ shutdown' = "signalled"
                                                 /\ Covers(c, 0)'
  BY DEF Flushing, FlushingAt, Covers
<1>3. cpc[c] = "flush" => left[c] > 0 /\ Covers(c, left[c])'
  BY <1>1, <1>2 DEF Flushing, FlushingAt
<1>4. cpc[c] \in {"unaccount", "deliver"} /\ left[c] > 0 => item[c] # None /\ Covers(c, left[c] - 1)'
  <2> SUFFICES ASSUME cpc[c] \in {"unaccount", "deliver"}, left[c] > 0
               PROVE  item[c] # None /\ Covers(c, left[c] - 1)'
    OBVIOUS
  <2> DEFINE n == left[c] - 1
  <2>1. n \in Nat /\ Covers(c, n) /\ shutdown = "signalled" /\ item[c] # None
    BY <1>2 DEF Flushing, FlushingAt
  <2> HIDE DEF n
  <2>2. \A i \in DOMAIN queue'[c] : queue'[c][i].shutdown => i <= n
    BY <1>1, <2>1 DEF Covers
  <2> QED
    BY <2>1, <2>2 DEF Covers, n
<1>5. reason[c] = "shutdown" => Covers(c, 0)'
  BY <1>1 DEF Flushing, FlushingAt
<1> QED
  BY <1>3, <1>4, <1>5 DEF Flushing, FlushingAt

\* A publisher takes its ordinal.
LEMMA TakeOrdinalKeeps ==
    ASSUME BusInv, NEW q \in Publishers, NEW d \in Drafts \cup {ShutdownDraft}, NEW b \in BOOLEAN,
           TakeOrdinal(q, d, b),
           \/ ~b /\ shutdown' = shutdown
           \/ b /\ shutdown = "no" /\ shutdown' = "publishing"
    PROVE  Numbered' /\ Fanning' /\ Removed' /\ PrefixThenGap' /\ Announcing' /\ Flushing'
<1> USE DEF BusInv
<1> DEFINE e == [ordinal |-> ordinal + 1, draft |-> d, shutdown |-> b]
<1>1. /\ ppc[q] = "idle" /\ ordinal' = ordinal + 1
      /\ UNCHANGED <<busLock, subs, queue, firstMissed, todo, lagging, cpc, left, item, reason,
                     admitted, taken>>
  BY DEF TakeOrdinal, connVars, histVars
<1>2. /\ env'[q] = e /\ ppc'[q] = "lock"
      /\ \A p \in Publishers : p # q => env'[p] = env[p] /\ ppc'[p] = ppc[p]
  BY DEF TakeOrdinal, TypeOK, PublisherTypeOK
<1>3. e.ordinal = ordinal + 1 /\ e.shutdown = b
  OBVIOUS
<1>4. ordinal \in Nat
  BY BoundsAssumption DEF TypeOK, BusTypeOK
<1>5. e # None
  BY <1>4, NoneAssumption DEF Envelopes
<1> HIDE DEF e
<1>6. Numbered'
  BY <1>1, <1>2, <1>3, <1>4, <1>5 DEF Numbered
<1>7. \A p \in Publishers : Holding(p)' <=> Holding(p)
  BY <1>1, <1>2 DEF Holding
<1>8. Fanning' /\ Removed'
  BY <1>1, <1>7 DEF Fanning, Removed
<1>9. PrefixThenGap'
  BY <1>1 DEF PrefixThenGap
<1>10. Announcing'
  BY <1>2, <1>3 DEF Announcing
<1>11. Flushing'
  BY <1>1, FlushFrame
<1> QED
  BY <1>6, <1>8, <1>9, <1>10, <1>11

\* One publisher takes the lock.
LEMMA LockKeeps ==
    ASSUME BusInv, NEW q \in Publishers, LockSubscribers(q)
    PROVE  Numbered' /\ Fanning' /\ Removed' /\ PrefixThenGap' /\ Announcing' /\ Flushing'
<1> USE DEF BusInv
<1>1. /\ ppc[q] = "lock" /\ busLock = None /\ busLock' = q
      /\ UNCHANGED <<ordinal, subs, queue, firstMissed, env, lagging, cpc, left, item, reason,
                     admitted, taken, shutdown>>
  BY DEF LockSubscribers, connVars, histVars
<1>2. /\ ppc'[q] = "fan" /\ todo'[q] = subs
      /\ \A p \in Publishers : p # q => ppc'[p] = ppc[p] /\ todo'[p] = todo[p]
  BY DEF LockSubscribers, TypeOK, PublisherTypeOK
<1>3. \A p \in Publishers : ~Holding(p) /\ (Holding(p)' <=> p = q)
  BY <1>1, <1>2, NamesAssumption DEF Fanning, Holding
<1>4. lagging[q] = {}
  BY <1>1 DEF Fanning, Holding
<1>5. Numbered' /\ Announcing' /\ PrefixThenGap'
  BY <1>1, <1>2 DEF Numbered, Announcing, PrefixThenGap
<1>6. Fanning' /\ Removed'
  BY <1>1, <1>2, <1>3, <1>4 DEF Fanning, Removed
<1>7. Flushing'
  BY <1>1, FlushFrame
<1> QED
  BY <1>5, <1>6, <1>7

\* The holder offers its envelope to one subscriber.
LEMMA OfferKeeps ==
    ASSUME BusInv, NEW q \in Publishers, NEW c \in Conns, Offer(q, c)
    PROVE  Numbered' /\ Fanning' /\ Removed' /\ PrefixThenGap' /\ Announcing' /\ Flushing'
<1> USE DEF BusInv
<1> DEFINE e == env[q]
           kept == taken[c] \o queue[c]
<1>1. /\ ppc[q] = "fan" /\ c \in todo[q] /\ todo' = [todo EXCEPT ![q] = @ \ {c}]
      /\ UNCHANGED <<ordinal, busLock, subs, env, shutdown, cpc, left, item, reason, taken>>
  BY DEF Offer, connVars
<1>2. /\ e # None /\ e \in Envelopes /\ e.ordinal \in 1 .. ordinal /\ ordinal \in Nat
      /\ queue[c] \in Seq(Envelopes) /\ taken[c] \in Seq(Envelopes)
      /\ kept \in Seq(Envelopes)
  BY <1>1, BoundsAssumption, ConcatProperties
  DEF Numbered, TypeOK, BusTypeOK, PublisherTypeOK, HistoryTypeOK
<1>3. /\ todo'[q] = todo[q] \ {c}
      /\ \A p \in Publishers : p # q => todo'[p] = todo[p]
  BY <1>1 DEF TypeOK, PublisherTypeOK
<1>4. Holding(q) /\ c \in subs /\ c \notin lagging[q]
  BY <1>1 DEF Holding, Fanning
<1>5. \A p \in Publishers : Holding(p) <=> p = q
  BY <1>4 DEF Fanning
<1>6. firstMissed[c] = 0
  BY <1>4, <1>5 DEF Removed
<1>7. admitted[c] = kept
  BY <1>6 DEF PrefixThenGap
<1>8. ASSUME ppc'[q] \notin {"idle", "lock"}, \A p \in Publishers : p # q => ppc'[p] = ppc[p]
      PROVE  /\ Numbered' /\ Announcing'
             /\ \A p \in Publishers : Holding(p)' <=> Holding(p)
  <2>1. Numbered' /\ Announcing'
    BY <1>1, <1>2, <1>8 DEF Numbered, Announcing
  <2> QED
    BY <1>4, <1>8, <2>1 DEF Holding
<1> HIDE DEF e, kept
<1>9. CASE UNCHANGED <<queue, firstMissed, lagging, ppc, admitted>>
  <2>2. Numbered' /\ Announcing' /\ \A p \in Publishers : Holding(p)' <=> Holding(p)
    BY <1>1, <1>8, <1>9
  <2>3. Fanning'
    BY <1>1, <1>3, <1>9, <2>2 DEF Fanning
  <2>4. Removed'
    BY <1>1, <1>3, <1>9, <2>2 DEF Removed
  <2>5. PrefixThenGap'
    BY <1>1, <1>3, <1>9 DEF PrefixThenGap
  <2>6. Flushing'
    BY <1>1, <1>9, FlushFrame
  <2> QED
    BY <2>2, <2>3, <2>4, <2>5, <2>6
<1>10. CASE /\ firstMissed' = [firstMissed EXCEPT ![c] = IF @ = 0 THEN e.ordinal ELSE @]
            /\ lagging' = [lagging EXCEPT ![q] = @ \cup {c}]
            /\ admitted' = [admitted EXCEPT ![c] = Append(@, e)]
            /\ UNCHANGED <<queue, ppc>>
  <2>2. Numbered' /\ Announcing' /\ \A p \in Publishers : Holding(p)' <=> Holding(p)
    BY <1>1, <1>8, <1>10
  <2>3. /\ firstMissed'[c] = e.ordinal /\ firstMissed'[c] # 0
        /\ admitted'[c] = Append(kept, e)
        /\ \A d \in Conns : d # c => firstMissed'[d] = firstMissed[d] /\ admitted'[d] = admitted[d]
    BY <1>2, <1>6, <1>7, <1>10 DEF TypeOK, BusTypeOK, HistoryTypeOK
  <2>4. /\ lagging'[q] = lagging[q] \cup {c}
        /\ \A p \in Publishers : p # q => lagging'[p] = lagging[p]
    BY <1>10 DEF TypeOK, PublisherTypeOK
  <2>5. Fanning'
    BY <1>1, <1>3, <1>5, <2>2, <2>4 DEF Fanning
  <2>6. Removed'
    <3> SUFFICES ASSUME NEW d \in Conns
                 PROVE  /\ firstMissed'[d] # 0
                             => d \notin subs \/ \E p \in Publishers : Holding(p)' /\ d \in lagging'[p]
                        /\ cpc[d] \in Early => d \notin subs /\ firstMissed'[d] = 0
      BY <1>1 DEF Removed
    <3>1. CASE d = c
      BY <1>4, <2>2, <2>4, <3>1 DEF Removed
    <3>2. CASE d # c
      <4>1. \A p \in Publishers : lagging[p] \subseteq lagging'[p]
        BY <2>4
      <4> QED
        BY <2>2, <2>3, <3>2, <4>1 DEF Removed
    <3> QED
      BY <3>1, <3>2
  <2>7. PrefixThenGap'
    <3>1. /\ Len(admitted'[c]) = Len(kept) + 1
          /\ kept = SubSeq(admitted'[c], 1, Len(kept))
          /\ firstMissed'[c] = admitted'[c][Len(kept) + 1].ordinal
      BY <1>2, <2>3, GapKeeps
    <3>2. \A d \in Conns : taken'[d] \o queue'[d] = taken[d] \o queue[d]
      BY <1>1, <1>10
    <3> QED
      BY <2>3, <3>1, <3>2 DEF PrefixThenGap, kept
  <2>8. Flushing'
    BY <1>1, <1>10, FlushFrame
  <2> QED
    BY <2>2, <2>5, <2>6, <2>7, <2>8
<1>11. CASE /\ queue' = [queue EXCEPT ![c] = Append(@, e)]
            /\ admitted' = [admitted EXCEPT ![c] = Append(@, e)]
            /\ ppc' = [ppc EXCEPT ![q] = c]
            /\ UNCHANGED <<firstMissed, lagging>>
  <2>1. ppc'[q] \notin {"idle", "lock"} /\ \A p \in Publishers : p # q => ppc'[p] = ppc[p]
    BY <1>11, NamesAssumption DEF TypeOK, PublisherTypeOK
  <2>2. Numbered' /\ Announcing' /\ \A p \in Publishers : Holding(p)' <=> Holding(p)
    BY <1>8, <2>1
  <2>3. /\ queue'[c] = Append(queue[c], e) /\ admitted'[c] = Append(kept, e)
        /\ \A d \in Conns : d # c => queue'[d] = queue[d] /\ admitted'[d] = admitted[d]
    BY <1>7, <1>11 DEF TypeOK, BusTypeOK, HistoryTypeOK
  <2>4. Fanning' /\ Removed'
    BY <1>1, <1>3, <1>11, <2>2 DEF Fanning, Removed
  <2>5. PrefixThenGap'
    <3>0. taken[c] \o Append(queue[c], e) = Append(taken[c] \o queue[c], e)
      <4> DEFINE s == taken[c]
                 t == queue[c]
      <4>1. s \in Seq(Envelopes) /\ t \in Seq(Envelopes) /\ e \in Envelopes
        BY <1>2
      <4> HIDE DEF s, t, BusInv
      <4>2. s \o Append(t, e) = Append(s \o t, e)
        BY <4>1, AppendKeeps
      <4> QED
        BY <4>2 DEF s, t
    <3>1. taken[c] \o Append(queue[c], e) = Append(kept, e)
      BY <3>0 DEF kept
    <3>2. admitted'[c] = taken'[c] \o queue'[c] /\ firstMissed'[c] = 0
      BY <1>1, <1>6, <1>11, <2>3, <3>1
    <3>3. \A d \in Conns : d # c => /\ admitted'[d] = admitted[d] /\ taken'[d] = taken[d]
                                    /\ queue'[d] = queue[d] /\ firstMissed'[d] = firstMissed[d]
      BY <1>1, <1>11, <2>3
    <3> QED
      BY <3>2, <3>3 DEF PrefixThenGap
  <2>6. shutdown = "signalled" => ~e.shutdown
    BY <1>2 DEF Announcing, e
  <2>7. Flushing'
    BY <1>1, <1>2, <1>4, <2>3, <2>6, FlushFrame
  <2> QED
    BY <2>2, <2>4, <2>5, <2>7
<1> QED
  BY <1>9, <1>10, <1>11 DEF Offer, e

\* The bytes of the enqueued envelope are added; the holder goes on.
LEMMA AccountKeeps ==
    ASSUME BusInv, NEW q \in Publishers, AccountBytes(q)
    PROVE  Numbered' /\ Fanning' /\ Removed' /\ PrefixThenGap' /\ Announcing' /\ Flushing'
<1> USE DEF BusInv
<1>1. /\ ppc[q] \in Conns
      /\ UNCHANGED <<ordinal, busLock, subs, queue, firstMissed, env, todo, lagging, cpc, left,
                     item, reason, admitted, taken, shutdown>>
  BY DEF AccountBytes, connVars, histVars
<1>2. ppc'[q] = "fan" /\ \A p \in Publishers : p # q => ppc'[p] = ppc[p]
  BY DEF AccountBytes, TypeOK, PublisherTypeOK
<1>3. \A p \in Publishers : Holding(p)' <=> Holding(p)
  BY <1>1, <1>2, NamesAssumption DEF Holding
<1>4. Numbered'
  BY <1>1, <1>2, NamesAssumption DEF Numbered
<1>5. Announcing' /\ PrefixThenGap' /\ Fanning' /\ Removed'
  BY <1>1, <1>3 DEF Announcing, PrefixThenGap, Fanning, Removed
<1>6. Flushing'
  BY <1>1, FlushFrame
<1> QED
  BY <1>4, <1>5, <1>6

\* The holder removes who lagged and releases the lock.
LEMMA FinishKeeps ==
    ASSUME BusInv, NEW q \in Publishers, FinishPublish(q)
    PROVE  Numbered' /\ Fanning' /\ Removed' /\ PrefixThenGap' /\ Announcing' /\ Flushing'
<1> USE DEF BusInv
<1>1. /\ ppc[q] = "fan" /\ subs' = subs \ lagging[q] /\ busLock' = None
      /\ UNCHANGED <<ordinal, queue, firstMissed, todo, cpc, left, item, reason, admitted, taken>>
  BY DEF FinishPublish, connVars, histVars
<1>2. /\ ppc'[q] = "idle" /\ env'[q] = None /\ lagging'[q] = {}
      /\ \A p \in Publishers : p # q => /\ ppc'[p] = ppc[p] /\ env'[p] = env[p]
                                        /\ lagging'[p] = lagging[p]
  BY DEF FinishPublish, TypeOK, PublisherTypeOK
<1>3. \A p \in Publishers : (Holding(p) <=> p = q) /\ ~Holding(p)'
  BY <1>1, <1>2 DEF Holding, Fanning
<1>4. Numbered' /\ PrefixThenGap'
  BY <1>1, <1>2 DEF Numbered, PrefixThenGap
<1>5. Fanning'
  BY <1>1, <1>2, <1>3, NamesAssumption DEF Fanning
<1>6. Removed'
  BY <1>1, <1>3 DEF Removed
<1>7. env[q] # None /\ shutdown' = IF env[q].shutdown THEN "announced" ELSE shutdown
  BY <1>1 DEF FinishPublish, Numbered
<1>8. Announcing'
  BY <1>2, <1>7 DEF Announcing
<1>9. Flushing'
  <2>1. shutdown = "signalled" => shutdown' = "signalled"
    BY <1>7 DEF Announcing
  <2> QED
    BY <1>1, <2>1, FlushFrame
<1> QED
  BY <1>4, <1>5, <1>6, <1>8, <1>9

-----------------------------------------------------------------------------
\* A step of a connection that takes nothing from its queue and leaves the
\* subscriptions alone.
LEMMA ConnectionFrame ==
    ASSUME BusInv, NEW c \in Conns,
           UNCHANGED <<ordinal, busLock, subs, queue, firstMissed, pubVars, shutdown, admitted, taken>>,
           \A d \in Conns : d # c => /\ cpc'[d] = cpc[d] /\ left'[d] = left[d]
                                     /\ item'[d] = item[d] /\ reason'[d] = reason[d],
           cpc'[c] \in Early => cpc[c] \in Early,
           FlushingAt(c)'
    PROVE  Numbered' /\ Fanning' /\ Removed' /\ PrefixThenGap' /\ Announcing' /\ Flushing'
<1> USE DEF BusInv, pubVars
<1>1. Numbered' /\ Announcing' /\ PrefixThenGap'
  BY DEF Numbered, Announcing, PrefixThenGap
<1>2. \A p \in Publishers : Holding(p)' <=> Holding(p)
  BY DEF Holding
<1>3. Fanning'
  BY <1>2 DEF Fanning
<1>4. Removed'
  BY <1>2 DEF Removed
<1>5. Flushing'
  <2> SUFFICES ASSUME NEW d \in Conns, d # c PROVE FlushingAt(d)'
    BY DEF Flushing
  <2> QED
    BY DEF Flushing, FlushingAt, Covers
<1> QED
  BY <1>1, <1>3, <1>4, <1>5

\* The connection takes the head of its queue.
LEMMA PopStep ==
    ASSUME BusInv, NEW c \in Conns, Pop(c), cpc[c] \in {"select", "flush"},
           UNCHANGED <<ordinal, busLock, subs, firstMissed, pubVars, left, reason, shutdown, admitted>>
    PROVE  Numbered' /\ Fanning' /\ Removed' /\ PrefixThenGap' /\ Announcing' /\ Flushing'
<1> USE DEF BusInv, pubVars
<1> DEFINE e == Head(queue[c])
<1>1. /\ queue[c] # <<>> /\ queue[c] \in Seq(Envelopes) /\ taken[c] \in Seq(Envelopes)
      /\ left[c] \in Nat
  BY LimitsAssumption DEF Pop, TypeOK, BusTypeOK, ConnectionTypeOK, HistoryTypeOK
<1>2. /\ queue'[c] = Tail(queue[c]) /\ taken'[c] = Append(taken[c], e)
      /\ item'[c] = e /\ cpc'[c] = "unaccount"
      /\ \A d \in Conns : d # c => /\ queue'[d] = queue[d] /\ taken'[d] = taken[d]
                                   /\ item'[d] = item[d] /\ cpc'[d] = cpc[d]
  BY DEF Pop, CGoto, TypeOK, BusTypeOK, ConnectionTypeOK, HistoryTypeOK
<1>3. Numbered' /\ Announcing'
  BY DEF Numbered, Announcing
<1>4. \A p \in Publishers : Holding(p)' <=> Holding(p)
  BY DEF Holding
<1>5. Fanning'
  BY <1>4 DEF Fanning
<1>6. Removed'
  BY <1>2, <1>4 DEF Removed, Early
<1>7. PrefixThenGap'
  <2>1. taken'[c] \o queue'[c] = taken[c] \o queue[c]
    <3> DEFINE s == taken[c]
               t == queue[c]
    <3>1. s \in Seq(Envelopes) /\ t \in Seq(Envelopes) /\ t # <<>>
      BY <1>1
    <3>2. taken'[c] \o queue'[c] = Append(s, Head(t)) \o Tail(t)
      BY <1>2
    <3> HIDE DEF s, t, BusInv
    <3>3. Append(s, Head(t)) \o Tail(t) = s \o t
      BY <3>1, PopKeeps
    <3> QED
      BY <3>2, <3>3 DEF s, t
  <2>2. \A d \in Conns : taken'[d] \o queue'[d] = taken[d] \o queue[d]
    BY <1>2, <2>1
  <2> QED
    BY <2>2 DEF PrefixThenGap
<1>8. FlushingAt(c)'
  <2>1. e # None
    BY <1>1, PopKeeps, NoneAssumption
  <2>2. left[c] > 0 => cpc[c] = "flush" /\ shutdown = "signalled" /\ Covers(c, left[c])
    BY DEF Flushing, FlushingAt
  <2>3. reason[c] # "shutdown"
    BY DEF Flushing, FlushingAt
  <2>4. ASSUME left[c] > 0, NEW i \in DOMAIN queue'[c], queue'[c][i].shutdown
        PROVE  i <= left[c] - 1
    <3>1. i + 1 \in DOMAIN queue[c] /\ queue'[c][i] = queue[c][i + 1] /\ i \in Int
      BY <1>1, <1>2, <2>4, PopKeeps
    <3> QED
      BY <1>1, <2>2, <2>4, <3>1 DEF Covers
  <2>5. left[c] > 0 => \A i \in DOMAIN queue'[c] : queue'[c][i].shutdown => i <= left[c] - 1
    BY <2>4
  <2> QED
    BY <1>2, <2>1, <2>2, <2>3, <2>5 DEF FlushingAt, Covers, Early
<1>9. Flushing'
  <2> SUFFICES ASSUME NEW d \in Conns, d # c PROVE FlushingAt(d)'
    BY <1>8 DEF Flushing
  <2> QED
    BY <1>2 DEF Flushing, FlushingAt, Covers
<1> QED
  BY <1>3, <1>5, <1>6, <1>7, <1>9

\* Every step of a connection.
LEMMA ConnectionKeeps ==
    ASSUME BusInv, NEW c \in Conns, ConnectionStep(c)
    PROVE  Numbered' /\ Fanning' /\ Removed' /\ PrefixThenGap' /\ Announcing' /\ Flushing'
<1> USE DEF BusInv, CGoto, Close
<1>1. \A at : cpc' = [cpc EXCEPT ![c] = at] => /\ cpc'[c] = at
                                               /\ \A d \in Conns : d # c => cpc'[d] = cpc[d]
  BY DEF TypeOK, ConnectionTypeOK
<1>2. \A why : reason' = [reason EXCEPT ![c] = why]
                  => /\ reason'[c] = why
                     /\ \A d \in Conns : d # c => reason'[d] = reason[d]
  BY DEF TypeOK, ConnectionTypeOK
<1>3. \A n : left' = [left EXCEPT ![c] = n] => /\ left'[c] = n
                                               /\ \A d \in Conns : d # c => left'[d] = left[d]
  BY DEF TypeOK, ConnectionTypeOK
<1>4. left[c] \in Nat
  BY LimitsAssumption DEF TypeOK, ConnectionTypeOK
<1>5. reason[c] = "shutdown" => cpc[c] \in {"closing", "closed"}
  BY DEF Flushing, FlushingAt
<1>6. ASSUME UNCHANGED <<ordinal, busLock, subs, queue, firstMissed, pubVars, left, item, reason,
                         shutdown, admitted, taken>>,
             \A d \in Conns : d # c => cpc'[d] = cpc[d], cpc[c] \notin {"closing", "closed"},
             cpc'[c] \notin {"flush", "unaccount"},
             cpc'[c] \in Early => cpc[c] \in Early,
             cpc'[c] \in {"select", "revalidate", "narrow", "reauthorize"} \cup Early => left[c] = 0,
             cpc'[c] = "deliver" => left[c] = 0 \/ cpc[c] = "unaccount"
      PROVE  Numbered' /\ Fanning' /\ Removed' /\ PrefixThenGap' /\ Announcing' /\ Flushing'
  <2>1. FlushingAt(c)'
    BY <1>5, <1>6 DEF Flushing, FlushingAt, Covers
  <2> QED
    BY <1>6, <2>1, ConnectionFrame
<1>7. ASSUME UNCHANGED <<ordinal, busLock, subs, queue, firstMissed, pubVars, left, item,
                         shutdown, admitted, taken>>,
             NEW why, Close(c, why),
             why = "shutdown" => queue[c] = <<>> /\ (c \notin subs \/ shutdown = "signalled")
      PROVE  Numbered' /\ Fanning' /\ Removed' /\ PrefixThenGap' /\ Announcing' /\ Flushing'
  <2>1. cpc'[c] = "closing" /\ reason'[c] = why
    BY <1>1, <1>2, <1>7
  <2>2. queue[c] = <<>> => \A i \in DOMAIN queue[c] : i <= 0
    OBVIOUS
  <2>3. left[c] > 0 => shutdown = "signalled"
    BY DEF Flushing, FlushingAt
  <2>4. FlushingAt(c)'
    BY <1>7, <2>1, <2>2, <2>3 DEF FlushingAt, Covers, Early
  <2> QED
    BY <1>1, <1>2, <1>7, <2>4, ConnectionFrame DEF Early
<1>8. CASE ReadGenerationFirst(c)
  <2>1. left[c] = 0 /\ cpc[c] = "connect"
    BY <1>8 DEF ReadGenerationFirst, Early, Flushing, FlushingAt
  <2>2. /\ cpc' = [cpc EXCEPT ![c] = "authenticate"]
        /\ UNCHANGED <<ordinal, busLock, subs, queue, firstMissed, pubVars, left, item, reason,
                       shutdown, admitted, taken>>
    BY <1>8 DEF ReadGenerationFirst, busVars, histVars
  <2> QED
    BY <1>1, <1>6, <2>1, <2>2 DEF Early
<1>9. CASE Authenticate(c)
  <2>1. CASE Close(c, "rejected")
    BY <1>7, <1>9, <2>1 DEF Authenticate, busVars, histVars
  <2>2. CASE CGoto(c, "subscribe") /\ UNCHANGED reason
    <3>1. left[c] = 0 /\ cpc[c] = "authenticate"
      BY <1>9 DEF Authenticate, Early, Flushing, FlushingAt
    <3> QED
      BY <1>1, <1>6, <1>9, <2>2, <3>1 DEF Authenticate, busVars, histVars, Early
  <2> QED
    BY <1>9, <2>1, <2>2 DEF Authenticate
<1>10. CASE Receive(c) \/ FlushOne(c)
  BY <1>10, PopStep DEF Receive, FlushOne
<1>11. CASE UnaccountBytes(c)
  <2>1. /\ cpc[c] = "unaccount"
        /\ UNCHANGED <<ordinal, busLock, subs, queue, firstMissed, pubVars, left, item, reason,
                       shutdown, admitted, taken>>
    BY <1>11 DEF UnaccountBytes, histVars
  <2>2. CASE left[c] > 0
    <3>1. cpc' = [cpc EXCEPT ![c] = "deliver"]
      BY <1>11, <2>2 DEF UnaccountBytes
    <3>2. cpc'[c] = "deliver" /\ \A d \in Conns : d # c => cpc'[d] = cpc[d]
      BY <1>1, <3>1
    <3> QED
      BY <1>6, <2>1, <2>2, <3>2 DEF Early
  <2>3. CASE left[c] = 0
    <3>1. cpc' = [cpc EXCEPT ![c] = "revalidate"]
      BY <1>11, <2>3 DEF UnaccountBytes
    <3>2. cpc'[c] = "revalidate" /\ \A d \in Conns : d # c => cpc'[d] = cpc[d]
      BY <1>1, <3>1
    <3> QED
      BY <1>6, <2>1, <2>3, <3>2 DEF Early
  <2> QED
    BY <1>4, <2>2, <2>3
<1>12. CASE Wake(c) \/ ReadGeneration(c) \/ Reauthorize(c)
  <2>1. left[c] = 0
    BY <1>12 DEF Wake, ReadGeneration, Reauthorize, Flushing, FlushingAt
  <2>2. PICK at \in {"revalidate", "deliver", "narrow"} : cpc' = [cpc EXCEPT ![c] = at]
    BY <1>12 DEF Wake, ReadGeneration, Reauthorize
  <2>3. UNCHANGED <<ordinal, busLock, subs, queue, firstMissed, pubVars, left, item, reason,
                    shutdown, admitted, taken>>
    BY <1>12 DEF Wake, ReadGeneration, Reauthorize, busVars, histVars
  <2>4. cpc[c] \notin {"closing", "closed"}
    BY <1>12 DEF Wake, ReadGeneration, Reauthorize
  <2> QED
    BY <1>1, <1>6, <2>1, <2>2, <2>3, <2>4 DEF Early
<1>13. CASE Narrow(c)
  <2>1. left[c] = 0
    BY <1>13 DEF Narrow, Flushing, FlushingAt
  <2>2. CASE Close(c, "revoked")
    BY <1>7, <1>13, <2>2 DEF Narrow, busVars, histVars
  <2>3. CASE /\ CGoto(c, IF scopes[c] \subseteq grant[c] THEN "deliver" ELSE "reauthorize")
             /\ UNCHANGED reason
    <3>1. PICK at \in {"deliver", "reauthorize"} : cpc' = [cpc EXCEPT ![c] = at]
      BY <2>3
    <3> QED
      BY <1>1, <1>6, <1>13, <2>1, <2>3, <3>1 DEF Narrow, busVars, histVars, Early
  <2> QED
    BY <1>13, <2>2, <2>3 DEF Narrow
<1>14. CASE Deliver(c)
  <2>1. /\ cpc[c] = "deliver" /\ item[c] # None
        /\ item' = [item EXCEPT ![c] = None]
        /\ left' = [left EXCEPT ![c] = IF @ > 0 THEN @ - 1 ELSE 0]
        /\ UNCHANGED <<ordinal, busLock, subs, queue, firstMissed, pubVars, shutdown, admitted, taken>>
    BY <1>14 DEF Deliver, busVars
  <2>2. /\ left'[c] = IF left[c] > 0 THEN left[c] - 1 ELSE 0
        /\ \A d \in Conns : d # c => item'[d] = item[d] /\ left'[d] = left[d]
    BY <2>1 DEF TypeOK, ConnectionTypeOK
  <2>3. left[c] > 0 => shutdown = "signalled" /\ Covers(c, left[c] - 1)
    BY <2>1 DEF Flushing, FlushingAt
  <2>4. CASE left[c] = 1
    <3>1. cpc'[c] = "closing" /\ reason'[c] = "shutdown"
      BY <1>1, <1>2, <1>14, <2>4 DEF Deliver
    <3>2. Covers(c, 0)'
      BY <2>1, <2>3, <2>4 DEF Covers
    <3>3. FlushingAt(c)'
      BY <2>1, <2>2, <2>3, <2>4, <3>1, <3>2 DEF FlushingAt, Early
    <3> QED
      BY <1>1, <1>2, <1>14, <2>1, <2>2, <2>4, <3>1, <3>3, ConnectionFrame DEF Deliver, Early
  <2>5. CASE left[c] # 1
    <3>1. cpc'[c] = Resume(c) /\ reason' = reason
      BY <1>1, <1>14, <2>5 DEF Deliver
    <3>2. left[c] > 0 => \A i \in DOMAIN queue'[c] : queue'[c][i].shutdown => i <= left'[c]
      BY <2>1, <2>2, <2>3 DEF Covers
    <3>3. reason'[c] # "shutdown"
      BY <1>5, <2>1, <3>1
    <3>4. FlushingAt(c)'
      BY <1>4, <2>1, <2>2, <2>3, <2>5, <3>1, <3>2, <3>3 DEF FlushingAt, Early, Resume, Covers
    <3> QED
      BY <1>1, <1>14, <2>1, <2>2, <2>5, <3>1, <3>4, ConnectionFrame DEF Deliver, Early, Resume
  <2> QED
    BY <2>4, <2>5
<1>15. CASE Continue(c)
  <2>1. left[c] = 0
    BY <1>4, <1>15 DEF Continue, Flushing, FlushingAt
  <2>2. UNCHANGED <<ordinal, busLock, subs, queue, firstMissed, pubVars, left, item, shutdown,
                    admitted, taken>>
    BY <1>15 DEF Continue, busVars, histVars
  <2>3. CASE CGoto(c, "select") /\ UNCHANGED reason
    BY <1>1, <1>6, <1>15, <2>1, <2>2, <2>3 DEF Continue, Early
  <2>4. CASE c \notin subs /\ queue[c] = <<>> /\ Close(c, Terminal(c))
    BY <1>7, <2>2, <2>4
  <2>5. CASE Close(c, "peer")
    BY <1>7, <2>2, <2>5
  <2> QED
    BY <1>15, <2>3, <2>4, <2>5 DEF Continue
<1>16. CASE ObserveShutdown(c)
  <2>1. /\ cpc'[c] = "flush" /\ left'[c] = Capacity /\ shutdown = "signalled" /\ cpc[c] = "select"
        /\ \A d \in Conns : d # c => cpc'[d] = cpc[d] /\ left'[d] = left[d]
    BY <1>1, <1>3, <1>16 DEF ObserveShutdown
  <2>2. UNCHANGED <<ordinal, busLock, subs, queue, firstMissed, pubVars, item, reason, shutdown,
                    admitted, taken>>
    BY <1>16 DEF ObserveShutdown, busVars, histVars
  <2>3. \A i \in DOMAIN queue[c] : i <= Capacity
    <3>1. queue[c] \in Seq(Envelopes) /\ Len(queue[c]) <= Capacity
      BY DEF TypeOK, BusTypeOK
    <3> QED
      BY <3>1, LimitsAssumption
  <2>4. FlushingAt(c)'
    BY <1>5, <2>1, <2>2, <2>3, LimitsAssumption DEF FlushingAt, Covers, Early
  <2> QED
    BY <2>1, <2>2, <2>4, ConnectionFrame DEF Early
<1>17. CASE FlushEnds(c)
  <2>1. /\ queue[c] = <<>> /\ shutdown = "signalled"
        /\ UNCHANGED <<ordinal, busLock, subs, queue, firstMissed, pubVars, left, item, shutdown,
                       admitted, taken>>
    BY <1>17 DEF FlushEnds, busVars, histVars, Flushing, FlushingAt
  <2> QED
    BY <1>7, <1>17, <2>1 DEF FlushEnds
<1>18. CASE Subscribe(c) \/ Unsubscribe(c)
  <2>1. /\ busLock = None /\ cpc[c] \in {"subscribe", "closing"}
        /\ UNCHANGED <<ordinal, busLock, queue, firstMissed, pubVars, left, item, reason, shutdown,
                       admitted, taken>>
    BY <1>18 DEF Subscribe, Unsubscribe, histVars
  <2>2. /\ \A d \in Conns : d # c => cpc'[d] = cpc[d] /\ (d \in subs' <=> d \in subs)
        /\ \/ cpc[c] = "subscribe" /\ cpc'[c] = "select"
           \/ cpc[c] = "closing" /\ cpc'[c] = "closed" /\ c \notin subs'
    BY <1>1, <1>18 DEF Subscribe, Unsubscribe
  <2>3. \A p \in Publishers : ~Holding(p) /\ ~Holding(p)'
    BY <2>1, NamesAssumption DEF Fanning, Holding, pubVars
  <2>4. Numbered' /\ Announcing' /\ PrefixThenGap'
    BY <2>1 DEF Numbered, Announcing, PrefixThenGap, pubVars
  <2>5. Fanning'
    BY <2>1, <2>3 DEF Fanning, pubVars
  <2>6. Removed'
    BY <2>1, <2>2, <2>3 DEF Removed, Early
  <2>7. Flushing'
    <3> SUFFICES ASSUME NEW d \in Conns PROVE FlushingAt(d)'
      BY DEF Flushing
    <3>1. CASE d # c
      BY <2>1, <2>2, <3>1 DEF Flushing, FlushingAt, Covers
    <3>2. CASE d = c
      BY <2>1, <2>2, <3>2 DEF Flushing, FlushingAt, Covers, Early
    <3> QED
      BY <3>1, <3>2
  <2> QED
    BY <2>4, <2>5, <2>6, <2>7
<1> QED
  BY <1>8, <1>9, <1>10, <1>11, <1>12, <1>13, <1>14, <1>15, <1>16, <1>17, <1>18 DEF ConnectionStep

\* Every step keeps the invariant, and so does a step of something else.
LEMMA BusStep == BusInv /\ [Next]_vars => BusInv'
<1> SUFFICES ASSUME BusInv, [Next]_vars PROVE BusInv'
  OBVIOUS
<1>0. ASSUME TypeOK', Bounded',
             UNCHANGED <<ordinal, busLock, subs, queue, firstMissed, pubVars, connVars, admitted, taken>>,
             shutdown' = shutdown \/ (shutdown = "announced" /\ shutdown' = "signalled")
      PROVE  BusInv'
  <2>1. \A q \in Publishers : Holding(q)' <=> Holding(q)
    BY <1>0 DEF Holding, pubVars
  <2>2. Numbered' /\ Fanning' /\ Removed' /\ PrefixThenGap'
    BY <1>0, <2>1 DEF BusInv, Numbered, Fanning, Removed, PrefixThenGap, pubVars, connVars
  <2>3. Announcing'
    BY <1>0 DEF BusInv, Announcing, pubVars
  <2>4. Flushing'
    BY <1>0, FlushFrame DEF connVars
  <2> QED
    BY <1>0, <2>2, <2>3, <2>4 DEF BusInv
<1>1. CASE UNCHANGED vars
  <2>1. TypeOK' /\ Bounded'
    BY <1>1, TypeFrame DEF vars, BusInv, TypeOK, Bounded, dirVars
  <2> QED
    BY <1>0, <1>1, <2>1 DEF vars, busVars, histVars
<1>2. ASSUME NEW q \in Publishers, PublisherStep(q) PROVE BusInv'
  <2>1. TypeOK' /\ Bounded'
    BY <1>2, PublisherTypes
  <2>2. CASE Publish(q)
    BY <2>1, <2>2, TakeOrdinalKeeps DEF Publish, BusInv
  <2>3. CASE PublishShutdown(q)
    BY <2>1, <2>3, TakeOrdinalKeeps DEF PublishShutdown, BusInv
  <2>4. CASE LockSubscribers(q)
    BY <2>1, <2>4, LockKeeps DEF BusInv
  <2>5. CASE \E c \in Conns : Offer(q, c)
    BY <2>1, <2>5, OfferKeeps DEF BusInv
  <2>6. CASE AccountBytes(q)
    BY <2>1, <2>6, AccountKeeps DEF BusInv
  <2>7. CASE FinishPublish(q)
    BY <2>1, <2>7, FinishKeeps DEF BusInv
  <2> QED
    BY <1>2, <2>2, <2>3, <2>4, <2>5, <2>6, <2>7 DEF PublisherStep
<1>3. ASSUME NEW c \in Conns, ConnectionStep(c) PROVE BusInv'
  BY <1>3, ConnectionTypes, ConnectionKeeps DEF BusInv
<1>4. ASSUME NEW c \in Conns, ChangeGrant(c) PROVE BusInv'
  <2>1. PICK g \in Grants \cup {None} : grant' = [grant EXCEPT ![c] = g]
    BY <1>4 DEF ChangeGrant
  <2>2. DirectoryTypeOK' /\ Bounded'
    BY <1>4, <2>1 DEF ChangeGrant, BusInv, TypeOK, DirectoryTypeOK, Bounded
  <2>3. TypeOK'
    BY <1>4, <2>2, TypeFrame DEF ChangeGrant, BusInv, TypeOK
  <2> QED
    BY <1>0, <1>4, <2>2, <2>3 DEF ChangeGrant, busVars, histVars
<1>5. CASE BumpGeneration
  <2>1. DirectoryTypeOK' /\ Bounded'
    <3>1. generation < MaxGeneration /\ generation \in 1 .. MaxGeneration + 1
      BY <1>5 DEF BumpGeneration, BusInv, TypeOK, DirectoryTypeOK, Bounded
    <3>2. generation + 1 \in 1 .. MaxGeneration + 1
      BY <3>1, BoundsAssumption
    <3> QED
      BY <1>5, <3>2 DEF BumpGeneration, BusInv, TypeOK, DirectoryTypeOK, Bounded
  <2>2. TypeOK'
    BY <1>5, <2>1, TypeFrame DEF BumpGeneration, BusInv, TypeOK
  <2> QED
    BY <1>0, <1>5, <2>1, <2>2 DEF BumpGeneration, busVars, histVars
<1>6. CASE SignalShutdown
  <2>1. TypeOK' /\ Bounded'
    BY <1>6, TypeFrame DEF SignalShutdown, BusInv, TypeOK, Bounded, dirVars
  <2> QED
    BY <1>0, <1>6, <2>1 DEF SignalShutdown, busVars, histVars
<1> QED
  BY <1>1, <1>2, <1>3, <1>4, <1>5, <1>6 DEF Next

\* The types, and no queue beyond its capacity (EventBus::publish() checks the
\* limits of a queue it alone appends to).
THEOREM QueuesAreBounded == Spec => []TypeOK
<1>1. BusInv => TypeOK
  BY DEF BusInv
<1> QED
  BY BusInit, BusStep, <1>1, PTL DEF Spec

\* Whatever publishers race, a subscriber takes an unbroken prefix of what was
\* admitted for it, and the gap it is told of is the first thing it missed
\* (EventBus::publish(), LagState).
THEOREM NothingIsSkipped == Spec => []PrefixThenGap
<1>1. BusInv => PrefixThenGap
  BY DEF BusInv
<1> QED
  BY BusInit, BusStep, <1>1, PTL DEF Spec

\* A connection closed for a shutdown leaves no shutdown event in its queue:
\* GatewayHandle::shutdown() publishes before it signals, and dispatch_loop()
\* flushes as many deliveries as a queue can hold.
THEOREM ShutdownReachesPeers == Spec => []ShutdownIsFlushed
<1>1. ASSUME BusInv PROVE ShutdownIsFlushed
  <2>1. ASSUME NEW c \in Conns, reason[c] = "shutdown", NEW i \in DOMAIN queue[c],
               queue[c][i].shutdown
        PROVE  FALSE
    <3>1. queue[c] \in Seq(Envelopes)
      BY <1>1 DEF BusInv, TypeOK, BusTypeOK
    <3>2. i >= 1 /\ i \in Int
      BY <3>1
    <3> QED
      BY <1>1, <2>1, <3>2 DEF BusInv, Flushing, FlushingAt, Covers
  <2> QED
    BY <2>1 DEF ShutdownIsFlushed
<1> QED
  BY BusInit, BusStep, <1>1, PTL DEF Spec

-----------------------------------------------------------------------------
(* The bytes of a queue.  What Total() sums is found by the smallest number *)
(* of envelopes for which it would not hold.                                *)

\* A non-empty set of numbers has a least one.
LEMMA LeastOf ==
    ASSUME NEW N \in SUBSET Nat, N # {}
    PROVE  \E least \in N : \A n \in N : least <= n
<1> DEFINE Below == OpToRel(<, Nat)
<1>1. PICK x \in N : \A y \in N : ~(<<y, x>> \in Below)
  BY NatLessThanWellFounded, WFMin
<1>2. \A i, j \in Nat : i < j => <<i, j>> \in Below
  BY DEF OpToRel
<1> HIDE DEF Below
<1>3. ASSUME NEW y \in N PROVE x <= y
  <2>1. x \in Nat /\ y \in Nat
    OBVIOUS
  <2>2. ~(y < x)
    BY <1>1, <1>2, <2>1, Zenon
  <2> QED
    BY <2>1, <2>2
<1> QED
  BY <1>3

\* f sums the sizes of the first n envelopes of s, step by step.
SumsTo(f, s, n) == f = [i \in 0 .. n |-> IF i = 0 THEN 0 ELSE f[i - 1] + s[i].draft.size]

\* There is such a function.
LEMMA SumsExist ==
    ASSUME NEW s, NEW n \in Nat
    PROVE  \E f : SumsTo(f, s, n)
<1> DEFINE B == {m \in Nat : ~ \E f : SumsTo(f, s, m)}
<1>1. ASSUME B # {} PROVE FALSE
  <2>1. PICK m \in B : \A k \in B : m <= k
    BY <1>1, LeastOf
  <2>2. CASE m = 0
    <3> DEFINE z == [i \in 0 .. 0 |-> 0]
    <3>1. z = [i \in 0 .. 0 |-> IF i = 0 THEN 0 ELSE z[i - 1] + s[i].draft.size]
      OBVIOUS
    <3>2. SumsTo(z, s, m)
      BY <2>2, <3>1 DEF SumsTo
    <3> QED
      BY <2>1, <3>2
  <2>3. CASE m # 0
    <3>1. m \in Nat /\ m - 1 \in Nat /\ m - 1 \notin B
      BY <2>1, <2>3
    <3>2. PICK f : SumsTo(f, s, m - 1)
      BY <3>1
    <3>3. \A i \in 0 .. m - 1 : f[i] = IF i = 0 THEN 0 ELSE f[i - 1] + s[i].draft.size
      BY <3>2 DEF SumsTo
    <3> DEFINE h == [i \in 0 .. m |-> IF i = m THEN f[m - 1] + s[m].draft.size ELSE f[i]]
               r == [i \in 0 .. m |-> IF i = 0 THEN 0 ELSE h[i - 1] + s[i].draft.size]
    <3>4. ASSUME NEW i \in 0 .. m PROVE h[i] = r[i]
      <4>1. CASE i = m
        <5>1. m - 1 \in 0 .. m /\ m - 1 # m /\ m \in 0 .. m
          BY <3>1
        <5>2. h[i] = f[m - 1] + s[m].draft.size /\ h[m - 1] = f[m - 1]
          BY <4>1, <5>1
        <5>3. r[i] = h[m - 1] + s[m].draft.size
          BY <2>3, <4>1, <5>1
        <5> QED
          BY <5>2, <5>3
      <4>2. CASE i # m
        <5>1. i \in 0 .. m - 1 /\ h[i] = f[i]
          BY <3>1, <4>2
        <5>2. CASE i = 0
          BY <3>3, <5>1, <5>2
        <5>3. CASE i # 0
          <6>1. i - 1 \in 0 .. m /\ i - 1 # m
            BY <3>1, <5>1, <5>3
          <6>2. h[i - 1] = f[i - 1]
            BY <6>1
          <6>3. r[i] = f[i - 1] + s[i].draft.size
            BY <5>3, <6>2
          <6> QED
            BY <3>3, <5>1, <5>3, <6>3
        <5> QED
          BY <5>2, <5>3
      <4> QED
        BY <4>1, <4>2
    <3>5. h = r
      BY <3>4
    <3>6. SumsTo(h, s, m)
      BY <3>5 DEF SumsTo
    <3> QED
      BY <2>1, <3>6
  <2> QED
    BY <2>2, <2>3
<1> QED
  BY <1>1

\* Every envelope has a size, and so have those of a queue.
LEMMA SizeOf ==
    ASSUME NEW e \in Envelopes
    PROVE  e.draft.size \in Nat
<1>1. e.draft \in Drafts \cup {ShutdownDraft}
  BY DEF Envelopes
<1>2. ShutdownDraft.size \in Nat
  BY DEF ShutdownDraft
<1>3. \A d \in Drafts : d.size \in Nat
  BY DraftsAssumption
<1> QED
  BY <1>1, <1>2, <1>3

LEMMA SizesOf ==
    ASSUME NEW s \in Seq(Envelopes), NEW i \in 1 .. Len(s)
    PROVE  s[i].draft.size \in Nat
<1>1. s[i] \in Envelopes
  OBVIOUS
<1> QED
  BY <1>1, SizeOf

\* What Total() returns.
LEMMA TotalOf ==
    ASSUME NEW s \in Seq(Envelopes)
    PROVE  \E f \in [0 .. Len(s) -> Nat] :
              /\ f[0] = 0 /\ Total(s) = f[Len(s)]
              /\ \A i \in 1 .. Len(s) : f[i] = f[i - 1] + s[i].draft.size
<1> DEFINE n == Len(s)
           f == CHOOSE g : SumsTo(g, s, n)
<1>1. n \in Nat
  OBVIOUS
<1>2. SumsTo(f, s, n)
  BY <1>1, SumsExist
<1>3. Total(s) = f[n]
  BY DEF Total, SumsTo
<1> HIDE DEF f
<1>4. f = [i \in 0 .. n |-> IF i = 0 THEN 0 ELSE f[i - 1] + s[i].draft.size]
  BY <1>2 DEF SumsTo
<1>5. f[0] = 0 /\ \A i \in 1 .. n : f[i] = f[i - 1] + s[i].draft.size
  <2>1. 0 \in 0 .. n /\ \A i \in 1 .. n : i \in 0 .. n /\ i # 0
    BY <1>1
  <2> QED
    BY <1>4, <2>1
<1>6. \A i \in 1 .. n : s[i].draft.size \in Nat
  BY SizesOf
<1>7. \A i \in 0 .. n : f[i] \in Nat
  <2> DEFINE B == {i \in 0 .. n : f[i] \notin Nat}
  <2>1. ASSUME B # {} PROVE FALSE
    <3>1. B \in SUBSET Nat
      BY <1>1
    <3>2. PICK m \in B : \A k \in B : m <= k
      <4> HIDE DEF B
      <4> QED
        BY <2>1, <3>1, LeastOf
    <3>3. m \in 1 .. n /\ m - 1 \in 0 .. n /\ ~(m <= m - 1)
      BY <1>1, <1>5, <3>2
    <3>4. f[m - 1] \in Nat
      BY <3>2, <3>3
    <3>5. f[m] \in Nat
      BY <1>5, <1>6, <3>3, <3>4
    <3> QED
      BY <3>2, <3>5
  <2> QED
    BY <2>1
<1>8. f \in [0 .. n -> Nat]
  BY <1>4, <1>7
<1> QED
  BY <1>3, <1>5, <1>8

\* Two sums that grow alike keep their distance.
LEMMA SumsMatch ==
    ASSUME NEW n \in Nat, NEW f \in [0 .. n -> Nat], NEW h \in [0 .. n -> Nat], NEW k \in Nat,
           f[0] = h[0] + k,
           \A i \in 1 .. n : f[i] - f[i - 1] = h[i] - h[i - 1]
    PROVE  f[n] = h[n] + k
<1> DEFINE B == {i \in 0 .. n : f[i] # h[i] + k}
<1>1. ASSUME B # {} PROVE FALSE
  <2>1. B \in SUBSET Nat
    OBVIOUS
  <2>2. PICK m \in B : \A j \in B : m <= j
    <3> HIDE DEF B
    <3> QED
      BY <1>1, <2>1, LeastOf
  <2>3. m \in 1 .. n /\ m - 1 \in 0 .. n /\ ~(m <= m - 1) /\ m \in 0 .. n
    BY <2>2
  <2>4. f[m - 1] = h[m - 1] + k
    BY <2>2, <2>3
  <2>5. f[m] - f[m - 1] = h[m] - h[m - 1]
    BY <2>3
  <2>6. f[m] \in Nat /\ f[m - 1] \in Nat /\ h[m] \in Nat /\ h[m - 1] \in Nat
    BY <2>3
  <2>7. f[m] # h[m] + k
    BY <2>2
  <2>8. PICK a \in Nat, b \in Nat, c \in Nat, d \in Nat :
           a = f[m] /\ b = f[m - 1] /\ c = h[m] /\ d = h[m - 1]
    BY <2>6
  <2>9. a - b = c - d /\ b = d + k /\ a # c + k
    BY <2>4, <2>5, <2>7, <2>8
  <2> QED
    BY <2>9
<1>2. n \in 0 .. n
  OBVIOUS
<1> QED
  BY <1>1, <1>2

\* The total of an empty queue, of a longer one and of what is left of one.
LEMMA Totals ==
    ASSUME NEW s \in Seq(Envelopes)
    PROVE  /\ Total(s) \in Nat
           /\ s = <<>> => Total(s) = 0
           /\ \A e \in Envelopes : Total(Append(s, e)) = Total(s) + e.draft.size
           /\ s # <<>> => Total(s) = Head(s).draft.size + Total(Tail(s))
<1>1. PICK f \in [0 .. Len(s) -> Nat] :
         /\ f[0] = 0 /\ Total(s) = f[Len(s)]
         /\ \A i \in 1 .. Len(s) : f[i] = f[i - 1] + s[i].draft.size
  BY TotalOf
<1>0. \A e \in Envelopes : e.draft.size \in Nat
  BY SizeOf
<1>2. Total(s) \in Nat /\ (s = <<>> => Total(s) = 0)
  BY <1>1
<1>3. ASSUME NEW e \in Envelopes PROVE Total(Append(s, e)) = Total(s) + e.draft.size
  <2> DEFINE t == Append(s, e)
             n == Len(s)
  <2>1. /\ n \in Nat /\ t \in Seq(Envelopes) /\ Len(t) = n + 1 /\ t[n + 1] = e
        /\ \A i \in 1 .. n : t[i] = s[i]
    BY AppendProperties
  <2> HIDE DEF t
  <2>2. PICK h \in [0 .. n + 1 -> Nat] :
           /\ h[0] = 0 /\ Total(t) = h[n + 1]
           /\ \A i \in 1 .. n + 1 : h[i] = h[i - 1] + t[i].draft.size
    <3>1. \E h \in [0 .. Len(t) -> Nat] :
             /\ h[0] = 0 /\ Total(t) = h[Len(t)]
             /\ \A i \in 1 .. Len(t) : h[i] = h[i - 1] + t[i].draft.size
      BY <2>1, TotalOf
    <3> QED
      BY <2>1, <3>1
  <2> DEFINE r == [i \in 0 .. n |-> h[i]]
  <2>3. r \in [0 .. n -> Nat]
    BY <2>1, <2>2
  <2>4. r[0] = f[0] + 0
    BY <1>1, <2>1, <2>2
  <2>5. ASSUME NEW i \in 1 .. n PROVE r[i] - r[i - 1] = f[i] - f[i - 1]
    <3>1. i \in 0 .. n /\ i - 1 \in 0 .. n /\ i \in 1 .. n + 1
      BY <2>1
    <3>2. r[i] = h[i] /\ r[i - 1] = h[i - 1] /\ h[i] = h[i - 1] + s[i].draft.size
      BY <2>1, <2>2, <3>1
    <3>3. f[i] = f[i - 1] + s[i].draft.size
      BY <1>1
    <3>4. h[i - 1] \in Nat /\ f[i - 1] \in Nat /\ s[i].draft.size \in Nat
      <4>1. s[i].draft.size \in Nat
        BY SizesOf
      <4>2. f[i - 1] \in Nat
        BY <1>1, <3>1
      <4>3. i - 1 \in 0 .. n + 1
        BY <2>1, <3>1
      <4>4. h[i - 1] \in Nat
        BY <2>2, <4>3
      <4> QED
        BY <4>1, <4>2, <4>4
    <3> QED
      BY <3>2, <3>3, <3>4
  <2>6. r[n] = f[n] + 0
    <3> HIDE DEF r, n
    <3> QED
      BY <1>1, <2>1, <2>3, <2>4, <2>5, SumsMatch DEF n
  <2>7. h[n] = f[n]
    BY <1>1, <2>1, <2>6
  <2>8. h[n + 1] = h[n] + e.draft.size
    BY <2>1, <2>2
  <2> QED
    BY <1>1, <2>2, <2>7, <2>8 DEF t
<1>4. ASSUME s # <<>> PROVE Total(s) = Head(s).draft.size + Total(Tail(s))
  <2> DEFINE t == Tail(s)
             n == Len(t)
  <2>1. /\ n \in Nat /\ t \in Seq(Envelopes) /\ Len(s) = n + 1 /\ Head(s) = s[1]
        /\ \A i \in 1 .. n : t[i] = s[i + 1]
        /\ Head(s) \in Envelopes
    BY <1>4, HeadTailProperties
  <2> HIDE DEF t
  <2>2. PICK h \in [0 .. n -> Nat] :
           /\ h[0] = 0 /\ Total(t) = h[n]
           /\ \A i \in 1 .. n : h[i] = h[i - 1] + t[i].draft.size
    BY <2>1, TotalOf
  <2> DEFINE r == [i \in 0 .. n |-> f[i + 1]]
             k == Head(s).draft.size
  <2>3. r \in [0 .. n -> Nat] /\ k \in Nat
    BY <1>0, <1>1, <2>1
  <2>4. r[0] = h[0] + k
    <3>1. r[0] = f[1] /\ f[1] = f[0] + s[1].draft.size
      BY <1>1, <2>1
    <3> QED
      BY <1>1, <2>1, <2>2, <2>3, <3>1
  <2>5. ASSUME NEW i \in 1 .. n PROVE r[i] - r[i - 1] = h[i] - h[i - 1]
    <3>1. i \in 0 .. n /\ i - 1 \in 0 .. n /\ i + 1 \in 1 .. n + 1 /\ (i - 1) + 1 = i /\ (i + 1) - 1 = i
      BY <2>1
    <3>2. r[i] = f[i + 1] /\ r[i - 1] = f[i] /\ f[i + 1] = f[i] + s[i + 1].draft.size
      BY <1>1, <2>1, <3>1
    <3>3. h[i] = h[i - 1] + s[i + 1].draft.size
      BY <2>1, <2>2
    <3>4. f[i] \in Nat /\ h[i - 1] \in Nat /\ s[i + 1].draft.size \in Nat
      <4>1. i + 1 \in 1 .. Len(s) /\ i \in 0 .. Len(s)
        BY <2>1, <3>1
      <4>2. s[i + 1].draft.size \in Nat
        BY <4>1, SizesOf
      <4>3. f[i] \in Nat
        BY <1>1, <4>1
      <4>4. h[i - 1] \in Nat
        BY <2>2, <3>1
      <4> QED
        BY <4>2, <4>3, <4>4
    <3> QED
      BY <3>2, <3>3, <3>4
  <2>6. r[n] = h[n] + k
    <3> HIDE DEF r, n, k
    <3> QED
      BY <2>1, <2>2, <2>3, <2>4, <2>5, SumsMatch DEF n
  <2>7. r[n] = f[n + 1]
    BY <2>1
  <2>8. Total(s) = Total(t) + k /\ Total(t) \in Nat
    BY <1>1, <2>1, <2>2, <2>6, <2>7
  <2> HIDE DEF n, r
  <2> QED
    BY <2>3, <2>8 DEF t
<1> QED
  BY <1>2, <1>3, <1>4

-----------------------------------------------------------------------------
(* The byte account.                                                        *)

\* What the task of c has taken and not yet subtracted.
Taken(c) == IF cpc[c] = "unaccount" THEN item[c].draft.size ELSE 0

\* The account of a connection is exact, up to the envelope whose publisher has
\* enqueued it and not yet added it.
AccountOf(c) ==
    /\ (\A q \in Publishers : ppc[q] # c) => bytes[c] = Total(queue[c]) + Taken(c)
    /\ \A q \in Publishers :
          ppc[q] = c => bytes[c] + env[q].draft.size = Total(queue[c]) + Taken(c)

Accounted == \A c \in Conns : AccountOf(c)

\* An account that nobody touches.
LEMMA AccountFrame ==
    ASSUME NEW c \in Conns, AccountOf(c), bytes'[c] = bytes[c], queue'[c] = queue[c],
           Taken(c)' = Taken(c),
           \A q \in Publishers : (ppc'[q] = c <=> ppc[q] = c) /\ (ppc[q] = c => env'[q] = env[q])
    PROVE  AccountOf(c)'
  BY DEF AccountOf

\* Only the holder of the lock is between try_send() and the addition.
LEMMA OneAdder ==
    ASSUME BusInv, NEW p \in Publishers, NEW q \in Publishers, Holding(p), Holding(q)
    PROVE  p = q
  BY DEF BusInv, Fanning

\* A task that has something to subtract has an envelope.
LEMMA TakenSize ==
    ASSUME BusInv, NEW c \in Conns
    PROVE  Taken(c) \in Nat
<1>1. cpc[c] = "unaccount" => item[c] \in Envelopes
  BY DEF BusInv, TypeOK, ConnectionTypeOK, Flushing, FlushingAt
<1> QED
  BY <1>1, SizeOf DEF Taken

\* A publisher adds under the lock what it enqueued.
LEMMA PublisherAccounts ==
    ASSUME BusInv, BusInv', Accounted, NEW q \in Publishers, PublisherStep(q)
    PROVE  Accounted'
<1> USE DEF Accounted
<1>1. /\ queue \in [Conns -> Seq(Envelopes)] /\ bytes \in [Conns -> Int]
      /\ ppc \in [Publishers -> {"idle", "lock", "fan"} \cup Conns]
      /\ env \in [Publishers -> Envelopes \cup {None}]
      /\ \A c \in Conns : c \notin {"idle", "lock", "fan"}
  BY NamesAssumption DEF BusInv, TypeOK, BusTypeOK, PublisherTypeOK
<1>2. UNCHANGED <<cpc, item>>
  BY DEF PublisherStep, Publish, PublishShutdown, TakeOrdinal, LockSubscribers, Offer,
     AccountBytes, FinishPublish, connVars
<1>3. \A c : Taken(c)' = Taken(c)
  BY <1>2 DEF Taken
<1>4. ASSUME NEW l \in {"idle", "lock", "fan"}, ppc[q] \notin Conns, ppc' = [ppc EXCEPT ![q] = l],
             UNCHANGED <<bytes, queue>>, \A p \in Publishers \ {q} : env'[p] = env[p]
      PROVE  Accounted'
  <2> SUFFICES ASSUME NEW c \in Conns PROVE AccountOf(c)'
    OBVIOUS
  <2>1. \A p \in Publishers : (ppc'[p] = c <=> ppc[p] = c) /\ (ppc[p] = c => env'[p] = env[p])
    BY <1>1, <1>4
  <2> QED
    BY <1>3, <1>4, <2>1, AccountFrame
<1>5. CASE Publish(q) \/ PublishShutdown(q)
  <2>1. /\ ppc[q] = "idle" /\ ppc' = [ppc EXCEPT ![q] = "lock"] /\ UNCHANGED <<bytes, queue>>
        /\ \A p \in Publishers \ {q} : env'[p] = env[p]
    BY <1>1, <1>5 DEF Publish, PublishShutdown, TakeOrdinal
  <2> QED
    BY <1>1, <1>4, <2>1
<1>6. CASE LockSubscribers(q)
  <2>1. ppc[q] = "lock" /\ ppc' = [ppc EXCEPT ![q] = "fan"] /\ UNCHANGED <<bytes, queue, env>>
    BY <1>6 DEF LockSubscribers
  <2> QED
    BY <1>1, <1>4, <2>1
<1>7. CASE FinishPublish(q)
  <2>1. /\ ppc[q] = "fan" /\ ppc' = [ppc EXCEPT ![q] = "idle"] /\ UNCHANGED <<bytes, queue>>
        /\ \A p \in Publishers \ {q} : env'[p] = env[p]
    BY <1>1, <1>7 DEF FinishPublish
  <2> QED
    BY <1>1, <1>4, <2>1
<1>8. ASSUME NEW c \in Conns, Offer(q, c) PROVE Accounted'
  <2>1. ppc[q] = "fan" /\ UNCHANGED <<bytes, env>>
    BY <1>8 DEF Offer
  <2>2. \A p \in Publishers : ppc[p] \notin Conns
    <3>1. \A p \in Publishers : ppc[p] \in Conns => Holding(p)
      BY <1>1 DEF Holding
    <3>2. Holding(q)
      BY <2>1 DEF Holding
    <3> QED
      BY <1>1, <2>1, <3>1, <3>2, OneAdder
  <2>3. CASE UNCHANGED <<queue, ppc>>
    BY <1>3, <2>1, <2>3, AccountFrame
  <2>4. CASE queue' = [queue EXCEPT ![c] = Append(@, env[q])] /\ ppc' = [ppc EXCEPT ![q] = c]
    <3>1. env[q] \in Envelopes
      BY <1>1, <2>1 DEF BusInv, Numbered
    <3>2. queue'[c] = Append(queue[c], env[q]) /\ queue[c] \in Seq(Envelopes)
      BY <1>1, <2>4
    <3>3. Total(queue'[c]) = Total(queue[c]) + env[q].draft.size
      BY <3>1, <3>2, Totals
    <3>4. bytes[c] = Total(queue[c]) + Taken(c)
      BY <2>2 DEF AccountOf
    <3>5. AccountOf(c)'
      <4>1. \A p \in Publishers : ppc'[p] = c => p = q
        BY <1>1, <2>2, <2>4
      <4>2. ppc'[q] = c
        BY <1>1, <2>4
      <4>3. bytes'[c] + env'[q].draft.size = Total(queue'[c]) + Taken(c)'
        <5>1. Total(queue[c]) \in Int /\ env[q].draft.size \in Int /\ Taken(c) \in Int
          BY <3>1, <3>2, <1>1, Totals, TakenSize, SizeOf
        <5> QED
          BY <1>3, <2>1, <3>3, <3>4, <5>1
      <4> QED
        BY <4>1, <4>2, <4>3 DEF AccountOf
    <3>6. ASSUME NEW d \in Conns, d # c PROVE AccountOf(d)'
      <4>1. queue'[d] = queue[d] /\ bytes'[d] = bytes[d]
        BY <1>1, <2>1, <2>4, <3>6
      <4>2. \A p \in Publishers : ppc'[p] # d /\ ppc[p] # d
        BY <1>1, <2>2, <2>4, <3>6
      <4> QED
        BY <1>3, <4>1, <4>2, AccountFrame
    <3> QED
      BY <3>5, <3>6
  <2> QED
    BY <1>8, <2>3, <2>4 DEF Offer
<1>9. CASE AccountBytes(q)
  <2> DEFINE c == ppc[q]
  <2>1. /\ c \in Conns /\ bytes' = [bytes EXCEPT ![c] = @ + env[q].draft.size]
        /\ ppc' = [ppc EXCEPT ![q] = "fan"] /\ UNCHANGED <<queue, env>>
    BY <1>9 DEF AccountBytes
  <2>2. \A p \in Publishers : ppc[p] \in Conns => p = q
    <3>1. \A p \in Publishers : ppc[p] \in Conns => Holding(p)
      BY <1>1 DEF Holding
    <3> QED
      BY <2>1, <3>1, OneAdder
  <2>3. \A p \in Publishers, d \in Conns : ppc'[p] # d
    BY <1>1, <2>1, <2>2
  <2>4. PICK x \in Conns : x = c
    BY <2>1
  <2>5. bytes[x] + env[q].draft.size = Total(queue[x]) + Taken(x)
    BY <2>4 DEF AccountOf
  <2>6. bytes'[x] = bytes[x] + env[q].draft.size
    BY <1>1, <2>1, <2>4
  <2>7. AccountOf(x)'
    BY <1>3, <2>1, <2>3, <2>5, <2>6 DEF AccountOf
  <2>8. ASSUME NEW d \in Conns, d # x PROVE AccountOf(d)'
    <3>1. queue'[d] = queue[d] /\ bytes'[d] = bytes[d]
      BY <1>1, <2>1, <2>4, <2>8
    <3>2. \A p \in Publishers : ppc[p] # d
      BY <2>1, <2>2, <2>4, <2>8
    <3> QED
      BY <1>3, <2>3, <3>1, <3>2, AccountFrame
  <2> QED
    BY <2>7, <2>8
<1> QED
  BY <1>5, <1>6, <1>7, <1>8, <1>9 DEF PublisherStep

\* A connection subtracts what it took, and nothing else.
LEMMA ConnectionAccounts ==
    ASSUME BusInv, BusInv', Accounted, NEW c \in Conns, ConnectionStep(c)
    PROVE  Accounted'
<1> USE DEF Accounted
<1>1. /\ queue \in [Conns -> Seq(Envelopes)] /\ bytes \in [Conns -> Int]
      /\ item \in [Conns -> Envelopes \cup {None}] /\ DOMAIN cpc = Conns
      /\ UNCHANGED <<ppc, env>>
  BY DEF BusInv, TypeOK, BusTypeOK, ConnectionTypeOK, ConnectionStep, ReadGenerationFirst,
     Authenticate, Subscribe, Receive, UnaccountBytes, Wake, ReadGeneration, Narrow, Reauthorize,
     Deliver, Continue, ObserveShutdown, FlushOne, FlushEnds, Unsubscribe, pubVars
<1>2. ASSUME NEW d \in Conns, d # c PROVE AccountOf(d)'
  <2>1. bytes'[d] = bytes[d] /\ queue'[d] = queue[d] /\ cpc'[d] = cpc[d] /\ item'[d] = item[d]
    BY <1>1, <1>2 DEF ConnectionStep, ReadGenerationFirst, Authenticate, Subscribe, Receive, Pop,
       UnaccountBytes, Wake, ReadGeneration, Narrow, Reauthorize, Deliver, Continue,
       ObserveShutdown, FlushOne, FlushEnds, Unsubscribe, Close, CGoto, busVars
  <2>2. Taken(d)' = Taken(d)
    BY <2>1 DEF Taken
  <2> QED
    BY <1>1, <2>1, <2>2, AccountFrame
<1>3. CASE UNCHANGED <<bytes, queue>> /\ Taken(c)' = Taken(c)
  BY <1>1, <1>2, <1>3, AccountFrame
<1>4. CASE cpc[c] # "unaccount" /\ Pop(c) /\ UNCHANGED bytes
  <2>1. /\ queue[c] \in Seq(Envelopes) /\ queue[c] # <<>> /\ queue'[c] = Tail(queue[c])
        /\ Taken(c) = 0 /\ Taken(c)' = Head(queue[c]).draft.size
    BY <1>1, <1>4 DEF Pop, CGoto, Taken
  <2>2. Head(queue[c]) \in Envelopes /\ Tail(queue[c]) \in Seq(Envelopes)
    BY <2>1, HeadTailProperties
  <2>3. Head(queue[c]).draft.size \in Nat /\ Total(Tail(queue[c])) \in Nat
    BY <2>2, SizeOf, Totals
  <2>4. Total(queue[c]) = Head(queue[c]).draft.size + Total(Tail(queue[c]))
    BY <2>1, Totals
  <2>5. Total(queue[c]) + Taken(c) = Total(queue'[c]) + Taken(c)'
    BY <2>1, <2>3, <2>4
  <2>6. AccountOf(c)'
    BY <1>1, <1>4, <2>5 DEF AccountOf
  <2> QED
    BY <1>2, <2>6
<1>5. CASE UnaccountBytes(c)
  <2>1. /\ cpc[c] = "unaccount" /\ UNCHANGED queue
        /\ bytes'[c] = bytes[c] - item[c].draft.size /\ bytes[c] \in Int
        /\ cpc'[c] \in {"deliver", "revalidate"}
    BY <1>1, <1>5 DEF UnaccountBytes, CGoto
  <2>2. Taken(c) = item[c].draft.size /\ Taken(c)' = 0 /\ Taken(c) \in Nat
    BY <2>1, TakenSize DEF Taken
  <2>3. Total(queue[c]) \in Nat
    BY <1>1, Totals
  <2>4. ASSUME NEW q \in Publishers, ppc[q] = c PROVE env[q].draft.size \in Nat
    <3>1. env[q] \in Envelopes
      BY <2>4, NamesAssumption DEF BusInv, Numbered, TypeOK, PublisherTypeOK
    <3> QED
      BY <3>1, SizeOf
  <2>5. (\A q \in Publishers : ppc[q] # c) => bytes'[c] = Total(queue[c]) + 0
    BY <2>1, <2>2, <2>3 DEF AccountOf
  <2>6. \A q \in Publishers : ppc[q] = c => bytes'[c] + env[q].draft.size = Total(queue[c]) + 0
    BY <2>1, <2>2, <2>3, <2>4 DEF AccountOf
  <2>7. AccountOf(c)'
    BY <1>1, <2>1, <2>2, <2>5, <2>6 DEF AccountOf
  <2> QED
    BY <1>2, <2>7
<1>6. CASE Receive(c) \/ FlushOne(c)
  BY <1>4, <1>6 DEF Receive, FlushOne
<1>7. CASE Deliver(c)
  <2>1. cpc[c] = "deliver" /\ cpc'[c] # "unaccount" /\ UNCHANGED <<bytes, queue>>
    BY <1>1, <1>7 DEF Deliver, Close, CGoto, Resume, busVars
  <2> QED
    BY <1>3, <2>1 DEF Taken
<1>8. CASE \/ ReadGenerationFirst(c) \/ Authenticate(c) \/ Subscribe(c) \/ Wake(c) \/ ReadGeneration(c)
           \/ Narrow(c) \/ Reauthorize(c) \/ Continue(c) \/ ObserveShutdown(c) \/ FlushEnds(c)
           \/ Unsubscribe(c)
  <2>1. cpc[c] # "unaccount" /\ cpc'[c] # "unaccount" /\ UNCHANGED <<bytes, queue>>
    BY <1>1, <1>8 DEF ReadGenerationFirst, Authenticate, Subscribe, Wake, ReadGeneration, Narrow,
       Reauthorize, Continue, ObserveShutdown, FlushEnds, Unsubscribe, Close, CGoto, busVars
  <2> QED
    BY <1>3, <2>1 DEF Taken
<1> QED
  BY <1>5, <1>6, <1>7, <1>8 DEF ConnectionStep

\* Every step keeps the accounts.
LEMMA AccountStep == BusInv /\ BusInv' /\ Accounted /\ [Next]_vars => Accounted'
<1> SUFFICES ASSUME BusInv, BusInv', Accounted, [Next]_vars PROVE Accounted'
  OBVIOUS
<1>1. CASE UNCHANGED <<bytes, queue, ppc, env, cpc, item>>
  BY <1>1 DEF Accounted, AccountOf, Taken
<1>2. ASSUME NEW q \in Publishers, PublisherStep(q) PROVE Accounted'
  BY <1>2, PublisherAccounts
<1>3. ASSUME NEW c \in Conns, ConnectionStep(c) PROVE Accounted'
  BY <1>3, ConnectionAccounts
<1>4. CASE UNCHANGED vars \/ (\E c \in Conns : ChangeGrant(c)) \/ BumpGeneration \/ SignalShutdown
  BY <1>1, <1>4 DEF vars, ChangeGrant, BumpGeneration, SignalShutdown, busVars, pubVars, connVars
<1> QED
  BY <1>2, <1>3, <1>4 DEF Next

\* queued_bytes is what the queue holds whenever a publisher decides by it, although
\* additions and subtractions are not made together with the queue's changes
\* (EventBus::publish(), EventSubscription::recv()).
THEOREM BytesDecideRightly == Spec => []BytesReadAreSane
<1>1. Init => Accounted
  <2> SUFFICES ASSUME Init, NEW c \in Conns PROVE AccountOf(c)
    BY DEF Accounted
  <2>1. <<>> \in Seq(Envelopes)
    OBVIOUS
  <2>2. Total(<<>>) = 0
    BY <2>1, Totals
  <2>3. bytes[c] = 0 /\ queue[c] = <<>> /\ Taken(c) = 0 /\ \A q \in Publishers : ppc[q] # c
    BY NamesAssumption DEF Init, Taken
  <2> QED
    BY <2>2, <2>3 DEF AccountOf
<1>2. ASSUME BusInv, Accounted PROVE BytesReadAreSane
  <2> SUFFICES ASSUME NEW q \in Publishers, NEW c \in Conns, ppc[q] = "fan"
               PROVE  bytes[c] = Total(queue[c]) + Taken(c)
    BY DEF BytesReadAreSane, Taken
  <2>1. \A p \in Publishers : ppc[p] # c
    <3>1. \A p \in Publishers : ppc[p] = c => Holding(p)
      BY NamesAssumption DEF Holding
    <3>2. Holding(q)
      BY DEF Holding
    <3> QED
      BY <1>2, <3>1, <3>2, OneAdder, NamesAssumption
  <2> QED
    BY <1>2, <2>1 DEF Accounted, AccountOf
<1> QED
  BY BusInit, BusStep, AccountStep, <1>1, <1>2, PTL DEF Spec
=============================================================================
