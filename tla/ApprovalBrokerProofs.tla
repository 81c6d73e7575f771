-------------------------- MODULE ApprovalBrokerProofs --------------------------
(***************************************************************************)
(* What is proved of the approval broker, for any number of calls,         *)
(* sessions and tools, any deadline and any identifier limit.  The whole   *)
(* argument rests on one fact: an identifier belongs to one call for ever, *)
(* because the counter only grows and an exhausted counter refuses.  Then  *)
(* the entry of a call is removed by its answer, by its own waiter or by   *)
(* withdraw_all(), and by nothing else.                                    *)
(***************************************************************************)
EXTENDS ApprovalBroker, TLAPS

\* From the insertion to the last adapter call.
Inserted == Armed \cup {"withdrawing", "dismissing", "settling", "abandoning"}

\* A request that went past its early returns knows what it asks for.
TicketKept ==
    \A c \in Calls : step[c] # "idle" => ticket[c] \in ApprovalTicket

\* No identifier is shared, none is ahead of the counter.
IdsAreOwned ==
    /\ \A c \in Calls : reqId[c] <= nextId
    /\ \A c \in Calls : step[c] \in {"idle", "mint"} => reqId[c] = 0
    /\ \A c \in Calls : step[c] \in Inserted \cup {"insert"} => reqId[c] # 0
    /\ \A c, d \in Calls : c # d /\ reqId[c] # 0 => reqId[c] # reqId[d]

\* An entry stands for a waiter that has no answer yet.
EntryIsUnanswered ==
    \A i \in Ids : pending[i] # None =>
        accepted[pending[i]] = None /\ channel[pending[i]] = Open

\* Nobody answers a call before its entry is there.
FreshUntilInserted ==
    \A c \in Calls : step[c] \in {"idle", "mint", "insert"}
        => accepted[c] = None /\ channel[c] = Open

\* What travels through the channel is what was accepted.
ChannelCarriesAccepted ==
    /\ \A c \in Calls : channel[c] \in ApprovalDecision => accepted[c] = channel[c]
    /\ \A c \in sending : accepted[c] # None
    /\ \A c \in Calls : step[c] = "settling" => channel[c] \in ApprovalDecision

BrokerInv ==
    /\ TypeOK
    /\ TicketKept
    /\ IdsAreOwned
    /\ NoOrphanEntry
    /\ EntryIsUnanswered
    /\ FreshUntilInserted
    /\ ChannelCarriesAccepted
    /\ WaiterStaysAnswerable
    /\ DecidedWasAccepted
    /\ MemoryComesFromOperators

---------------------------------------------------------------------------
(* Values.                                                                 *)

\* A decision is neither of the two undecided states of a channel, nor None.
LEMMA DecisionsAreValues ==
    /\ Open \notin ApprovalDecision /\ Closed \notin ApprovalDecision
    /\ Open # Closed
    /\ None \notin ApprovalDecision /\ None \notin Calls
    /\ None \notin ApprovalTicket /\ None \notin ApprovalOutcome
  BY BrokerAssumption, NoneAssumption DEF ApprovalDecision, Open, Closed

\* Only Decided(d) is a decision, and it carries d.
LEMMA OutcomeKinds ==
    /\ \A d : Decided(d).kind = "decided" /\ Decided(d).decision = d
    /\ \A d : Remembered(d).kind # "decided"
    /\ \A r : Withdrawn(r).kind # "decided"
    /\ Error.kind # "decided" /\ Dropped.kind # "decided"
  BY DEF Decided, Remembered, Withdrawn, Error, Dropped

---------------------------------------------------------------------------
(* Frames: what several actions have in common.                            *)

\* What the argument about identifiers, entries and answers reads.
brokerVars == <<pending, remembered, nextId, ticket, reqId, accepted, channel, sending>>

\* A call between its insertion and its return moves on, without touching the
\* broker: only a call whose entry is gone may leave the select!.
LEMMA CallMoves ==
    ASSUME BrokerInv, TypeOK', NEW c \in Calls, NEW n \in Step,
           step' = [step EXCEPT ![c] = n], UNCHANGED brokerVars,
           step[c] \in Inserted \cup {"insert"},
           n \in Armed => step[c] \in Armed,
           n # "settling" \/ channel[c] \in ApprovalDecision,
           n \in Inserted \cup {"done"},
           n \in Armed \cup {"withdrawing"} \/ (\A i \in Ids : pending[i] # c),
           \A x \in Calls : outcome'[x] # outcome[x] /\ outcome'[x].kind = "decided"
               => outcome'[x].decision = accepted[x]
    PROVE  BrokerInv'
<1> USE DEF brokerVars, Inserted, Armed
<1>1. TicketKept' /\ IdsAreOwned'
  BY DEF BrokerInv, TypeOK, TicketKept, IdsAreOwned
<1>2. NoOrphanEntry'
  BY DEF BrokerInv, TypeOK, NoOrphanEntry
<1>3. EntryIsUnanswered' /\ FreshUntilInserted' /\ ChannelCarriesAccepted'
  BY DEF BrokerInv, TypeOK, EntryIsUnanswered, FreshUntilInserted, ChannelCarriesAccepted
<1>4. WaiterStaysAnswerable'
  BY DEF BrokerInv, TypeOK, WaiterStaysAnswerable
<1>5. DecidedWasAccepted'
  BY DEF BrokerInv, TypeOK, DecidedWasAccepted
<1>6. MemoryComesFromOperators'
  BY DEF BrokerInv, MemoryComesFromOperators
<1> QED
  BY <1>1, <1>2, <1>3, <1>4, <1>5, <1>6 DEF BrokerInv

\* Nothing the argument reads changes.
LEMMA BrokerFrame ==
    ASSUME BrokerInv, TypeOK', UNCHANGED <<step, outcome, brokerVars>>
    PROVE  BrokerInv'
  BY DEF BrokerInv, brokerVars, TicketKept, IdsAreOwned, NoOrphanEntry, EntryIsUnanswered,
     FreshUntilInserted, ChannelCarriesAccepted, WaiterStaysAnswerable,
     DecidedWasAccepted, MemoryComesFromOperators

\* BrokerInv holds at first.
LEMMA BrokerInit == Init => BrokerInv
<1> SUFFICES ASSUME Init PROVE BrokerInv
  OBVIOUS
<1>1. TypeOK
  BY BrokerAssumption DEF Init, TypeOK, Ids, Step
<1>2. NoOrphanEntry /\ EntryIsUnanswered
  BY DEF Init, NoOrphanEntry, EntryIsUnanswered
<1>3. TicketKept /\ IdsAreOwned /\ FreshUntilInserted
  BY BrokerAssumption DEF Init, TicketKept, IdsAreOwned, FreshUntilInserted, Inserted, Armed
<1>4. ChannelCarriesAccepted /\ WaiterStaysAnswerable
  BY DecisionsAreValues DEF Init, ChannelCarriesAccepted, WaiterStaysAnswerable, Armed
<1>5. DecidedWasAccepted
  BY DEF Init, DecidedWasAccepted
<1>6. MemoryComesFromOperators
  BY DEF Init, MemoryComesFromOperators
<1> QED
  BY <1>1, <1>2, <1>3, <1>4, <1>5, <1>6 DEF BrokerInv

---------------------------------------------------------------------------
(* One lemma per critical section that changes the broker.                 *)

\* The call of request(): it returns at once or goes on to present its ticket.
LEMMA RequestStep ==
    ASSUME BrokerInv, NEW c \in Calls, Request(c)
    PROVE  BrokerInv'
<1> USE DEF state, tokens, callers, Return, Armed, Inserted
<1>1. PICK t \in ApprovalTicket :
        /\ ticket' = [ticket EXCEPT ![c] = t]
        /\ \/ Return(c, Withdrawn("Cancelled"))
           \/ /\ remembered[t.session][t.tool] # None
              /\ Return(c, Remembered(remembered[t.session][t.tool]))
           \/ step' = [step EXCEPT ![c] = "mint"] /\ UNCHANGED outcome
  BY DEF Request
<1>2. /\ step[c] = "idle"
      /\ UNCHANGED <<state, reqId, expires, accepted, channel, tokens, callers, now, prompt>>
  BY DEF Request
<1>3. PICK n \in {"done", "mint"} : step' = [step EXCEPT ![c] = n]
  BY <1>1
<1>4. TypeOK'
  <2>1. t.session \in Sessions /\ t.tool \in Tools
    BY DEF ApprovalTicket
  <2>2. outcome' \in [Calls -> ApprovalOutcome \cup {None}]
    BY <1>1, <2>1 DEF BrokerInv, TypeOK, ApprovalOutcome
  <2> QED
    BY <1>1, <1>2, <1>3, <2>2 DEF BrokerInv, TypeOK, Step
<1>5. TicketKept' /\ IdsAreOwned'
  BY <1>1, <1>2, <1>3 DEF BrokerInv, TypeOK, TicketKept, IdsAreOwned
<1>6. NoOrphanEntry' /\ EntryIsUnanswered'
  BY <1>1, <1>2, <1>3 DEF BrokerInv, TypeOK, NoOrphanEntry, EntryIsUnanswered
<1>7. FreshUntilInserted' /\ ChannelCarriesAccepted' /\ WaiterStaysAnswerable'
  BY <1>1, <1>2, <1>3 DEF BrokerInv, TypeOK, FreshUntilInserted, ChannelCarriesAccepted,
     WaiterStaysAnswerable
<1>8. DecidedWasAccepted'
  BY <1>1, <1>2, OutcomeKinds DEF BrokerInv, TypeOK, DecidedWasAccepted
<1>9. MemoryComesFromOperators'
  <2> SUFFICES ASSUME NEW s \in Sessions, NEW u \in Tools, remembered[s][u] # None
               PROVE  \E d \in Calls :
                        /\ accepted'[d] = remembered[s][u]
                        /\ ticket'[d] = [session |-> s, tool |-> u, authority |-> "none"]
    BY <1>2 DEF MemoryComesFromOperators
  <2>1. PICK d \in Calls :
          /\ accepted[d] = remembered[s][u]
          /\ ticket[d] = [session |-> s, tool |-> u, authority |-> "none"]
    BY DEF BrokerInv, MemoryComesFromOperators
  <2>2. d # c
    BY <1>2, <2>1 DEF BrokerInv, FreshUntilInserted
  <2> QED
    BY <1>1, <1>2, <2>1, <2>2 DEF BrokerInv, TypeOK
<1> QED
  BY <1>4, <1>5, <1>6, <1>7, <1>8, <1>9 DEF BrokerInv

\* The one step that hands out an identifier: the next one, or none at all.
LEMMA MintStep ==
    ASSUME BrokerInv, NEW c \in Calls, Mint(c)
    PROVE  BrokerInv'
<1> USE DEF tokens, callers, Return, Armed, Inserted
<1>1. CASE now + Timeout <= MaxTime /\ nextId < MaxId
  <2>1. /\ step[c] = "mint"
        /\ nextId' = nextId + 1
        /\ expires' = [expires EXCEPT ![c] = now + Timeout]
        /\ reqId' = [reqId EXCEPT ![c] = nextId + 1]
        /\ step' = [step EXCEPT ![c] = "insert"]
        /\ UNCHANGED <<outcome, pending, remembered, ticket, accepted, channel, tokens,
                       callers, now, prompt>>
    BY <1>1 DEF Mint
  <2>2. TypeOK'
    BY <1>1, <2>1, BrokerAssumption DEF BrokerInv, TypeOK, Step
  <2>3. TicketKept'
    BY <2>1 DEF BrokerInv, TypeOK, TicketKept
  <2>4. IdsAreOwned'
    BY <2>1 DEF BrokerInv, TypeOK, IdsAreOwned
  <2>5. NoOrphanEntry' /\ EntryIsUnanswered'
    BY <2>1 DEF BrokerInv, TypeOK, NoOrphanEntry, EntryIsUnanswered
  <2>6. FreshUntilInserted' /\ ChannelCarriesAccepted' /\ WaiterStaysAnswerable'
    BY <2>1 DEF BrokerInv, TypeOK, FreshUntilInserted, ChannelCarriesAccepted,
       WaiterStaysAnswerable
  <2>7. DecidedWasAccepted' /\ MemoryComesFromOperators'
    BY <2>1 DEF BrokerInv, DecidedWasAccepted, MemoryComesFromOperators
  <2> QED
    BY <2>2, <2>3, <2>4, <2>5, <2>6, <2>7 DEF BrokerInv
<1>2. CASE ~(now + Timeout <= MaxTime /\ nextId < MaxId)
  <2>1. /\ step[c] = "mint"
        /\ step' = [step EXCEPT ![c] = "done"]
        /\ outcome' = [outcome EXCEPT ![c] = Error]
        /\ UNCHANGED <<nextId, reqId, expires, pending, remembered, ticket, accepted,
                       channel, tokens, callers, now, prompt>>
    BY <1>2 DEF Mint
  <2>2. TypeOK'
    BY <2>1 DEF BrokerInv, TypeOK, Step, ApprovalOutcome
  <2>3. TicketKept' /\ IdsAreOwned'
    BY <2>1 DEF BrokerInv, TypeOK, TicketKept, IdsAreOwned
  <2>4. NoOrphanEntry' /\ EntryIsUnanswered'
    BY <2>1 DEF BrokerInv, TypeOK, NoOrphanEntry, EntryIsUnanswered
  <2>5. FreshUntilInserted' /\ ChannelCarriesAccepted' /\ WaiterStaysAnswerable'
    BY <2>1 DEF BrokerInv, TypeOK, FreshUntilInserted, ChannelCarriesAccepted,
       WaiterStaysAnswerable
  <2>6. DecidedWasAccepted'
    BY <2>1, OutcomeKinds DEF BrokerInv, TypeOK, DecidedWasAccepted
  <2>7. MemoryComesFromOperators'
    BY <2>1 DEF BrokerInv, MemoryComesFromOperators
  <2> QED
    BY <2>2, <2>3, <2>4, <2>5, <2>6, <2>7 DEF BrokerInv
<1> QED
  BY <1>1, <1>2

\* The slot is empty: its identifier belongs to this call alone.
LEMMA InsertStep ==
    ASSUME BrokerInv, NEW c \in Calls, Insert(c)
    PROVE  BrokerInv'
<1> USE DEF tokens, callers, Armed, Inserted
<1>1. reqId[c] \in Ids /\ step[c] = "insert"
  BY BrokerAssumption DEF Insert, BrokerInv, TypeOK, IdsAreOwned, Ids
<1>2. pending[reqId[c]] = None
  BY <1>1 DEF BrokerInv, TypeOK, IdsAreOwned, NoOrphanEntry
<1>3. channel' = channel
  BY <1>2, DecisionsAreValues DEF Insert, BrokerInv, TypeOK
<1>4. /\ pending' = [pending EXCEPT ![reqId[c]] = c]
      /\ step' = [step EXCEPT ![c] = "presenting"]
      /\ UNCHANGED <<remembered, nextId, ticket, reqId, expires, outcome, accepted,
                     tokens, callers, now, prompt>>
  BY DEF Insert
<1>5. TypeOK'
  BY <1>3, <1>4 DEF BrokerInv, TypeOK, Step
<1>6. TicketKept' /\ IdsAreOwned'
  BY <1>1, <1>4 DEF BrokerInv, TypeOK, TicketKept, IdsAreOwned
<1>7. NoOrphanEntry' /\ EntryIsUnanswered'
  BY <1>1, <1>3, <1>4, DecisionsAreValues
     DEF BrokerInv, TypeOK, NoOrphanEntry, EntryIsUnanswered, FreshUntilInserted
<1>8. FreshUntilInserted' /\ ChannelCarriesAccepted'
  BY <1>1, <1>3, <1>4 DEF BrokerInv, TypeOK, FreshUntilInserted, ChannelCarriesAccepted
<1>9. WaiterStaysAnswerable'
  BY <1>1, <1>3, <1>4 DEF BrokerInv, TypeOK, WaiterStaysAnswerable, IdsAreOwned
<1>10. DecidedWasAccepted' /\ MemoryComesFromOperators'
  BY <1>4 DEF BrokerInv, DecidedWasAccepted, MemoryComesFromOperators
<1> QED
  BY <1>5, <1>6, <1>7, <1>8, <1>9, <1>10 DEF BrokerInv

\* A waiter retracts its own entry on its way out: nobody else's is touched.
LEMMA EntryRetracted ==
    ASSUME BrokerInv, TypeOK', NEW c \in Calls,
           step[c] \in Armed \cup {"withdrawing"},
           pending' = [pending EXCEPT ![reqId[c]] = None],
           NEW n \in {"done", "dismissing", "abandoning"},
           step' = [step EXCEPT ![c] = n],
           UNCHANGED <<remembered, nextId, ticket, reqId, accepted, channel, sending>>,
           outcome'[c] = outcome[c] \/ outcome'[c].kind # "decided",
           \A d \in Calls : d # c => outcome'[d] = outcome[d]
    PROVE  BrokerInv'
<1> USE DEF Armed, Inserted
<1>1. TicketKept' /\ IdsAreOwned'
  BY DEF BrokerInv, TypeOK, TicketKept, IdsAreOwned
<1>2. \A i \in Ids : pending'[i] # None => pending'[i] = pending[i] /\ pending[i] # c
  BY DEF BrokerInv, TypeOK, NoOrphanEntry
<1>3. NoOrphanEntry' /\ EntryIsUnanswered'
  BY <1>2 DEF BrokerInv, TypeOK, NoOrphanEntry, EntryIsUnanswered
<1>4. FreshUntilInserted' /\ ChannelCarriesAccepted'
  BY DEF BrokerInv, TypeOK, FreshUntilInserted, ChannelCarriesAccepted
<1>5. WaiterStaysAnswerable'
  BY DEF BrokerInv, TypeOK, WaiterStaysAnswerable, IdsAreOwned
<1>6. DecidedWasAccepted'
  BY DEF BrokerInv, TypeOK, DecidedWasAccepted
<1>7. MemoryComesFromOperators'
  BY DEF BrokerInv, MemoryComesFromOperators
<1> QED
  BY <1>1, <1>3, <1>4, <1>5, <1>6, <1>7 DEF BrokerInv

\* An accepted answer takes the entry with it, so no call is answered twice.
LEMMA ResolveStep ==
    ASSUME BrokerInv, NEW i \in Ids, NEW d \in ApprovalDecision, NEW token,
           Resolve(i, d, token)
    PROVE  BrokerInv'
<1> USE DEF tokens, Armed, Inserted
<1> DEFINE c == pending[i]
<1>1. /\ c \in Calls /\ c # None
      /\ step[c] \in Armed
      /\ ticket[c].authority = "none" \/ d.scope = "once"
  BY DEF Resolve, Resolvable, ReceiverOpen, BrokerInv, TypeOK
<1>2. /\ pending' = [pending EXCEPT ![i] = None]
      /\ accepted' = [accepted EXCEPT ![c] = d]
      /\ sending' = sending \cup {c}
      /\ remembered' = IF d.scope = "session"
                         THEN [remembered EXCEPT ![ticket[c].session][ticket[c].tool] = d]
                         ELSE remembered
      /\ UNCHANGED <<nextId, step, ticket, reqId, expires, outcome, channel,
                     tokens, drain, now, prompt>>
  BY DEF Resolve
<1>3. /\ accepted[c] = None /\ channel[c] = Open /\ reqId[c] = i
      /\ ticket[c] \in ApprovalTicket
  BY <1>1 DEF BrokerInv, EntryIsUnanswered, NoOrphanEntry, TicketKept
<1> HIDE DEF c
<1>4. TypeOK'
  <2>1. ticket[c].session \in Sessions /\ ticket[c].tool \in Tools
    BY <1>3 DEF ApprovalTicket
  <2>2. remembered' \in [Sessions -> [Tools -> ApprovalDecision \cup {None}]]
    BY <1>2, <2>1 DEF BrokerInv, TypeOK
  <2> QED
    BY <1>1, <1>2, <2>2 DEF BrokerInv, TypeOK
<1>5. TicketKept' /\ IdsAreOwned'
  BY <1>2 DEF BrokerInv, TicketKept, IdsAreOwned
<1>6. NoOrphanEntry' /\ EntryIsUnanswered'
  BY <1>2, <1>3 DEF BrokerInv, TypeOK, NoOrphanEntry, EntryIsUnanswered
<1>7. FreshUntilInserted'
  BY <1>1, <1>2 DEF BrokerInv, TypeOK, FreshUntilInserted
<1>8. ChannelCarriesAccepted'
  BY <1>1, <1>2, <1>3, DecisionsAreValues DEF BrokerInv, TypeOK, ChannelCarriesAccepted
<1>9. WaiterStaysAnswerable'
  BY <1>1, <1>2, <1>3, DecisionsAreValues DEF BrokerInv, TypeOK, WaiterStaysAnswerable, IdsAreOwned
<1>10. DecidedWasAccepted'
  <2> SUFFICES ASSUME NEW x \in Calls, outcome[x] # None, outcome[x].kind = "decided"
               PROVE  accepted'[x] = outcome[x].decision
    BY <1>2 DEF DecidedWasAccepted
  <2>1. accepted[x] = outcome[x].decision
    BY DEF BrokerInv, DecidedWasAccepted
  <2>2. outcome[x].decision \in ApprovalDecision
    BY OutcomeKinds DEF BrokerInv, TypeOK, ApprovalOutcome
  <2> QED
    BY <1>1, <1>2, <1>3, <2>1, <2>2, DecisionsAreValues DEF BrokerInv, TypeOK
<1>11. MemoryComesFromOperators'
  <2> SUFFICES ASSUME NEW s \in Sessions, NEW t \in Tools, remembered'[s][t] # None
               PROVE  \E x \in Calls :
                        /\ accepted'[x] = remembered'[s][t]
                        /\ ticket[x] = [session |-> s, tool |-> t, authority |-> "none"]
    BY <1>2 DEF MemoryComesFromOperators
  <2>1. CASE d.scope = "session" /\ ticket[c].session = s /\ ticket[c].tool = t
    <3>1. ticket[c] = [session |-> s, tool |-> t, authority |-> "none"]
      BY <1>1, <1>3, <2>1 DEF ApprovalTicket
    <3>2. accepted'[c] = d /\ remembered'[s][t] = d
      BY <1>1, <1>2, <2>1 DEF BrokerInv, TypeOK
    <3> QED
      BY <1>1, <3>1, <3>2
  <2>2. CASE ~(d.scope = "session" /\ ticket[c].session = s /\ ticket[c].tool = t)
    <3>1. remembered'[s][t] = remembered[s][t]
      <4>1. ticket[c].session \in Sessions /\ ticket[c].tool \in Tools
        BY <1>3 DEF ApprovalTicket
      <4> QED
        BY <1>2, <2>2, <4>1 DEF BrokerInv, TypeOK
    <3>2. PICK x \in Calls :
            /\ accepted[x] = remembered[s][t]
            /\ ticket[x] = [session |-> s, tool |-> t, authority |-> "none"]
      BY <3>1 DEF BrokerInv, MemoryComesFromOperators
    <3>3. x # c
      BY <1>3, <3>1, <3>2
    <3> QED
      BY <1>2, <3>1, <3>2, <3>3 DEF BrokerInv, TypeOK
  <2> QED
    BY <2>1, <2>2
<1> QED
  BY <1>4, <1>5, <1>6, <1>7, <1>8, <1>9, <1>10, <1>11 DEF BrokerInv

\* The channel of an answered call: it holds nothing but its answer.
LEMMA SendStep ==
    ASSUME BrokerInv, NEW c \in Calls, Send(c)
    PROVE  BrokerInv'
<1> USE DEF state, tokens, Armed, Inserted
<1>1. /\ c \in sending /\ sending' = sending \ {c}
      /\ channel' = [channel EXCEPT ![c] = IF step[c] \in Armed THEN accepted[c] ELSE @]
      /\ UNCHANGED <<state, step, ticket, reqId, expires, outcome, accepted,
                     tokens, drain, now, prompt>>
  BY DEF Send, ReceiverOpen
<1>2. accepted[c] \in ApprovalDecision
  BY <1>1 DEF BrokerInv, TypeOK, ChannelCarriesAccepted
<1>3. TypeOK'
  BY <1>1, <1>2 DEF BrokerInv, TypeOK
<1>4. TicketKept' /\ IdsAreOwned' /\ NoOrphanEntry'
  BY <1>1 DEF BrokerInv, TicketKept, IdsAreOwned, NoOrphanEntry
<1>5. EntryIsUnanswered' /\ FreshUntilInserted'
  BY <1>1, <1>2, DecisionsAreValues
     DEF BrokerInv, TypeOK, EntryIsUnanswered, FreshUntilInserted
<1>6. ChannelCarriesAccepted'
  BY <1>1, <1>2 DEF BrokerInv, TypeOK, ChannelCarriesAccepted
<1>7. WaiterStaysAnswerable'
  BY <1>1, <1>2, DecisionsAreValues DEF BrokerInv, TypeOK, WaiterStaysAnswerable
<1>8. DecidedWasAccepted' /\ MemoryComesFromOperators'
  BY <1>1 DEF BrokerInv, DecidedWasAccepted, MemoryComesFromOperators
<1> QED
  BY <1>3, <1>4, <1>5, <1>6, <1>7, <1>8 DEF BrokerInv

\* Whoever loses the entry learns of it through the closed channel.
LEMMA WithdrawAllStep ==
    ASSUME BrokerInv, WithdrawAll
    PROVE  BrokerInv'
<1> USE DEF tokens, Armed, Inserted
<1>1. /\ pending' = [i \in Ids |-> None]
      /\ channel' = [c \in Calls |->
                       IF \E i \in Ids : pending[i] = c THEN Closed ELSE channel[c]]
      /\ drain' \subseteq Ids
      /\ UNCHANGED <<remembered, nextId, step, ticket, reqId, expires, outcome, accepted,
                     tokens, sending, now, prompt>>
  BY DEF WithdrawAll, BrokerInv, TypeOK
<1>2. TypeOK'
  BY <1>1 DEF BrokerInv, TypeOK
<1>3. TicketKept' /\ IdsAreOwned'
  BY <1>1 DEF BrokerInv, TicketKept, IdsAreOwned
<1>4. NoOrphanEntry' /\ EntryIsUnanswered'
  BY <1>1 DEF NoOrphanEntry, EntryIsUnanswered
<1>5. FreshUntilInserted'
  BY <1>1, DecisionsAreValues DEF BrokerInv, TypeOK, FreshUntilInserted, NoOrphanEntry
<1>6. ChannelCarriesAccepted'
  BY <1>1, DecisionsAreValues
     DEF BrokerInv, TypeOK, ChannelCarriesAccepted, NoOrphanEntry
<1>7. WaiterStaysAnswerable'
  BY <1>1, DecisionsAreValues, BrokerAssumption
     DEF BrokerInv, TypeOK, WaiterStaysAnswerable, IdsAreOwned, Ids
<1>8. DecidedWasAccepted' /\ MemoryComesFromOperators'
  BY <1>1 DEF BrokerInv, DecidedWasAccepted, MemoryComesFromOperators
<1> QED
  BY <1>2, <1>3, <1>4, <1>5, <1>6, <1>7, <1>8 DEF BrokerInv

\* Forgetting only takes memory away.
LEMMA ForgetStep ==
    ASSUME BrokerInv, NEW s \in Sessions,
           ForgetSession(s) \/ \E t \in Tools : Forget(s, t)
    PROVE  BrokerInv'
<1> USE DEF future, tokens, callers
<1>1. UNCHANGED <<pending, nextId, future, tokens, callers, now, prompt>>
  BY DEF ForgetSession, Forget
<1>2. /\ remembered' \in [Sessions -> [Tools -> ApprovalDecision \cup {None}]]
      /\ \A r \in Sessions, t \in Tools :
            remembered'[r][t] # None => remembered'[r][t] = remembered[r][t]
  <2>1. CASE ForgetSession(s)
    BY <2>1 DEF ForgetSession, BrokerInv, TypeOK
  <2>2. ASSUME NEW u \in Tools, Forget(s, u)
        PROVE  /\ remembered' \in [Sessions -> [Tools -> ApprovalDecision \cup {None}]]
               /\ \A r \in Sessions, t \in Tools :
                     remembered'[r][t] # None => remembered'[r][t] = remembered[r][t]
    BY <2>2 DEF Forget, BrokerInv, TypeOK
  <2> QED
    BY <2>1, <2>2
<1>3. TypeOK'
  BY <1>1, <1>2 DEF BrokerInv, TypeOK
<1>4. TicketKept' /\ IdsAreOwned' /\ NoOrphanEntry' /\ EntryIsUnanswered'
  BY <1>1 DEF BrokerInv, TicketKept, IdsAreOwned, NoOrphanEntry, EntryIsUnanswered
<1>5. /\ FreshUntilInserted' /\ ChannelCarriesAccepted' /\ WaiterStaysAnswerable'
      /\ DecidedWasAccepted'
  BY <1>1 DEF BrokerInv, FreshUntilInserted, ChannelCarriesAccepted,
     WaiterStaysAnswerable, DecidedWasAccepted
<1>6. MemoryComesFromOperators'
  <2> SUFFICES ASSUME NEW r \in Sessions, NEW t \in Tools, remembered'[r][t] # None
               PROVE  \E c \in Calls :
                        /\ accepted[c] = remembered'[r][t]
                        /\ ticket[c] = [session |-> r, tool |-> t, authority |-> "none"]
    BY <1>1 DEF MemoryComesFromOperators
  <2>1. remembered'[r][t] = remembered[r][t]
    BY <1>2
  <2> QED
    BY <2>1 DEF BrokerInv, MemoryComesFromOperators
<1> QED
  BY <1>3, <1>4, <1>5, <1>6 DEF BrokerInv

---------------------------------------------------------------------------
(* One step per action.                                                    *)

\* The polls of a waiter, and its drop: what they do to its own entry.
LEMMA PollStep ==
    ASSUME BrokerInv, NEW c \in Calls, Poll(c) \/ Drop(c) \/ DropDisarmed(c)
    PROVE  BrokerInv'
<1> USE DEF state, tokens, callers, Return, brokerVars, Step
<1>1. CASE Mint(c)
  BY <1>1, MintStep
<1>2. CASE BindingRefused(c)
  <2>1. step[c] = "insert" /\ Return(c, Error)
    BY <1>2 DEF BindingRefused
  <2>2. TypeOK'
    BY <1>2, <2>1 DEF BindingRefused, BrokerInv, TypeOK, ApprovalOutcome
  <2>3. \A i \in Ids : pending[i] # c
    BY <2>1, DecisionsAreValues DEF BrokerInv, NoOrphanEntry, Armed
  <2> QED
    BY <1>2, <2>1, <2>2, <2>3, CallMoves, OutcomeKinds
       DEF BindingRefused, BrokerInv, TypeOK, Inserted, Armed
<1>3. CASE Insert(c)
  BY <1>3, InsertStep
<1>4. CASE PresentFails(c)
  <2>1. TypeOK'
    BY <1>4 DEF PresentFails, BrokerInv, TypeOK, ApprovalOutcome
  <2>2. /\ step[c] \in Armed /\ step' = [step EXCEPT ![c] = "done"]
        /\ pending' = [pending EXCEPT ![reqId[c]] = None]
        /\ outcome' = [outcome EXCEPT ![c] = Error]
        /\ UNCHANGED <<remembered, nextId, ticket, reqId, accepted, channel, sending>>
    BY <1>4 DEF PresentFails, Armed
  <2>3. /\ outcome'[c].kind # "decided"
        /\ \A d \in Calls : d # c => outcome'[d] = outcome[d]
    BY <2>2, OutcomeKinds DEF BrokerInv, TypeOK
  <2> QED
    BY <2>1, <2>2, <2>3, EntryRetracted
<1>5. CASE Present(c)
  <2>1. TypeOK'
    BY <1>5 DEF Present, BrokerInv, TypeOK
  <2> QED
    BY <1>5, <2>1, CallMoves DEF Present, Armed, Inserted
<1>6. CASE PollWithdrawn(c)
  <2>1. TypeOK'
    BY <1>6 DEF PollWithdrawn, BrokerInv, TypeOK
  <2> QED
    BY <1>6, <2>1, CallMoves DEF PollWithdrawn, Armed, Inserted
<1>7. CASE PollDecided(c)
  <2>1. TypeOK'
    BY <1>7 DEF PollDecided, BrokerInv, TypeOK
  <2>2. \A i \in Ids : pending[i] # c
    BY <1>7, DecisionsAreValues DEF PollDecided, BrokerInv, EntryIsUnanswered
  <2> QED
    BY <1>7, <2>1, <2>2, CallMoves DEF PollDecided, Armed, Inserted
<1>8. CASE Discard(c)
  <2>1. /\ step[c] = "withdrawing"
        /\ pending' = [pending EXCEPT ![reqId[c]] = None]
        /\ outcome' = [outcome EXCEPT ![c] = Withdrawn(Reason(c))]
        /\ UNCHANGED <<remembered, nextId, ticket, reqId, expires, accepted, channel,
                       tokens, callers, now, prompt>>
    BY <1>8 DEF Discard
  <2>2. Withdrawn(Reason(c)) \in ApprovalOutcome
    BY DEF Reason, ApprovalOutcome
  <2>3. PICK n \in {"done", "dismissing", "abandoning"} : step' = [step EXCEPT ![c] = n]
    BY <1>8 DEF Discard
  <2>4. TypeOK'
    BY <2>1, <2>2, <2>3 DEF BrokerInv, TypeOK
  <2>5. /\ outcome'[c].kind # "decided"
        /\ \A d \in Calls : d # c => outcome'[d] = outcome[d]
    BY <2>1, OutcomeKinds DEF BrokerInv, TypeOK
  <2> QED
    BY <2>1, <2>3, <2>4, <2>5, EntryRetracted
<1>9. CASE WithdrawPrompt(c)
  <2>1. /\ step[c] = "dismissing" /\ step' = [step EXCEPT ![c] = "done"]
        /\ outcome' = outcome \/ outcome' = [outcome EXCEPT ![c] = Error]
        /\ prompt' \in [Ids -> {"absent", "shown", "dismissed", "failed"}]
        /\ UNCHANGED <<state, ticket, reqId, expires, accepted, channel, tokens, callers, now>>
    BY <1>9 DEF WithdrawPrompt, DismissPrompt, DismissFails, BrokerInv, TypeOK
  <2>2. TypeOK'
    BY <2>1 DEF BrokerInv, TypeOK, ApprovalOutcome
  <2>3. \A i \in Ids : pending[i] # c
    BY <2>1, DecisionsAreValues DEF BrokerInv, NoOrphanEntry, Armed
  <2> QED
    BY <2>1, <2>2, <2>3, CallMoves, OutcomeKinds DEF BrokerInv, TypeOK, Armed, Inserted
<1>10. CASE SettlePrompt(c)
  <2>1. /\ step[c] = "settling" /\ step' = [step EXCEPT ![c] = "done"]
        /\ \/ outcome' = [outcome EXCEPT ![c] = Decided(channel[c])]
           \/ outcome' = [outcome EXCEPT ![c] = Error]
        /\ prompt' \in [Ids -> {"absent", "shown", "dismissed", "failed"}]
        /\ UNCHANGED <<state, ticket, reqId, expires, accepted, channel, tokens, callers, now>>
    BY <1>10 DEF SettlePrompt, DismissPrompt, DismissFails, BrokerInv, TypeOK
  <2>2. channel[c] \in ApprovalDecision /\ accepted[c] = channel[c]
    BY <2>1 DEF BrokerInv, ChannelCarriesAccepted
  <2>3. TypeOK'
    BY <2>1, <2>2 DEF BrokerInv, TypeOK, ApprovalOutcome
  <2>4. \A i \in Ids : pending[i] # c
    BY <2>1, DecisionsAreValues DEF BrokerInv, NoOrphanEntry, Armed
  <2>5. \A x \in Calls : outcome'[x] # outcome[x] /\ outcome'[x].kind = "decided"
          => outcome'[x].decision = accepted[x]
    BY <2>1, <2>2, OutcomeKinds DEF BrokerInv, TypeOK
  <2> QED
    BY <2>1, <2>3, <2>4, <2>5, CallMoves DEF Armed, Inserted
<1>11. CASE Abandon(c) \/ DropDisarmed(c)
  <2>1. /\ step[c] \in {"abandoning", "dismissing", "settling"}
        /\ step' = [step EXCEPT ![c] = "done"]
        /\ outcome' = [outcome EXCEPT ![c] = Dropped]
        /\ prompt' \in [Ids -> {"absent", "shown", "dismissed", "failed"}]
        /\ UNCHANGED <<state, ticket, reqId, expires, accepted, channel, tokens, callers, now>>
    BY <1>11 DEF Abandon, DropDisarmed, DismissPrompt, BrokerInv, TypeOK
  <2>2. TypeOK'
    BY <2>1 DEF BrokerInv, TypeOK, ApprovalOutcome
  <2>3. \A i \in Ids : pending[i] # c
    BY <2>1, DecisionsAreValues DEF BrokerInv, NoOrphanEntry, Armed
  <2> QED
    BY <2>1, <2>2, <2>3, CallMoves, OutcomeKinds DEF BrokerInv, TypeOK, Armed, Inserted
<1>12. CASE Drop(c)
  <2>1. /\ step[c] \in Armed
        /\ pending' = [pending EXCEPT ![reqId[c]] = None]
        /\ outcome' = outcome \/ outcome' = [outcome EXCEPT ![c] = Dropped]
        /\ UNCHANGED <<remembered, nextId, ticket, reqId, expires, accepted, channel,
                       tokens, callers, now, prompt>>
    BY <1>12 DEF Drop
  <2>2. PICK n \in {"done", "dismissing", "abandoning"} : step' = [step EXCEPT ![c] = n]
    BY <1>12 DEF Drop
  <2>3. TypeOK'
    BY <2>1, <2>2 DEF BrokerInv, TypeOK, ApprovalOutcome
  <2>4. /\ outcome'[c] = outcome[c] \/ outcome'[c].kind # "decided"
        /\ \A d \in Calls : d # c => outcome'[d] = outcome[d]
    BY <2>1, OutcomeKinds DEF BrokerInv, TypeOK
  <2> QED
    BY <2>1, <2>2, <2>3, <2>4, EntryRetracted
<1> QED
  BY <1>1, <1>2, <1>3, <1>4, <1>5, <1>6, <1>7, <1>8, <1>9, <1>10, <1>11, <1>12 DEF Poll

\* BrokerInv is inductive.
LEMMA BrokerStep == BrokerInv /\ [Next]_vars => BrokerInv'
<1> SUFFICES ASSUME BrokerInv, [Next]_vars PROVE BrokerInv'
  OBVIOUS
<1> USE DEF state, future, tokens, callers, brokerVars
<1>1. ASSUME NEW c \in Calls, Request(c)
      PROVE  BrokerInv'
  BY <1>1, RequestStep
<1>2. ASSUME NEW c \in Calls, Poll(c) \/ Drop(c) \/ DropDisarmed(c)
      PROVE  BrokerInv'
  BY <1>2, PollStep
<1>3. ASSUME NEW c \in Calls, Send(c)
      PROVE  BrokerInv'
  BY <1>3, SendStep
<1>4. ASSUME NEW c \in Calls, Cancel(c) \/ Revoke(c)
      PROVE  BrokerInv'
  <2>1. TypeOK'
    BY <1>4 DEF Cancel, Revoke, BrokerInv, TypeOK
  <2> QED
    BY <1>4, <2>1, BrokerFrame DEF Cancel, Revoke
<1>5. ASSUME NEW i \in Ids, NEW d \in ApprovalDecision, NEW token \in {"none", "preview"},
             Resolve(i, d, token)
      PROVE  BrokerInv'
  BY <1>5, ResolveStep
<1>6. CASE WithdrawAll
  BY <1>6, WithdrawAllStep
<1>7. CASE DropWithdrawAll
  <2>1. TypeOK'
    BY <1>7 DEF DropWithdrawAll, BrokerInv, TypeOK
  <2> QED
    BY <1>7, <2>1, BrokerFrame DEF DropWithdrawAll
<1>8. ASSUME NEW i \in Ids, WithdrawNext(i)
      PROVE  BrokerInv'
  <2>1. TypeOK'
    BY <1>8 DEF WithdrawNext, DismissPrompt, DismissFails, BrokerInv, TypeOK
  <2> QED
    BY <1>8, <2>1, BrokerFrame DEF WithdrawNext
<1>9. ASSUME NEW s \in Sessions, ForgetSession(s) \/ \E t \in Tools : Forget(s, t)
      PROVE  BrokerInv'
  BY <1>9, ForgetStep
<1>10. CASE Tick
  <2>1. TypeOK'
    BY <1>10, BrokerAssumption DEF Tick, BrokerInv, TypeOK
  <2> QED
    BY <1>10, <2>1, BrokerFrame DEF Tick
<1>11. CASE UNCHANGED vars
  <2>1. TypeOK'
    BY <1>11 DEF vars, BrokerInv, TypeOK
  <2> QED
    BY <1>11, <2>1, BrokerFrame DEF vars
<1> QED
  BY <1>1, <1>2, <1>3, <1>4, <1>5, <1>6, <1>7, <1>8, <1>9, <1>10, <1>11 DEF Next

---------------------------------------------------------------------------
(* Results.                                                                *)

\* The inductive invariant, types included, holds in every reachable state of the
\* broker: request(), resolve(), withdraw_all() and forget() in any order.
THEOREM BrokerSafe == Spec => []BrokerInv
<1>1. Init => BrokerInv
  BY BrokerInit
<1>2. BrokerInv /\ [Next]_vars => BrokerInv'
  BY BrokerStep
<1> QED
  BY <1>1, <1>2, PTL DEF Spec

\* outstanding() never lists a request whose future is gone: the pending guard
\* and every return of request_inner() retract the call's own entry.
THEOREM NoEntryIsOrphaned == Spec => []NoOrphanEntry
<1>1. BrokerInv => NoOrphanEntry
  BY DEF BrokerInv
<1> QED
  BY <1>1, BrokerSafe, PTL

\* No other request evicts or retracts a waiter's entry, whatever the identifier
\* limit: a waiter without answer or withdrawal can be answered by resolve().
THEOREM WaitersStayAnswerable == Spec => []WaiterStaysAnswerable
<1>1. BrokerInv => WaiterStaysAnswerable
  BY DEF BrokerInv
<1> QED
  BY <1>1, BrokerSafe, PTL

\* What request() reports as a decision is the one resolve() accepted for this
\* call, across every interleaving of answers, drops and withdrawals.
THEOREM DecisionsWereAccepted == Spec => []DecidedWasAccepted
<1>1. BrokerInv => DecidedWasAccepted
  BY DEF BrokerInv
<1> QED
  BY <1>1, BrokerSafe, PTL

\* Nothing an authenticated or foreign call was answered is ever remembered for
\* a session and tool.
THEOREM MemoryIsFromOperators == Spec => []MemoryComesFromOperators
<1>1. BrokerInv => MemoryComesFromOperators
  BY DEF BrokerInv
<1> QED
  BY <1>1, BrokerSafe, PTL

---------------------------------------------------------------------------
(* What becomes of an accepted answer.                                     *)

\* The deadline passed while the decision was not yet sent.
Late(c) == now >= expires[c] /\ channel[c] = Open

\* What stands against the answer of c when request() reports a withdrawal.
Overruled(c) ==
    \/ outcome[c] = Withdrawn("Cancelled") /\ Interrupted(c)
    \/ outcome[c] = Withdrawn("TimedOut") /\ Late(c)

\* How far the answer of c has come: its channel is never closed, and a waiter
\* leaves the select! without it for one of two reasons, which then stay true.
Honours(c) ==
    accepted[c] # None =>
        /\ step[c] # "idle"
        /\ channel[c] # Closed
        /\ step[c] = "withdrawing" => Interrupted(c) \/ Late(c)
        /\ step[c] = "dismissing" => Overruled(c)
        /\ step[c] = "done" => outcome[c] \in {Decided(accepted[c]), Error, Dropped}
                               \/ Overruled(c)

\* What stands against the answer of c stays, whatever the others do.
LEMMA HonoursFrame ==
    ASSUME NEW c \in Calls, BrokerInv, TypeOK', Honours(c),
           step'[c] = step[c], outcome'[c] = outcome[c], accepted'[c] = accepted[c],
           channel'[c] = channel[c], expires'[c] = expires[c],
           step[c] # "idle" => ticket'[c] = ticket[c],
           cancelled \subseteq cancelled', revoked \subseteq revoked', now' >= now
    PROVE  Honours(c)'
<1> SUFFICES ASSUME accepted[c] # None, step[c] # "idle"
             PROVE  Honours(c)'
  BY DEF Honours
<1>1. Interrupted(c) => Interrupted(c)'
  BY DEF Interrupted
<1>2. Late(c) => Late(c)'
  BY BrokerAssumption DEF Late, BrokerInv, TypeOK
<1>3. Overruled(c) => Overruled(c)'
  BY <1>1, <1>2 DEF Overruled
<1> QED
  BY <1>1, <1>2, <1>3 DEF Honours

\* The waiter itself moves on.
LEMMA HonoursOwn ==
    ASSUME NEW c \in Calls, BrokerInv, Honours(c),
           Request(c) \/ Poll(c) \/ Drop(c) \/ DropDisarmed(c)
    PROVE  Honours(c)'
<1> USE DEF state, tokens, callers, Return
<1>1. CASE Request(c) \/ Mint(c) \/ BindingRefused(c) \/ Insert(c)
  <2>1. accepted[c] = None /\ accepted' = accepted
    BY <1>1 DEF Request, Mint, BindingRefused, Insert, BrokerInv, FreshUntilInserted
  <2> QED
    BY <2>1 DEF Honours
<1>2. CASE Present(c) \/ PresentFails(c) \/ PollDecided(c)
  <2>1. /\ step'[c] \in {"waiting", "settling"} \/ (outcome'[c] = Error /\ step'[c] = "done")
        /\ UNCHANGED <<accepted, channel>>
    BY <1>2 DEF Present, PresentFails, PollDecided, BrokerInv, TypeOK
  <2> QED
    BY <2>1 DEF Honours
<1>3. CASE PollWithdrawn(c)
  <2>1. /\ step'[c] = "withdrawing"
        /\ Interrupted(c) \/ channel[c] = Closed \/ Late(c)
        /\ UNCHANGED <<accepted, channel, ticket, expires, cancelled, revoked, now>>
    BY <1>3 DEF PollWithdrawn, Late, BrokerInv, TypeOK
  <2>2. (Interrupted(c) <=> Interrupted(c)') /\ (Late(c) <=> Late(c)')
    BY <2>1 DEF Interrupted, Late
  <2> QED
    BY <2>1, <2>2 DEF Honours
<1>4. CASE Discard(c)
  <2>1. /\ step[c] = "withdrawing" /\ step'[c] \in {"dismissing", "done"}
        /\ outcome'[c] = Withdrawn(Reason(c))
        /\ UNCHANGED <<accepted, channel, ticket, expires, cancelled, revoked, now>>
    BY <1>4 DEF Discard, BrokerInv, TypeOK
  <2>2. (Interrupted(c) <=> Interrupted(c)') /\ (Late(c) <=> Late(c)')
    BY <2>1 DEF Interrupted, Late
  <2>3. accepted[c] # None => Overruled(c)'
    BY <2>1, <2>2 DEF Honours, Overruled, Reason
  <2> QED
    BY <2>1, <2>3 DEF Honours
<1>5. CASE WithdrawPrompt(c)
  <2>1. /\ step[c] = "dismissing" /\ step'[c] = "done"
        /\ outcome' = outcome \/ outcome'[c] = Error
        /\ UNCHANGED <<accepted, channel, ticket, expires, cancelled, revoked, now>>
    BY <1>5 DEF WithdrawPrompt, BrokerInv, TypeOK
  <2>2. outcome' = outcome /\ Overruled(c) => Overruled(c)'
    BY <2>1 DEF Overruled, Interrupted, Late
  <2> QED
    BY <2>1, <2>2 DEF Honours
<1>6. CASE SettlePrompt(c)
  <2>1. /\ step[c] = "settling" /\ step'[c] = "done"
        /\ outcome'[c] = Decided(channel[c]) \/ outcome'[c] = Error
        /\ UNCHANGED <<accepted, channel>>
    BY <1>6 DEF SettlePrompt, BrokerInv, TypeOK
  <2>2. accepted[c] = channel[c]
    BY <2>1 DEF BrokerInv, ChannelCarriesAccepted
  <2> QED
    BY <2>1, <2>2 DEF Honours
<1>7. CASE Abandon(c) \/ Drop(c) \/ DropDisarmed(c)
  <2>1. /\ step'[c] = "abandoning" \/ (step'[c] = "done" /\ outcome'[c] = Dropped)
        /\ UNCHANGED <<accepted, channel>>
    BY <1>7 DEF Abandon, Drop, DropDisarmed, BrokerInv, TypeOK
  <2> QED
    BY <2>1 DEF Honours
<1> QED
  BY <1>1, <1>2, <1>3, <1>4, <1>5, <1>6, <1>7 DEF Poll

\* Every step of the broker honours the answers it accepted.
LEMMA HonoursStep ==
    ASSUME BrokerInv, BrokerInv', [Next]_vars, NEW c \in Calls, Honours(c)
    PROVE  Honours(c)'
<1> USE DEF state, future, tokens, callers
<1>0. TypeOK' /\ now \in Int
  BY BrokerAssumption DEF BrokerInv, TypeOK
<1>1. ASSUME NEW x \in Calls, Request(x) \/ Poll(x) \/ Drop(x) \/ DropDisarmed(x)
      PROVE  Honours(c)'
  <2>1. CASE x = c
    BY <1>1, <2>1, HonoursOwn
  <2>2. CASE x # c
    <3>1. /\ step'[c] = step[c] /\ outcome'[c] = outcome[c] /\ ticket'[c] = ticket[c]
          /\ expires'[c] = expires[c]
          /\ UNCHANGED <<accepted, cancelled, revoked, now>>
      BY <1>1, <2>2 DEF Poll, Request, Mint, BindingRefused, Insert, PresentFails, Present,
         PollWithdrawn, PollDecided, Discard, WithdrawPrompt, SettlePrompt, Abandon, Drop,
         DropDisarmed, Return, BrokerInv, TypeOK
    <3>2. channel'[c] = channel[c]
      <4>1. CASE Insert(x)
        <5>1. reqId[x] \in Ids /\ step[x] = "insert"
          BY <4>1, BrokerAssumption DEF Insert, BrokerInv, TypeOK, IdsAreOwned, Ids, Inserted
        <5>2. pending[reqId[x]] = None
          BY <5>1 DEF BrokerInv, TypeOK, IdsAreOwned, NoOrphanEntry, Inserted, Armed
        <5> QED
          BY <4>1, <5>2, DecisionsAreValues DEF Insert
      <4>2. CASE ~Insert(x)
        BY <1>1, <4>2 DEF Poll, Request, Mint, BindingRefused, PresentFails, Present,
           PollWithdrawn, PollDecided, Discard, WithdrawPrompt, SettlePrompt, Abandon, Drop,
           DropDisarmed
      <4> QED
        BY <4>1, <4>2
    <3> QED
      BY <1>0, <3>1, <3>2, HonoursFrame
  <2> QED
    BY <2>1, <2>2
<1>2. ASSUME NEW x \in Calls, Send(x)
      PROVE  Honours(c)'
  <2>1. /\ UNCHANGED <<step, outcome, accepted, expires, ticket, cancelled, revoked, now>>
        /\ x \in sending
        /\ channel' = [channel EXCEPT ![x] = IF ReceiverOpen(x) THEN accepted[x] ELSE @]
    BY <1>2 DEF Send
  <2>2. CASE x = c /\ ReceiverOpen(c)
    <3>1. channel'[c] = accepted[c] /\ accepted[c] \in ApprovalDecision
      BY <2>1, <2>2 DEF BrokerInv, TypeOK, ChannelCarriesAccepted
    <3> QED
      BY <2>1, <2>2, <3>1, DecisionsAreValues DEF Honours, ReceiverOpen, Armed
  <2>3. CASE ~(x = c /\ ReceiverOpen(c))
    <3>1. channel'[c] = channel[c]
      BY <2>1, <2>3 DEF BrokerInv, TypeOK
    <3> QED
      BY <1>0, <2>1, <3>1, HonoursFrame
  <2> QED
    BY <2>2, <2>3
<1>3. ASSUME NEW i \in Ids, NEW d \in ApprovalDecision, NEW token \in {"none", "preview"},
             Resolve(i, d, token)
      PROVE  Honours(c)'
  <2>1. /\ UNCHANGED <<step, outcome, channel, expires, ticket, cancelled, revoked, now>>
        /\ accepted' = [accepted EXCEPT ![pending[i]] = d]
        /\ pending[i] # None /\ step[pending[i]] \in Armed
    BY <1>3 DEF Resolve, Resolvable, ReceiverOpen
  <2>2. CASE pending[i] = c
    BY <2>1, <2>2, DecisionsAreValues DEF Honours, Armed, BrokerInv, EntryIsUnanswered, Open, Closed
  <2>3. CASE pending[i] # c
    BY <1>0, <2>1, <2>3, HonoursFrame DEF BrokerInv, TypeOK
  <2> QED
    BY <2>2, <2>3
<1>4. CASE WithdrawAll
  <2>1. UNCHANGED <<step, outcome, accepted, expires, ticket, cancelled, revoked, now>>
    BY <1>4 DEF WithdrawAll
  <2>2. accepted[c] # None => channel'[c] = channel[c]
    BY <1>4, DecisionsAreValues DEF WithdrawAll, BrokerInv, EntryIsUnanswered
  <2>3. CASE accepted[c] = None
    BY <2>1, <2>3 DEF Honours
  <2> QED
    BY <1>0, <2>1, <2>2, <2>3, HonoursFrame
<1>5. ASSUME \/ \E x \in Calls : Cancel(x) \/ Revoke(x)
             \/ DropWithdrawAll \/ (\E i \in Ids : WithdrawNext(i))
             \/ \E s \in Sessions : ForgetSession(s) \/ \E t \in Tools : Forget(s, t)
             \/ Tick \/ UNCHANGED vars
      PROVE  Honours(c)'
  <2>1. /\ UNCHANGED <<step, outcome, accepted, channel, expires, ticket>>
        /\ cancelled \subseteq cancelled' /\ revoked \subseteq revoked'
        /\ now' = now \/ now' = now + 1
    BY <1>5 DEF Cancel, Revoke, DropWithdrawAll, WithdrawNext, ForgetSession, Forget, Tick, vars
  <2> QED
    BY <1>0, <2>1, HonoursFrame
<1> QED
  BY <1>1, <1>2, <1>3, <1>4, <1>5 DEF Next

\* An answer that resolve() accepted, and no other, is what request() reports, unless the caller
\* was interrupted, its deadline passed before the decision was sent, the adapter
\* failed or the future was dropped: withdraw_all() cannot take it back, a poll
\* after the deadline cannot ignore it and no second answer can replace it.
THEOREM AcceptedAnswersCount == Spec => []AcceptedIsHonoured
<1> DEFINE Honoured == BrokerInv /\ \A c \in Calls : Honours(c)
<1>1. Init => Honoured
  BY BrokerInit DEF Init, Honours
<1>2. Honoured /\ [Next]_vars => Honoured'
  BY BrokerStep, HonoursStep
<1>3. Honoured => AcceptedIsHonoured
  BY DEF Honours, Overruled, Late, AcceptedIsHonoured, BrokerInv
<1> QED
  BY <1>1, <1>2, <1>3, PTL DEF Spec
=============================================================================
