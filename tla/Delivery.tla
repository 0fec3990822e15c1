------------------------------ MODULE Delivery ------------------------------
(***************************************************************************)
(* Events from one service to another (packages/common/src/events): rows   *)
(* of the outbox committed with a state change, sent by a fast path after  *)
(* the commit or by the relay's ticks, through the broker, to a consumer   *)
(* that runs its handlers in order, retries and parks what fails, and      *)
(* keeps each effect to once with runOnce.                                 *)
(*                                                                         *)
(* One process on each side.  Faults are counted: a process dies, a        *)
(* connection or channel closes, a confirm or a statement's result is lost.*)
(***************************************************************************)
EXTENDS Naturals, FiniteSets

CONSTANTS
  Events,       \* one transaction emits each
  HandlerCount, \* handlers of these events, run in this order
  MaxAttempts,  \* EVENT_MAX_ATTEMPTS
  Slots,        \* deliveries the consumer works on at once
  MaxFaults,    \* bound: faults in a behaviour
  None

Handlers == 1 .. HandlerCount

ASSUME CountAssumption == HandlerCount \in Nat \ {0} /\ MaxAttempts \in Nat \ {0} /\ MaxFaults \in Nat
ASSUME SlotAssumption == IsFiniteSet(Slots)
ASSUME NoneAssumption == None \notin Events

VARIABLES
  row,          \* outbox rows
  clock,        \* clock_timestamp(), a tick per insert
  created,      \* created_at
  before,       \* the events committed when this one was inserted (history)
  fast,         \* the fast path of each transaction
  relay,        \* the relay's tick: what is left of its batch, and the row it sends
  connected,    \* the producer's bus has its connection and channel
  sent,         \* events the broker ever took (history)
  late,         \* messages the sender gave up waiting for, still on their way
  queue,        \* copies in the consumer's queue and its retry queue
  slot,         \* deliveries at work
  marked,       \* processed_events: runOnce's markers
  effects,      \* effects committed by each handler
  parked,
  faults

rowVars == <<row, clock, created, before>>
senderVars == <<fast, relay>>
brokerVars == <<sent, late, queue>>
consumerVars == <<slot, marked, effects, parked>>
vars == <<row, clock, created, before, fast, relay, connected, sent, late, queue, slot, marked, effects, parked, faults>>

-----------------------------------------------------------------------------
(* Types                                                                   *)

\* failures: the x-attempts header.
Message == Events \X (0 .. MaxAttempts - 1)
\* held: the channel that delivered the message is still open.
SlotType == [at : {"handle", "move", "ack"}, message : Message, next : 1 .. HandlerCount + 1, held : BOOLEAN]
Free == [at |-> "free"]
RelayType == [at : {"idle", "next", "publish", "mark"}, batch : SUBSET Events, head : Events \cup {None}]
Resting == [at |-> "idle", batch |-> {}, head |-> None]

TypeOK ==
  /\ row \in [Events -> {"none", "open", "waiting", "published", "rolled_back"}]
  /\ clock \in Nat
  /\ created \in [Events -> Nat]
  /\ before \in [Events -> SUBSET Events]
  /\ fast \in [Events -> {"off", "start", "check", "publish", "mark"}]
  /\ relay \in RelayType
  /\ relay.at \in {"publish", "mark"} => relay.head \in relay.batch
  /\ connected \in BOOLEAN
  /\ sent \subseteq Events
  /\ late \subseteq Events
  /\ queue \in [Message -> Nat]
  /\ slot \in [Slots -> SlotType \cup {Free}]
  /\ \A c \in Slots : slot[c].at = "handle" => slot[c].next \in Handlers
  /\ marked \subseteq Events \X Handlers
  /\ effects \in [Events -> [Handlers -> Nat]]
  /\ parked \subseteq Events
  /\ faults \in 0 .. MaxFaults

Init ==
  /\ row = [e \in Events |-> "none"]
  /\ clock = 0
  /\ created = [e \in Events |-> 0]
  /\ before = [e \in Events |-> {}]
  /\ fast = [e \in Events |-> "off"]
  /\ relay = Resting
  /\ connected = TRUE
  /\ sent = {}
  /\ late = {}
  /\ queue = [m \in Message |-> 0]
  /\ slot = [c \in Slots |-> Free]
  /\ marked = {}
  /\ effects = [e \in Events |-> [h \in Handlers |-> 0]]
  /\ parked = {}
  /\ faults = 0

Fault == faults < MaxFaults /\ faults' = faults + 1

-----------------------------------------------------------------------------
(* OutboxService.transaction                                               *)

Committed == {e \in Events : row[e] \in {"waiting", "published"}}
Waiting == {e \in Events : row[e] = "waiting"}
Older(e) == {d \in Waiting : created[d] < created[e]}

\* The insert at the end of the transaction's body, which dates the row.
Insert(e) ==
  /\ row[e] = "none"
  /\ row' = [row EXCEPT ![e] = "open"]
  /\ clock' = clock + 1
  /\ created' = [created EXCEPT ![e] = clock]
  /\ before' = [before EXCEPT ![e] = Committed]
  /\ UNCHANGED <<senderVars, connected, brokerVars, consumerVars, faults>>

Commit(e) ==
  /\ row[e] = "open"
  /\ row' = [row EXCEPT ![e] = "waiting"]
  /\ fast' = [fast EXCEPT ![e] = "start"]
  /\ UNCHANGED <<clock, created, before, relay, connected, brokerVars, consumerVars, faults>>

RollBack(e) ==
  /\ row[e] = "open"
  /\ row' = [row EXCEPT ![e] = "rolled_back"]
  /\ UNCHANGED <<clock, created, before, senderVars, connected, brokerVars, consumerVars, faults>>

-----------------------------------------------------------------------------
(* Sending: the fast path of one transaction, and the relay.  Between      *)
(* them inFlight keeps a row from being sent by both at once.              *)

First(e, batch) == e \in batch /\ \A d \in batch : created[e] <= created[d]
FastInFlight(e) == fast[e] \in {"check", "publish", "mark"}
RelayInFlight(e) == relay.at \in {"publish", "mark"} /\ relay.head = e

FastGoes(e, step) == fast' = [fast EXCEPT ![e] = step]
RelayGoes(step, batch, head) == relay' = [at |-> step, batch |-> batch, head |-> head]

\* The event reaches the broker, which copies it to the consumer's queue.
Arrives(e) ==
  /\ sent' = sent \cup {e}
  /\ queue' = [queue EXCEPT ![<<e, 0>>] = queue[<<e, 0>>] + 1]

\* publishConfirmed: the broker confirms in time ...
Confirmed(e) == connected /\ Arrives(e) /\ UNCHANGED <<late, faults>>

\* ... or not: there is no connection, or the message may be there already, come
\* later or never.
Unconfirmed(e) ==
  \/ ~connected /\ UNCHANGED <<brokerVars, faults>>
  \/ /\ Fault
     /\ \/ Arrives(e) /\ UNCHANGED late
        \/ late' = late \cup {e} /\ UNCHANGED <<sent, queue>>

ArrivesLate(e) ==
  /\ e \in late
  /\ Arrives(e)
  /\ late' = late \ {e}
  /\ UNCHANGED <<rowVars, senderVars, connected, consumerVars, faults>>

MMayStart(e) == connected
MayStart(e) == connected /\ ~RelayInFlight(e)
StartFast(e) ==
  /\ fast[e] = "start"
  /\ FastGoes(e, IF MayStart(e) THEN "check" ELSE "off")
  /\ UNCHANGED <<rowVars, relay, connected, brokerVars, consumerVars, faults>>

MNothingOlder(e) == TRUE
NothingOlder(e) == Older(e) = {}
CheckOlder(e) ==
  /\ fast[e] = "check"
  /\ FastGoes(e, IF NothingOlder(e) THEN "publish" ELSE "off")
  /\ UNCHANGED <<rowVars, relay, connected, brokerVars, consumerVars, faults>>

FastSends(e) ==
  /\ fast[e] = "publish"
  /\ \/ Confirmed(e) /\ FastGoes(e, "mark")
     \/ Unconfirmed(e) /\ FastGoes(e, "off")
  /\ UNCHANGED <<rowVars, relay, connected, consumerVars>>

\* The UPDATE of published_at, or its failure.
FastMarks(e) ==
  /\ fast[e] = "mark"
  /\ \/ row' = [row EXCEPT ![e] = "published"] /\ UNCHANGED faults
     \/ Fault /\ UNCHANGED row
  /\ FastGoes(e, "off")
  /\ UNCHANGED <<clock, created, before, relay, connected, brokerVars, consumerVars>>

\* A tick reads the unpublished rows, oldest first; without a connection it
\* sends nothing.
RelayReads ==
  /\ relay.at = "idle"
  /\ connected
  /\ Waiting # {}
  /\ RelayGoes("next", Waiting, None)
  /\ UNCHANGED <<rowVars, fast, connected, brokerVars, consumerVars, faults>>

\* The loop ends after the last row, or at one the fast path is sending.
RelayNext ==
  /\ relay.at = "next"
  /\ \/ relay.batch = {} /\ relay' = Resting
     \/ \E e \in Events :
          /\ First(e, relay.batch)
          /\ IF FastInFlight(e) THEN relay' = Resting ELSE RelayGoes("publish", relay.batch, e)
  /\ UNCHANGED <<rowVars, fast, connected, brokerVars, consumerVars, faults>>

\* The batch stops at the first row that is not sent, so that none overtakes it.
RelaySends ==
  /\ relay.at = "publish"
  /\ \/ Confirmed(relay.head) /\ RelayGoes("mark", relay.batch, relay.head)
     \/ Unconfirmed(relay.head) /\ relay' = Resting
  /\ UNCHANGED <<rowVars, fast, connected, consumerVars>>

RelayMarks ==
  /\ relay.at = "mark"
  /\ \/ /\ row' = [row EXCEPT ![relay.head] = "published"]
        /\ RelayGoes("next", relay.batch \ {relay.head}, None)
        /\ UNCHANGED faults
     \/ Fault /\ relay' = Resting /\ UNCHANGED row
  /\ UNCHANGED <<clock, created, before, fast, connected, brokerVars, consumerVars>>

Disconnect ==
  /\ connected
  /\ Fault
  /\ connected' = FALSE
  /\ UNCHANGED <<rowVars, senderVars, brokerVars, consumerVars>>

\* The supervisor never gives up.
Reconnect ==
  /\ ~connected
  /\ connected' = TRUE
  /\ UNCHANGED <<rowVars, senderVars, brokerVars, consumerVars, faults>>

ProducerDies ==
  /\ Fault
  /\ row' = [e \in Events |-> IF row[e] = "open" THEN "rolled_back" ELSE row[e]]
  /\ fast' = [e \in Events |-> "off"]
  /\ relay' = Resting
  /\ connected' = FALSE
  /\ UNCHANGED <<clock, created, before, brokerVars, consumerVars>>

-----------------------------------------------------------------------------
(* The consumer                                                            *)

SlotGoes(c, s) == slot' = [slot EXCEPT ![c] = s]

Deliver(c, m) ==
  /\ slot[c] = Free
  /\ queue[m] > 0
  /\ queue' = [queue EXCEPT ![m] = queue[m] - 1]
  /\ SlotGoes(c, [at |-> "handle", message |-> m, next |-> 1, held |-> TRUE])
  /\ UNCHANGED <<rowVars, senderVars, connected, sent, late, marked, effects, parked, faults>>

\* runOnce: the marker and the handler's writes in one transaction; a marker
\* that is there skips the handler.
MRan(e, h) == FALSE
Ran(e, h) == <<e, h>> \in marked
RunOnce(e, h) ==
  /\ marked' = marked \cup {<<e, h>>}
  /\ effects' = IF Ran(e, h) THEN effects
             ELSE [effects EXCEPT ![e] = [effects[e] EXCEPT ![h] = effects[e][h] + 1]]

MLast(h) == h > HandlerCount
Last(h) == h = HandlerCount

\* The next handler runs; after the last, the message is acked.
HandlerReturns(c) ==
  LET s == slot[c] IN
  /\ s.at = "handle"
  /\ RunOnce(s.message[1], s.next)
  /\ SlotGoes(c, [at |-> IF Last(s.next) THEN "ack" ELSE "handle",
                  message |-> s.message, next |-> s.next + 1, held |-> s.held])
  /\ UNCHANGED <<rowVars, senderVars, connected, brokerVars, parked, faults>>

\* A handler throws: its transaction rolled back, or committed and what
\* follows it failed.  The handlers after it do not run.
HandlerThrows(c) ==
  LET s == slot[c] IN
  /\ s.at = "handle"
  /\ RunOnce(s.message[1], s.next) \/ UNCHANGED <<marked, effects>>
  /\ SlotGoes(c, [at |-> "move", message |-> s.message, next |-> s.next, held |-> s.held])
  /\ UNCHANGED <<rowVars, senderVars, connected, brokerVars, parked, faults>>

\* What is copied to the retry queue, which returns it to the main queue after
\* a while; with no attempt left the copy goes to the parked queue.
MAttempts(m) == m[2]
Attempts(m) == m[2] + 1
Parks(m) == Attempts(m) >= MaxAttempts
Copies(m) == IF Parks(m) THEN {} ELSE {<<m[1], Attempts(m)>>}
Add(messages) == queue' = [m \in Message |-> IF m \in messages THEN queue[m] + 1 ELSE queue[m]]

\* The copy is confirmed, and the original acked afterwards.
Move(c) ==
  LET s == slot[c] IN
  /\ s.at = "move"
  /\ Add(Copies(s.message))
  /\ parked' = IF Parks(s.message) THEN parked \cup {s.message[1]} ELSE parked
  /\ SlotGoes(c, [at |-> "ack", message |-> s.message, next |-> s.next, held |-> s.held])
  /\ UNCHANGED <<rowVars, senderVars, connected, sent, late, marked, effects, faults>>

\* The copy is not confirmed, whether it arrived or not: the original is
\* requeued, if its channel is still there to take the nack.
MoveFails(c) ==
  LET s == slot[c]
      original == IF s.held THEN {s.message} ELSE {}
  IN
  /\ s.at = "move"
  /\ Fault
  /\ \/ Add(original) /\ UNCHANGED parked
     \/ /\ Add(original \cup Copies(s.message))
        /\ parked' = IF Parks(s.message) THEN parked \cup {s.message[1]} ELSE parked
  /\ SlotGoes(c, Free)
  /\ UNCHANGED <<rowVars, senderVars, connected, sent, late, marked, effects>>

\* The ack; one on a closed channel is refused and changes nothing.
Ack(c) ==
  /\ slot[c].at = "ack"
  /\ SlotGoes(c, Free)
  /\ UNCHANGED <<rowVars, senderVars, connected, brokerVars, marked, effects, parked, faults>>

Holding(m) == {c \in Slots : slot[c] # Free /\ slot[c].message = m /\ slot[c].held}
RedeliverHeld == queue' = [m \in Message |-> queue[m] + Cardinality(Holding(m))]

\* The channel closes: the broker delivers again what it held, while the
\* handlers at work go on.
ChannelCloses ==
  /\ Fault
  /\ RedeliverHeld
  /\ slot' = [c \in Slots |->
       IF slot[c] = Free THEN Free
       ELSE [at |-> slot[c].at, message |-> slot[c].message, next |-> slot[c].next, held |-> FALSE]]
  /\ UNCHANGED <<rowVars, senderVars, connected, sent, late, marked, effects, parked>>

ConsumerDies ==
  /\ Fault
  /\ RedeliverHeld
  /\ slot' = [c \in Slots |-> Free]
  /\ UNCHANGED <<rowVars, senderVars, connected, sent, late, marked, effects, parked>>

-----------------------------------------------------------------------------
FastStep(e) == StartFast(e) \/ CheckOlder(e) \/ FastSends(e) \/ FastMarks(e)
RelayStep == RelayReads \/ RelayNext \/ RelaySends \/ RelayMarks
SlotStep(c) == HandlerReturns(c) \/ HandlerThrows(c) \/ Move(c) \/ MoveFails(c) \/ Ack(c)

Next ==
  \/ \E e \in Events : Insert(e) \/ Commit(e) \/ RollBack(e) \/ FastStep(e) \/ ArrivesLate(e)
  \/ RelayStep
  \/ Disconnect \/ Reconnect \/ ProducerDies
  \/ \E c \in Slots : SlotStep(c) \/ \E m \in Message : Deliver(c, m)
  \/ ChannelCloses \/ ConsumerDies

Spec == Init /\ [][Next]_vars

\* Whatever runs goes on: the timer of the relay, the requests, the supervisor,
\* the broker and the handlers.
Fairness ==
  /\ \A e \in Events : WF_vars(FastStep(e))
  /\ WF_vars(RelayStep)
  /\ WF_vars(Reconnect)
  /\ \A c \in Slots : WF_vars(SlotStep(c)) /\ WF_vars(\E m \in Message : Deliver(c, m))

FairSpec == Spec /\ Fairness

-----------------------------------------------------------------------------
(* Properties                                                              *)

\* A newer event never overtakes an older one (outbox.ts: the relay stops its
\* batch at the first failure, the fast path yields to older rows): when the
\* broker first takes an event, it has taken all that were committed before the
\* event was written.
OlderFirst == \A e \in sent : before[e] \subseteq sent

\* The fast path and the relay never send one row at the same time: two copies
\* at once can both pass a consumer's own dedupe (inFlight).
OneSender == \A e \in Events : ~(FastInFlight(e) /\ RelayInFlight(e))

\* The abstract promise: no effect without the commit, none twice, and none of
\* a handler before the one registered ahead of it.
Promise == INSTANCE EffectOnce WITH committed <- Committed
ImplementsEffectOnce == Promise!Spec

\* What is committed takes effect in every handler or is parked, whatever
\* process died, connection closed or confirm was lost on the way.
Handled(e) == e \in parked \/ \A h \in Handlers : effects[e][h] > 0
CommittedIsHandled == \A e \in Events : row[e] = "waiting" ~> Handled(e)
=============================================================================
