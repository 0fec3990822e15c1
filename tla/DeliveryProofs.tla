--------------------------- MODULE DeliveryProofs ---------------------------
(***************************************************************************)
(* Proofs about Delivery, for any events, handlers, attempts, deliveries   *)
(* at work and faults.  First the sending side: types, and the order in    *)
(* which the broker first takes events.  Then the consuming side: the      *)
(* effects are those of EffectOnce.                                        *)
(***************************************************************************)
EXTENDS Delivery, FiniteSetTheorems, TLAPS

LEMMA TypeInit == Init => TypeOK
  BY CountAssumption DEF Init, TypeOK, RelayType, Resting, SlotType, Free, Handlers

\* What a slot goes on with is a delivery.
LEMMA SlotTyped ==
  ASSUME TypeOK, NEW c \in Slots, NEW s \in SlotType \cup {Free},
         s.at = "handle" => s.next \in Handlers, SlotGoes(c, s)
  PROVE  /\ slot' \in [Slots -> SlotType \cup {Free}]
         /\ \A d \in Slots : slot'[d].at = "handle" => slot'[d].next \in Handlers
  BY DEF TypeOK, SlotGoes

LEMMA Ends ==
  /\ Free.at # "handle"
  /\ Resting \in RelayType /\ Resting.at = "idle"
  BY DEF Free, Resting, RelayType

LEMMA ArrivesTyped ==
  ASSUME TypeOK, NEW e \in Events, Arrives(e)
  PROVE  sent' \subseteq Events /\ queue' \in [Message -> Nat]
  BY CountAssumption DEF TypeOK, Arrives, Message

LEMMA FaultTyped ==
  ASSUME TypeOK, Fault \/ UNCHANGED faults PROVE faults' \in 0 .. MaxFaults
  BY CountAssumption DEF TypeOK, Fault

LEMMA SendersTyped ==
  ASSUME TypeOK, NEW e \in Events,
         Insert(e) \/ Commit(e) \/ RollBack(e) \/ FastStep(e) \/ ArrivesLate(e)
  PROVE  TypeOK'
<1> USE DEF TypeOK, senderVars, brokerVars, consumerVars, rowVars
<1>1. CASE Insert(e)
  <2>1. Committed \subseteq Events
    BY DEF Committed
  <2>2. QED
    BY <1>1, <2>1 DEF Insert
<1>2. CASE Commit(e) \/ RollBack(e)
  BY <1>2 DEF Commit, RollBack
<1>3. CASE StartFast(e) \/ CheckOlder(e)
  BY <1>3 DEF StartFast, CheckOlder, FastGoes
<1>4. CASE FastSends(e)
  <2>1. fast' \in [Events -> {"off", "start", "check", "publish", "mark"}]
    BY <1>4 DEF FastSends, FastGoes
  <2>2. sent' \subseteq Events /\ late' \subseteq Events /\ queue' \in [Message -> Nat]
    BY <1>4, ArrivesTyped DEF FastSends, Confirmed, Unconfirmed
  <2>3. faults' \in 0 .. MaxFaults
    BY <1>4, FaultTyped DEF FastSends, Confirmed, Unconfirmed
  <2>4. QED
    BY <1>4, <2>1, <2>2, <2>3 DEF FastSends
<1>5. CASE FastMarks(e)
  <2>1. faults' \in 0 .. MaxFaults
    BY <1>5, FaultTyped DEF FastMarks
  <2>2. QED
    BY <1>5, <2>1 DEF FastMarks, FastGoes
<1>6. CASE ArrivesLate(e)
  BY <1>6, ArrivesTyped DEF ArrivesLate
<1>7. QED
  BY <1>1, <1>2, <1>3, <1>4, <1>5, <1>6 DEF FastStep

LEMMA RelayTyped ==
  ASSUME TypeOK, RelayStep PROVE TypeOK'
<1> USE DEF TypeOK, senderVars, brokerVars, consumerVars, rowVars
<1>1. CASE RelayReads
  <2>1. Waiting \subseteq Events
    BY DEF Waiting
  <2>2. QED
    BY <1>1, <2>1 DEF RelayReads, RelayGoes, RelayType
<1>2. CASE RelayNext
  <2>1. relay' \in RelayType /\ (relay'.at \in {"publish", "mark"} => relay'.head \in relay'.batch)
    BY <1>2, Ends DEF RelayNext, RelayGoes, RelayType, First
  <2>2. QED
    BY <1>2, <2>1 DEF RelayNext
<1>3. CASE RelaySends
  <2>1. relay.head \in Events
    BY <1>3 DEF RelaySends, RelayType
  <2>2. relay' \in RelayType /\ (relay'.at \in {"publish", "mark"} => relay'.head \in relay'.batch)
    BY <1>3, Ends DEF RelaySends, RelayGoes, RelayType
  <2>3. sent' \subseteq Events /\ late' \subseteq Events /\ queue' \in [Message -> Nat]
    BY <1>3, <2>1, ArrivesTyped DEF RelaySends, Confirmed, Unconfirmed
  <2>4. faults' \in 0 .. MaxFaults
    BY <1>3, FaultTyped DEF RelaySends, Confirmed, Unconfirmed
  <2>5. QED
    BY <1>3, <2>2, <2>3, <2>4 DEF RelaySends
<1>4. CASE RelayMarks
  <2>1. relay' \in RelayType /\ relay'.at \notin {"publish", "mark"}
    BY <1>4, Ends DEF RelayMarks, RelayGoes, RelayType
  <2>2. faults' \in 0 .. MaxFaults
    BY <1>4, FaultTyped DEF RelayMarks
  <2>3. QED
    BY <1>4, <2>1, <2>2 DEF RelayMarks
<1>5. QED
  BY <1>1, <1>2, <1>3, <1>4 DEF RelayStep

LEMMA MessagesTyped ==
  ASSUME TypeOK, NEW m \in Message
  PROVE  /\ m[1] \in Events /\ m[2] \in Nat
         /\ Copies(m) \subseteq Message
         /\ \A messages : Add(messages) => queue' \in [Message -> Nat]
         /\ RedeliverHeld => queue' \in [Message -> Nat]
<1>1. m[1] \in Events /\ m[2] \in 0 .. MaxAttempts - 1
  BY DEF Message
<1>2. Copies(m) \subseteq Message
  BY <1>1, CountAssumption DEF Copies, Parks, Attempts, Message
<1>3. \A messages : Add(messages) => queue' \in [Message -> Nat]
  BY DEF TypeOK, Add
<1>4. ASSUME RedeliverHeld PROVE queue' \in [Message -> Nat]
  <2>1. \A q \in Message : IsFiniteSet(Holding(q))
    BY SlotAssumption, FS_Subset DEF Holding
  <2>2. \A q \in Message : Cardinality(Holding(q)) \in Nat
    BY <2>1, FS_CardinalityType
  <2>3. QED
    BY <1>4, <2>2 DEF TypeOK, RedeliverHeld
<1>5. QED
  BY <1>1, <1>2, <1>3, <1>4, CountAssumption

LEMMA RunOnceTyped ==
  ASSUME TypeOK, NEW e \in Events, NEW h \in Handlers, RunOnce(e, h)
  PROVE  marked' \subseteq Events \X Handlers /\ effects' \in [Events -> [Handlers -> Nat]]
<1>1. effects[e] \in [Handlers -> Nat] /\ effects[e][h] + 1 \in Nat
  BY DEF TypeOK
<1>2. [effects[e] EXCEPT ![h] = effects[e][h] + 1] \in [Handlers -> Nat]
  BY <1>1
<1>3. QED
  BY <1>2 DEF TypeOK, RunOnce

\* A delivery at work is typed, and goes on typed with any step, position and channel.
LEMMA DeliveryTyped ==
  ASSUME TypeOK, NEW c \in Slots, slot[c] # Free
  PROVE  /\ slot[c] \in SlotType
         /\ slot[c].message \in Message
         /\ slot[c].next \in 1 .. HandlerCount + 1
         /\ slot[c].held \in BOOLEAN
         /\ slot[c].at = "handle" => slot[c].next \in Handlers
  BY DEF TypeOK, SlotType

LEMMA SlotsTyped ==
  ASSUME TypeOK, NEW c \in Slots, SlotStep(c) PROVE TypeOK'
<1> USE DEF senderVars, brokerVars, consumerVars, rowVars
<1> DEFINE s == slot[c]
<1>1. s # Free
  BY DEF SlotStep, HandlerReturns, HandlerThrows, Move, MoveFails, Ack, Free
<1>2. /\ s \in SlotType /\ s.message \in Message /\ s.message[1] \in Events
      /\ s.next \in 1 .. HandlerCount + 1 /\ s.held \in BOOLEAN
      /\ s.at = "handle" => s.next \in Handlers
  BY <1>1, DeliveryTyped, MessagesTyped
<1> HIDE DEF s
<1>3. CASE HandlerReturns(c)
  <2> DEFINE on == [at |-> IF Last(s.next) THEN "ack" ELSE "handle",
                    message |-> s.message, next |-> s.next + 1, held |-> s.held]
  <2>1. s.at = "handle" /\ RunOnce(s.message[1], s.next) /\ SlotGoes(c, on)
    BY <1>3 DEF HandlerReturns, s
  <2>2. on \in SlotType /\ (on.at = "handle" => on.next \in Handlers)
    BY <1>2, <2>1, CountAssumption DEF SlotType, Last, Handlers
  <2> HIDE DEF on
  <2>3. /\ slot' \in [Slots -> SlotType \cup {Free}]
        /\ \A d \in Slots : slot'[d].at = "handle" => slot'[d].next \in Handlers
    BY <2>1, <2>2, SlotTyped
  <2>4. marked' \subseteq Events \X Handlers /\ effects' \in [Events -> [Handlers -> Nat]]
    BY <1>2, <2>1, RunOnceTyped
  <2>5. QED
    BY <1>3, <2>3, <2>4 DEF HandlerReturns, TypeOK
<1>4. CASE HandlerThrows(c)
  <2> DEFINE on == [at |-> "move", message |-> s.message, next |-> s.next, held |-> s.held]
  <2>1. s.at = "handle" /\ (RunOnce(s.message[1], s.next) \/ UNCHANGED <<marked, effects>>) /\ SlotGoes(c, on)
    BY <1>4 DEF HandlerThrows, s
  <2>2. on \in SlotType /\ on.at = "move"
    BY <1>2 DEF SlotType
  <2> HIDE DEF on
  <2>3. /\ slot' \in [Slots -> SlotType \cup {Free}]
        /\ \A d \in Slots : slot'[d].at = "handle" => slot'[d].next \in Handlers
    BY <2>1, <2>2, SlotTyped
  <2>4. marked' \subseteq Events \X Handlers /\ effects' \in [Events -> [Handlers -> Nat]]
    BY <1>2, <2>1, RunOnceTyped DEF TypeOK
  <2>5. QED
    BY <1>4, <2>3, <2>4 DEF HandlerThrows, TypeOK
<1>5. CASE Move(c)
  <2> DEFINE on == [at |-> "ack", message |-> s.message, next |-> s.next, held |-> s.held]
  <2>1. SlotGoes(c, on)
    BY <1>5 DEF Move, s
  <2>2. on \in SlotType /\ on.at = "ack"
    BY <1>2 DEF SlotType
  <2> HIDE DEF on
  <2>3. /\ slot' \in [Slots -> SlotType \cup {Free}]
        /\ \A d \in Slots : slot'[d].at = "handle" => slot'[d].next \in Handlers
    BY <2>1, <2>2, SlotTyped
  <2>4. queue' \in [Message -> Nat] /\ parked' \subseteq Events
    BY <1>2, <1>5, MessagesTyped DEF Move, s, TypeOK
  <2>5. QED
    BY <1>5, <2>3, <2>4 DEF Move, TypeOK
<1>6. CASE MoveFails(c)
  <2>1. /\ slot' \in [Slots -> SlotType \cup {Free}]
        /\ \A d \in Slots : slot'[d].at = "handle" => slot'[d].next \in Handlers
    BY <1>6, SlotTyped, Ends DEF MoveFails
  <2>2. queue' \in [Message -> Nat] /\ parked' \subseteq Events
    BY <1>2, <1>6, MessagesTyped DEF MoveFails, s, TypeOK
  <2>3. faults' \in 0 .. MaxFaults
    BY <1>6, FaultTyped DEF MoveFails
  <2>4. QED
    BY <1>6, <2>1, <2>2, <2>3 DEF MoveFails, TypeOK
<1>7. CASE Ack(c)
  <2>1. /\ slot' \in [Slots -> SlotType \cup {Free}]
        /\ \A d \in Slots : slot'[d].at = "handle" => slot'[d].next \in Handlers
    BY <1>7, SlotTyped, Ends DEF Ack
  <2>2. QED
    BY <1>7, <2>1 DEF Ack, TypeOK
<1>8. QED
  BY <1>3, <1>4, <1>5, <1>6, <1>7 DEF SlotStep

LEMMA TypeKept ==
  ASSUME TypeOK, [Next]_vars PROVE TypeOK'
<1> USE DEF senderVars, brokerVars, consumerVars, rowVars
<1>1. ASSUME NEW e \in Events, Insert(e) \/ Commit(e) \/ RollBack(e) \/ FastStep(e) \/ ArrivesLate(e) PROVE TypeOK'
  BY <1>1, SendersTyped
<1>2. CASE RelayStep
  BY <1>2, RelayTyped
<1>3. CASE Disconnect \/ Reconnect
  <2>1. faults' \in 0 .. MaxFaults
    BY <1>3, FaultTyped DEF Disconnect, Reconnect
  <2>2. QED
    BY <1>3, <2>1 DEF Disconnect, Reconnect, TypeOK
<1>4. CASE ProducerDies
  <2>1. faults' \in 0 .. MaxFaults
    BY <1>4, FaultTyped DEF ProducerDies
  <2>2. QED
    BY <1>4, <2>1, Ends DEF ProducerDies, TypeOK
<1>5. ASSUME NEW c \in Slots, SlotStep(c) PROVE TypeOK'
  BY <1>5, SlotsTyped
<1>6. ASSUME NEW c \in Slots, NEW m \in Message, Deliver(c, m) PROVE TypeOK'
  <2> DEFINE on == [at |-> "handle", message |-> m, next |-> 1, held |-> TRUE]
  <2>1. on \in SlotType /\ on.next \in Handlers
    BY CountAssumption DEF SlotType, Handlers
  <2>2. SlotGoes(c, on)
    BY <1>6 DEF Deliver
  <2> HIDE DEF on
  <2>3. /\ slot' \in [Slots -> SlotType \cup {Free}]
        /\ \A d \in Slots : slot'[d].at = "handle" => slot'[d].next \in Handlers
    BY <2>1, <2>2, SlotTyped
  <2>4. queue' \in [Message -> Nat]
    BY <1>6 DEF Deliver, TypeOK
  <2>5. QED
    BY <1>6, <2>3, <2>4 DEF Deliver, TypeOK
<1>7. CASE ChannelCloses \/ ConsumerDies
  <2>1. faults' \in 0 .. MaxFaults
    BY <1>7, FaultTyped DEF ChannelCloses, ConsumerDies
  <2>2. queue' \in [Message -> Nat]
    <3>1. \A q \in Message : IsFiniteSet(Holding(q))
      BY SlotAssumption, FS_Subset DEF Holding
    <3>2. \A q \in Message : Cardinality(Holding(q)) \in Nat
      BY <3>1, FS_CardinalityType
    <3>3. QED
      BY <1>7, <3>2 DEF ChannelCloses, ConsumerDies, RedeliverHeld, TypeOK
  <2>3. /\ slot' \in [Slots -> SlotType \cup {Free}]
        /\ \A d \in Slots : slot'[d].at = "handle" => slot'[d].next \in Handlers
    <3>1. CASE ConsumerDies
      BY <3>1, Ends DEF ConsumerDies
    <3>2. CASE ChannelCloses
      <4> DEFINE closed(d) == [at |-> slot[d].at, message |-> slot[d].message, next |-> slot[d].next, held |-> FALSE]
      <4>1. \A d \in Slots : slot[d] # Free => closed(d) \in SlotType /\ (closed(d).at = "handle" => closed(d).next \in Handlers)
        BY DeliveryTyped DEF SlotType
      <4>2. slot' = [d \in Slots |-> IF slot[d] = Free THEN Free ELSE closed(d)]
        BY <3>2 DEF ChannelCloses
      <4> HIDE DEF closed
      <4>3. QED
        BY <4>1, <4>2, Ends
    <3>3. QED
      BY <1>7, <3>1, <3>2
  <2>4. QED
    BY <1>7, <2>1, <2>2, <2>3 DEF ChannelCloses, ConsumerDies, TypeOK
<1>8. CASE UNCHANGED vars
  BY <1>8 DEF vars, TypeOK
<1>9. QED
  BY <1>1, <1>2, <1>3, <1>4, <1>5, <1>6, <1>7, <1>8 DEF Next

\* Rows, senders, copies and deliveries keep their types; in particular a tick
\* sends a row of its batch, and a delivery runs a handler that exists.
THEOREM TypeCorrect == Spec => []TypeOK
<1>1. TypeOK /\ [Next]_vars => TypeOK'
  BY TypeKept
<1>2. QED
  BY <1>1, TypeInit, PTL DEF Spec

-----------------------------------------------------------------------------
(* The order of sending.  Times of the rows agree with what was committed  *)
(* when, and whoever sends a row knows that what is older was sent, or is  *)
(* in front of it in the batch.                                            *)

RowsAgree ==
  \A e \in Events :
    /\ row[e] = "none" => before[e] = {}
    /\ row[e] # "none" => created[e] < clock
    /\ row[e] = "published" => e \in sent
    /\ fast[e] # "off" => e \in Committed
    /\ before[e] \subseteq Committed
    /\ \A d \in before[e] : created[d] < created[e]

SendersKnow ==
  /\ \A e \in Events : fast[e] = "publish" => before[e] \subseteq sent
  /\ \A e \in Events : fast[e] = "mark" => e \in sent
  /\ \A e \in late : e \in Committed /\ before[e] \subseteq sent
  /\ relay.batch \subseteq Committed
  /\ \A e \in relay.batch : before[e] \subseteq sent \cup relay.batch
  /\ relay.at \in {"publish", "mark"} => First(relay.head, relay.batch)
  /\ relay.at = "mark" => relay.head \in sent

OrderInv == TypeOK /\ RowsAgree /\ SendersKnow /\ OlderFirst /\ sent \subseteq Committed

LEMMA OrderInit == Init => OrderInv
  BY TypeInit DEF Init, OrderInv, RowsAgree, SendersKnow, OlderFirst, Committed, Resting

\* A step of the consumer leaves the sending side alone.
LEMMA ConsumerLeaves ==
  ASSUME (\E c \in Slots : SlotStep(c) \/ \E m \in Message : Deliver(c, m)) \/ ChannelCloses \/ ConsumerDies
         \/ Disconnect \/ Reconnect \/ UNCHANGED vars
  PROVE  UNCHANGED <<rowVars, senderVars, sent, late>>
  BY DEF SlotStep, HandlerReturns, HandlerThrows, Move, MoveFails, Ack, Deliver, ChannelCloses, ConsumerDies,
         Disconnect, Reconnect, vars, rowVars, senderVars, brokerVars, consumerVars

LEMMA OrderKept ==
  ASSUME OrderInv, [Next]_vars PROVE OrderInv'
<1>1. TypeOK'
  BY TypeKept DEF OrderInv
<1> SUFFICES RowsAgree' /\ SendersKnow' /\ OlderFirst' /\ (sent \subseteq Committed)'
  BY <1>1 DEF OrderInv
<1> USE DEF OrderInv, RowsAgree, SendersKnow, OlderFirst, Committed, rowVars, senderVars, brokerVars, consumerVars
<1>2. ASSUME NEW e \in Events, Insert(e) PROVE RowsAgree' /\ SendersKnow' /\ OlderFirst' /\ (sent \subseteq Committed)'
  <2>1. /\ \A d \in Events \ {e} : row'[d] = row[d] /\ created'[d] = created[d] /\ before'[d] = before[d]
        /\ row[e] = "none" /\ row'[e] = "open" /\ created'[e] = clock /\ before'[e] = Committed /\ clock' = clock + 1
        /\ UNCHANGED <<fast, relay, sent, late>>
    BY <1>2 DEF Insert, TypeOK
  <2>2. e \notin Committed /\ Committed' = Committed
    BY <2>1
  <2>3. \A d \in Events : created[d] \in Nat /\ clock \in Nat
    BY DEF TypeOK
  <2>4. RowsAgree'
    BY <2>1, <2>2, <2>3
  <2>5. \A d \in Committed : created'[d] = created[d] /\ before'[d] = before[d]
    BY <2>1, <2>2
  <2>6. SendersKnow'
    BY <2>1, <2>2, <2>5 DEF First
  <2>7. QED
    BY <2>1, <2>2, <2>4, <2>5, <2>6
<1>3. ASSUME NEW e \in Events, Commit(e) \/ RollBack(e)
      PROVE  RowsAgree' /\ SendersKnow' /\ OlderFirst' /\ (sent \subseteq Committed)'
  <2>1. /\ \A d \in Events \ {e} : row'[d] = row[d] /\ fast'[d] = fast[d]
        /\ row[e] = "open" /\ row'[e] \in {"waiting", "rolled_back"}
        /\ row'[e] = "waiting" \/ fast'[e] = fast[e]
        /\ fast'[e] \in {"start", fast[e]}
        /\ UNCHANGED <<clock, created, before, relay, sent, late>>
    BY <1>3 DEF Commit, RollBack, TypeOK
  <2>2. Committed \subseteq Committed'
    BY <2>1
  <2>3. RowsAgree'
    BY <2>1, <2>2
  <2>4. SendersKnow'
    BY <2>1, <2>2 DEF First
  <2>5. QED
    BY <2>1, <2>2, <2>3, <2>4
<1>4. ASSUME NEW e \in Events, FastStep(e) PROVE RowsAgree' /\ SendersKnow' /\ OlderFirst' /\ (sent \subseteq Committed)'
  <2>1. CASE StartFast(e)
    BY <2>1 DEF StartFast, FastGoes, TypeOK, First
  <2>2. CASE CheckOlder(e)
    <3>1. NothingOlder(e) => before[e] \subseteq sent
      BY DEF NothingOlder, Older, Waiting
    <3>2. QED
      BY <2>2, <3>1 DEF CheckOlder, FastGoes, TypeOK, First
  <2>3. CASE FastSends(e)
    <3>1. /\ \A d \in Events \ {e} : fast'[d] = fast[d]
          /\ fast[e] = "publish" /\ fast'[e] \in {"mark", "off"}
          /\ sent' = sent \cup {e} \/ (sent' = sent /\ fast'[e] = "off")
          /\ late' \in {late, late \cup {e}}
          /\ UNCHANGED <<rowVars, relay>>
      BY <2>3 DEF FastSends, Confirmed, Unconfirmed, Arrives, FastGoes, TypeOK
    <3>2. before[e] \subseteq sent /\ e \in Committed /\ Committed' = Committed
      BY <3>1
    <3>3. RowsAgree'
      BY <3>1, <3>2
    <3>4. SendersKnow'
      BY <3>1, <3>2 DEF First
    <3>5. QED
      BY <3>1, <3>2, <3>3, <3>4
  <2>4. CASE FastMarks(e)
    <3>1. /\ \A d \in Events \ {e} : row'[d] = row[d] /\ fast'[d] = fast[d]
          /\ fast[e] = "mark" /\ fast'[e] = "off" /\ row'[e] \in {"published", row[e]}
          /\ UNCHANGED <<clock, created, before, relay, sent, late>>
      BY <2>4 DEF FastMarks, FastGoes, TypeOK
    <3>2. e \in sent /\ e \in Committed /\ Committed' = Committed
      BY <3>1
    <3>3. RowsAgree'
      BY <3>1, <3>2
    <3>4. SendersKnow'
      BY <3>1, <3>2 DEF First
    <3>5. QED
      BY <3>1, <3>2, <3>3, <3>4
  <2>5. QED
    BY <1>4, <2>1, <2>2, <2>3, <2>4 DEF FastStep
<1>5. CASE RelayStep
  <2>1. CASE RelayReads
    BY <2>1 DEF RelayReads, RelayGoes, Waiting, TypeOK
  <2>2. CASE RelayNext
    BY <2>2 DEF RelayNext, RelayGoes, Resting, First
  <2>3. CASE RelaySends
    <3>1. relay.head \in relay.batch /\ before[relay.head] \subseteq sent
      BY <2>3 DEF RelaySends, First, TypeOK
    <3>2. QED
      BY <2>3, <3>1 DEF RelaySends, Confirmed, Unconfirmed, Arrives, RelayGoes, Resting, TypeOK, First
  <2>4. CASE RelayMarks
    <3>1. /\ relay.head \in sent /\ relay.head \in relay.batch /\ relay.batch \subseteq Committed
          /\ \A d \in Events \ {relay.head} : row'[d] = row[d]
          /\ row'[relay.head] \in {"published", row[relay.head]}
          /\ UNCHANGED <<clock, created, before, fast, sent, late>>
      BY <2>4 DEF RelayMarks, TypeOK, First
    <3>2. relay' = [at |-> "next", batch |-> relay.batch \ {relay.head}, head |-> None] \/ relay' = Resting
      BY <2>4 DEF RelayMarks, RelayGoes
    <3>3. Committed' = Committed
      BY <3>1
    <3>4. RowsAgree'
      BY <3>1, <3>3
    <3>5. SendersKnow'
      BY <3>1, <3>2, <3>3 DEF Resting
    <3>6. QED
      BY <3>1, <3>3, <3>4, <3>5
  <2>5. QED
    BY <1>5, <2>1, <2>2, <2>3, <2>4 DEF RelayStep
<1>6. CASE ProducerDies
  BY <1>6 DEF ProducerDies, Resting, TypeOK, First
<1>7. CASE UNCHANGED <<rowVars, senderVars, sent, late>>
  BY <1>7 DEF First
<1>8. ASSUME NEW e \in Events, ArrivesLate(e) PROVE RowsAgree' /\ SendersKnow' /\ OlderFirst' /\ (sent \subseteq Committed)'
  <2>1. /\ sent' = sent \cup {e} /\ late' = late \ {e} /\ UNCHANGED <<rowVars, senderVars>>
        /\ e \in Committed /\ before[e] \subseteq sent /\ Committed' = Committed
    BY <1>8 DEF ArrivesLate, Arrives
  <2>2. QED
    BY <2>1 DEF First
<1>9. QED
  BY <1>2, <1>3, <1>4, <1>5, <1>6, <1>7, <1>8, ConsumerLeaves DEF Next

\* Whatever transactions overlap and whoever sends: an event reaches the broker
\* after everything that was committed before it was written.
THEOREM OlderReachFirst == Spec => []OlderFirst
<1>1. OrderInv /\ [Next]_vars => OrderInv'
  BY OrderKept
<1>2. OrderInv => OlderFirst
  BY DEF OrderInv
<1>3. QED
  BY <1>1, <1>2, OrderInit, PTL DEF Spec

-----------------------------------------------------------------------------
(* inFlight *)

LEMMA OneSenderKept ==
  ASSUME TypeOK, OneSender, [Next]_vars PROVE OneSender'
<1> USE DEF OneSender, FastInFlight, RelayInFlight, rowVars, senderVars, brokerVars, consumerVars, TypeOK
<1>1. ASSUME NEW e \in Events, Insert(e) \/ Commit(e) \/ RollBack(e) \/ ArrivesLate(e) PROVE OneSender'
  BY <1>1 DEF Insert, Commit, RollBack, ArrivesLate
<1>2. ASSUME NEW e \in Events, FastStep(e) PROVE OneSender'
  <2>1. CASE StartFast(e)
    BY <2>1 DEF StartFast, MayStart, FastGoes
  <2>2. CASE CheckOlder(e) \/ FastSends(e) \/ FastMarks(e)
    BY <2>2 DEF CheckOlder, FastSends, FastMarks, FastGoes
  <2>3. QED
    BY <1>2, <2>1, <2>2 DEF FastStep
<1>3. CASE RelayStep
  BY <1>3 DEF RelayStep, RelayReads, RelayNext, RelaySends, RelayMarks, RelayGoes, Resting
<1>4. CASE ProducerDies
  BY <1>4 DEF ProducerDies, Resting
<1>5. CASE UNCHANGED <<rowVars, senderVars, sent, late>>
  BY <1>5
<1>6. QED
  BY <1>1, <1>2, <1>3, <1>4, <1>5, ConsumerLeaves DEF Next

\* No row is with the fast path and the relay at once.
THEOREM NeverTwoSenders == Spec => []OneSender
<1>1. Init => TypeOK /\ OneSender
  BY TypeInit DEF Init, OneSender, FastInFlight
<1>2. TypeOK /\ OneSender /\ [Next]_vars => TypeOK' /\ OneSender'
  BY TypeKept, OneSenderKept
<1>3. QED
  BY <1>1, <1>2, PTL DEF Spec

-----------------------------------------------------------------------------
(* The effects.  A marker and the effect beside it are one, handlers marked*)
(* are a prefix of the list, and copies are of events the broker took.     *)

MarkersCount ==
  \A e \in Events : \A h \in Handlers : effects[e][h] = IF <<e, h>> \in marked THEN 1 ELSE 0

CopiesWereSent ==
  /\ \A m \in Message : queue[m] > 0 => m[1] \in sent
  /\ \A c \in Slots : slot[c] # Free =>
       /\ slot[c].message[1] \in sent
       /\ \A h \in Handlers : h < slot[c].next => <<slot[c].message[1], h>> \in marked

EffectInv == OrderInv /\ MarkersCount /\ CopiesWereSent

LEMMA EffectInit == Init => EffectInv
  BY OrderInit DEF Init, EffectInv, MarkersCount, CopiesWereSent, OrderInv, TypeOK

\* What a handler commits, whether it goes on to return or to throw.
LEMMA RunOnceCounts ==
  ASSUME TypeOK, MarkersCount, NEW e \in Events, NEW h \in Handlers, RunOnce(e, h)
  PROVE  /\ MarkersCount'
         /\ marked' = marked \cup {<<e, h>>}
         /\ effects' = effects \/ (effects[e][h] = 0 /\ effects' = [effects EXCEPT ![e] = [effects[e] EXCEPT ![h] = 1]])
<1>1. /\ effects \in [Events -> [Handlers -> Nat]]
      /\ marked' = marked \cup {<<e, h>>}
  BY DEF TypeOK, RunOnce
<1>2. CASE <<e, h>> \in marked
  BY <1>1, <1>2 DEF RunOnce, Ran, MarkersCount
<1>3. CASE <<e, h>> \notin marked
  <2>1. effects[e][h] = 0
    BY <1>3 DEF MarkersCount
  <2>2. effects' = [effects EXCEPT ![e] = [effects[e] EXCEPT ![h] = 1]]
    BY <1>3, <2>1 DEF RunOnce, Ran
  <2>3. MarkersCount'
    BY <1>1, <1>3, <2>2 DEF MarkersCount
  <2>4. QED
    BY <1>1, <2>1, <2>2, <2>3
<1>4. QED
  BY <1>2, <1>3

LEMMA EffectKept ==
  ASSUME EffectInv, [Next]_vars PROVE EffectInv'
<1>1. OrderInv' /\ TypeOK /\ TypeOK'
  BY OrderKept DEF EffectInv, OrderInv
<1> SUFFICES MarkersCount' /\ CopiesWereSent'
  BY <1>1 DEF EffectInv
<1> USE DEF EffectInv, CopiesWereSent, rowVars, senderVars, brokerVars, consumerVars
<1>2. ASSUME NEW e \in Events, Arrives(e), UNCHANGED <<slot, marked, effects>> PROVE MarkersCount' /\ CopiesWereSent'
  BY <1>1, <1>2 DEF Arrives, MarkersCount, TypeOK, Message
<1>3. ASSUME UNCHANGED <<sent, queue, slot, marked, effects>> PROVE MarkersCount' /\ CopiesWereSent'
  BY <1>3 DEF MarkersCount
<1>4. ASSUME NEW e \in Events, Insert(e) \/ Commit(e) \/ RollBack(e) \/ FastStep(e) \/ ArrivesLate(e)
      PROVE  MarkersCount' /\ CopiesWereSent'
  BY <1>2, <1>3, <1>4 DEF Insert, Commit, RollBack, FastStep, StartFast, CheckOlder, FastSends, FastMarks,
                          Confirmed, Unconfirmed, ArrivesLate
<1>5. CASE RelayStep
  <2>1. relay.at = "publish" => relay.head \in Events
    BY <1>1 DEF TypeOK, RelayType
  <2>2. QED
    BY <1>2, <1>3, <1>5, <2>1 DEF RelayStep, RelayReads, RelayNext, RelaySends, RelayMarks, Confirmed, Unconfirmed
<1>6. CASE Disconnect \/ Reconnect \/ ProducerDies \/ UNCHANGED vars
  BY <1>3, <1>6 DEF Disconnect, Reconnect, ProducerDies, vars
<1>7. ASSUME NEW c \in Slots, SlotStep(c) PROVE MarkersCount' /\ CopiesWereSent'
  <2> DEFINE s == slot[c]
  <2>1. /\ s # Free /\ s \in SlotType /\ s.message \in Message /\ s.message[1] \in Events
        /\ s.next \in 1 .. HandlerCount + 1
        /\ s.at = "handle" => s.next \in Handlers
        /\ s.message[1] \in sent
        /\ \A h \in Handlers : h < s.next => <<s.message[1], h>> \in marked
    <3>1. s # Free
      BY <1>7 DEF SlotStep, HandlerReturns, HandlerThrows, Move, MoveFails, Ack, Free
    <3>2. QED
      BY <1>1, <3>1, DeliveryTyped, MessagesTyped
  <2>2. \A m \in Copies(s.message) : m[1] = s.message[1]
    BY DEF Copies
  <2> HIDE DEF s
  <2>3. CASE HandlerReturns(c)
    <3>1. /\ RunOnce(s.message[1], s.next) /\ s.next \in Handlers /\ UNCHANGED <<sent, queue>>
          /\ slot' = [slot EXCEPT ![c] = [at |-> IF Last(s.next) THEN "ack" ELSE "handle",
                        message |-> s.message, next |-> s.next + 1, held |-> s.held]]
      BY <2>1, <2>3 DEF HandlerReturns, SlotGoes, s
    <3>2. MarkersCount' /\ marked' = marked \cup {<<s.message[1], s.next>>}
      BY <1>1, <2>1, <3>1, RunOnceCounts
    <3>3. \A h \in Handlers : h < s.next + 1 => h < s.next \/ h = s.next
      BY <3>1 DEF Handlers
    <3>4. QED
      BY <1>1, <2>1, <3>1, <3>2, <3>3 DEF TypeOK
  <2>4. CASE HandlerThrows(c)
    <3>1. /\ RunOnce(s.message[1], s.next) \/ UNCHANGED <<marked, effects>>
          /\ s.next \in Handlers /\ UNCHANGED <<sent, queue>>
          /\ slot' = [slot EXCEPT ![c] = [at |-> "move", message |-> s.message, next |-> s.next, held |-> s.held]]
      BY <2>1, <2>4 DEF HandlerThrows, SlotGoes, s
    <3>2. MarkersCount' /\ marked \subseteq marked'
      BY <1>1, <2>1, <3>1, RunOnceCounts DEF MarkersCount
    <3>3. QED
      BY <1>1, <2>1, <3>1, <3>2 DEF TypeOK
  <2>5. CASE Move(c)
    <3>1. /\ Add(Copies(s.message)) /\ UNCHANGED <<sent, marked, effects>>
          /\ slot' = [slot EXCEPT ![c] = [at |-> "ack", message |-> s.message, next |-> s.next, held |-> s.held]]
      BY <2>5 DEF Move, SlotGoes, s
    <3>2. QED
      BY <1>1, <2>1, <2>2, <3>1 DEF Add, TypeOK, MarkersCount
  <2>6. CASE MoveFails(c)
    <3>1. /\ \E messages : Add(messages) /\ messages \subseteq {s.message} \cup Copies(s.message)
          /\ slot' = [slot EXCEPT ![c] = Free] /\ UNCHANGED <<sent, marked, effects>>
      BY <2>6 DEF MoveFails, SlotGoes, s
    <3>2. \A m \in Message : queue'[m] > 0 => queue[m] > 0 \/ m = s.message \/ m \in Copies(s.message)
      BY <3>1 DEF Add
    <3>3. \A m \in Message : queue'[m] > 0 => m[1] \in sent'
      BY <2>1, <2>2, <3>1, <3>2
    <3>4. QED
      BY <1>1, <3>1, <3>3 DEF TypeOK, MarkersCount
  <2>7. CASE Ack(c)
    BY <1>1, <2>7 DEF Ack, SlotGoes, TypeOK, MarkersCount
  <2>8. QED
    BY <1>7, <2>3, <2>4, <2>5, <2>6, <2>7 DEF SlotStep
<1>8. ASSUME NEW c \in Slots, NEW m \in Message, Deliver(c, m) PROVE MarkersCount' /\ CopiesWereSent'
  <2>1. /\ queue' = [queue EXCEPT ![m] = queue[m] - 1] /\ queue[m] > 0 /\ UNCHANGED <<sent, marked, effects>>
        /\ slot' = [slot EXCEPT ![c] = [at |-> "handle", message |-> m, next |-> 1, held |-> TRUE]]
    BY <1>8 DEF Deliver, SlotGoes
  <2>2. \A h \in Handlers : ~(h < 1)
    BY DEF Handlers
  <2>3. QED
    BY <1>1, <2>1, <2>2 DEF TypeOK, MarkersCount
<1>9. CASE ChannelCloses \/ ConsumerDies
  <2>1. \A q \in Message : Cardinality(Holding(q)) > 0 => \E c \in Slots : slot[c] # Free /\ slot[c].message = q
    <3> SUFFICES ASSUME NEW q \in Message, Cardinality(Holding(q)) > 0
                 PROVE  \E c \in Slots : slot[c] # Free /\ slot[c].message = q
      OBVIOUS
    <3>1. Holding(q) # {}
      BY FS_EmptySet
    <3>2. QED
      BY <3>1 DEF Holding
  <2>2. \A q \in Message : Cardinality(Holding(q)) \in Nat
    <3>1. \A q \in Message : IsFiniteSet(Holding(q))
      BY SlotAssumption, FS_Subset DEF Holding
    <3>2. QED
      BY <3>1, FS_CardinalityType
  <2>3. \A q \in Message : queue'[q] > 0 => q[1] \in sent'
    BY <1>1, <1>9, <2>1, <2>2 DEF ChannelCloses, ConsumerDies, RedeliverHeld, TypeOK
  <2>4. \A c \in Slots : slot'[c] # Free =>
          slot[c] # Free /\ slot'[c].message = slot[c].message /\ slot'[c].next = slot[c].next
    BY <1>9 DEF ChannelCloses, ConsumerDies
  <2>5. QED
    BY <1>9, <2>3, <2>4 DEF ChannelCloses, ConsumerDies, MarkersCount
<1>10. QED
  BY <1>4, <1>5, <1>6, <1>7, <1>8, <1>9 DEF Next

-----------------------------------------------------------------------------
(* The refinement: commits are commits, a handler's transaction applies or *)
(* stutters, parking gives up.                                             *)

\* A step that leaves rows, effects and parked messages alone is no step of the promise.
LEMMA PromiseStutters ==
  ASSUME UNCHANGED <<row, effects, parked>> PROVE UNCHANGED Promise!vars
  BY DEF Promise!vars, Committed

LEMMA PromiseInit == Init => Promise!Init
  BY DEF Init, Promise!Init, Committed, Promise!Handlers, Handlers

\* What a handler commits is allowed by the promise.
LEMMA PromiseApplies ==
  ASSUME EffectInv, NEW e \in Events, NEW h \in Handlers, RunOnce(e, h), e \in sent,
         \A g \in Handlers : g < h => <<e, g>> \in marked, UNCHANGED <<row, parked>>
  PROVE  Promise!Apply(e, h) \/ UNCHANGED Promise!vars
<1>1. effects' = effects \/ (effects[e][h] = 0 /\ effects' = [effects EXCEPT ![e] = [effects[e] EXCEPT ![h] = 1]])
  BY RunOnceCounts DEF EffectInv, OrderInv
<1>2. e \in Committed /\ Committed' = Committed
  BY DEF EffectInv, OrderInv, Committed
<1>3. \A g \in Handlers : g < h => effects[e][g] = 1
  BY DEF EffectInv, MarkersCount
<1>4. CASE effects' = effects
  BY <1>2, <1>4 DEF Promise!vars
<1>5. CASE effects[e][h] = 0 /\ effects' = [effects EXCEPT ![e] = [effects[e] EXCEPT ![h] = 1]]
  BY <1>2, <1>3, <1>5 DEF Promise!Apply, Promise!Handlers, Handlers
<1>6. QED
  BY <1>1, <1>4, <1>5

LEMMA PromiseStep ==
  ASSUME EffectInv, [Next]_vars PROVE [Promise!Next]_Promise!vars
<1> USE DEF rowVars, senderVars, brokerVars, consumerVars
<1>1. ASSUME UNCHANGED <<effects, parked>>, Committed' = Committed PROVE UNCHANGED Promise!vars
  BY <1>1 DEF Promise!vars
<1>2. ASSUME NEW e \in Events, Insert(e) \/ RollBack(e) \/ ArrivesLate(e) PROVE UNCHANGED Promise!vars
  <2>1. Committed' = Committed
    BY <1>2 DEF Insert, RollBack, ArrivesLate, Committed, EffectInv, OrderInv, TypeOK
  <2>2. QED
    BY <1>1, <1>2, <2>1 DEF Insert, RollBack, ArrivesLate
<1>3. ASSUME NEW e \in Events, Commit(e) PROVE Promise!Commit(e)
  <2>1. Committed' = Committed \cup {e}
    BY <1>3 DEF Commit, Committed, EffectInv, OrderInv, TypeOK
  <2>2. QED
    BY <1>3, <2>1 DEF Commit, Promise!Commit
<1>4. ASSUME NEW e \in Events, FastStep(e) PROVE UNCHANGED Promise!vars
  <2>1. CASE FastMarks(e)
    <3>1. e \in Committed
      BY <2>1 DEF FastMarks, EffectInv, OrderInv, RowsAgree
    <3>2. Committed' = Committed
      BY <2>1, <3>1 DEF FastMarks, Committed, EffectInv, OrderInv, TypeOK
    <3>3. QED
      BY <1>1, <2>1, <3>2 DEF FastMarks
  <2>2. CASE StartFast(e) \/ CheckOlder(e) \/ FastSends(e)
    BY <2>2, PromiseStutters DEF StartFast, CheckOlder, FastSends
  <2>3. QED
    BY <1>4, <2>1, <2>2 DEF FastStep
<1>5. ASSUME RelayStep PROVE UNCHANGED Promise!vars
  <2>1. CASE RelayMarks
    <3>1. relay.head \in Committed
      BY <2>1 DEF RelayMarks, EffectInv, OrderInv, SendersKnow, First
    <3>2. Committed' = Committed
      BY <2>1, <3>1 DEF RelayMarks, Committed, EffectInv, OrderInv, TypeOK
    <3>3. QED
      BY <1>1, <2>1, <3>2 DEF RelayMarks
  <2>2. CASE RelayReads \/ RelayNext \/ RelaySends
    BY <2>2, PromiseStutters DEF RelayReads, RelayNext, RelaySends
  <2>3. QED
    BY <1>5, <2>1, <2>2 DEF RelayStep
<1>6. ASSUME ProducerDies PROVE UNCHANGED Promise!vars
  <2>1. Committed' = Committed
    BY <1>6 DEF ProducerDies, Committed, EffectInv, OrderInv, TypeOK
  <2>2. QED
    BY <1>1, <1>6, <2>1 DEF ProducerDies
<1>7. ASSUME NEW c \in Slots, SlotStep(c)
      PROVE  UNCHANGED Promise!vars \/ \E e \in Events : Promise!GiveUp(e) \/ \E h \in Handlers : Promise!Apply(e, h)
  <2> DEFINE s == slot[c]
  <2>1. /\ s.message[1] \in Events /\ s.message[1] \in sent
        /\ s.at = "handle" => s.next \in Handlers
        /\ \A h \in Handlers : h < s.next => <<s.message[1], h>> \in marked
    <3>1. s # Free
      BY <1>7 DEF SlotStep, HandlerReturns, HandlerThrows, Move, MoveFails, Ack, Free
    <3>2. TypeOK /\ CopiesWereSent
      BY DEF EffectInv, OrderInv
    <3>3. QED
      BY <3>1, <3>2, DeliveryTyped, MessagesTyped DEF CopiesWereSent
  <2>2. s.message[1] \in Committed
    BY <2>1 DEF EffectInv, OrderInv
  <2>3. CASE HandlerReturns(c) \/ HandlerThrows(c)
    <3>1. s.at = "handle" /\ UNCHANGED <<row, parked>>
      BY <2>3 DEF HandlerReturns, HandlerThrows
    <3>2. CASE RunOnce(s.message[1], s.next)
      BY <2>1, <3>1, <3>2, PromiseApplies
    <3>3. CASE UNCHANGED effects
      BY <3>1, <3>3, PromiseStutters
    <3>4. QED
      BY <2>3, <3>2, <3>3 DEF HandlerReturns, HandlerThrows
  <2>4. CASE Move(c) \/ MoveFails(c)
    <3>1. (parked' = parked \/ parked' = parked \cup {s.message[1]}) /\ UNCHANGED <<row, effects>>
      BY <2>4 DEF Move, MoveFails
    <3>2. Committed' = Committed
      BY <3>1 DEF Committed
    <3>3. CASE parked' = parked
      BY <3>1, <3>3, PromiseStutters
    <3>4. CASE parked' = parked \cup {s.message[1]}
      BY <2>1, <2>2, <3>1, <3>2, <3>4 DEF Promise!GiveUp
    <3>5. QED
      BY <3>1, <3>3, <3>4
  <2>5. CASE Ack(c)
    BY <2>5, PromiseStutters DEF Ack
  <2>6. QED
    BY <1>7, <2>3, <2>4, <2>5 DEF SlotStep
<1>8. ASSUME NEW c \in Slots, NEW m \in Message, Deliver(c, m) PROVE UNCHANGED Promise!vars
  BY <1>8, PromiseStutters DEF Deliver
<1>9. ASSUME Disconnect \/ Reconnect \/ ChannelCloses \/ ConsumerDies \/ UNCHANGED vars PROVE UNCHANGED Promise!vars
  BY <1>9, PromiseStutters DEF Disconnect, Reconnect, ChannelCloses, ConsumerDies, vars
<1>10. QED
  BY <1>2, <1>3, <1>4, <1>5, <1>6, <1>7, <1>8, <1>9 DEF Next, Promise!Next, Promise!Handlers, Handlers

\* For any number of events, handlers, attempts, deliveries at work and faults:
\* no handler's effect is committed twice, none before the state change, none
\* ahead of the handler registered before it.
THEOREM RefinesEffectOnce == Spec => ImplementsEffectOnce
<1>1. EffectInv /\ [Next]_vars => EffectInv'
  BY EffectKept
<1>2. EffectInv /\ [Next]_vars => [Promise!Next]_Promise!vars
  BY PromiseStep
<1>3. QED
  BY <1>1, <1>2, EffectInit, PromiseInit, PTL DEF Spec, ImplementsEffectOnce, Promise!Spec
=============================================================================
