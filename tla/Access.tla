------------------------------- MODULE Access -------------------------------
(***************************************************************************)
(* How a payment becomes access, across two services.  Financial confirms  *)
(* and refunds the payments one learner makes for one course; it publishes *)
(* PaymentConfirmed after the commit and again from the effects job until  *)
(* the broker has acknowledged it, and RefundApproved through its outbox.  *)
(* Enrollment's handlers grant and revoke on one row.  Events arrive at    *)
(* least once and in any order.  Settlement has the refund, Delivery the   *)
(* outbox and the bus, Enrollment what else is in the row.                 *)
(***************************************************************************)
EXTENDS Naturals, Sequences, FiniteSets, SequencesExt

CONSTANTS
  Payments,
  Handlers,   \* deliveries at work at once (EVENT_PREFETCH)
  NoEvent,
  MaxFaults   \* bound: lost confirms and acks, crashes, failed handlers

AccessAssumption == MaxFaults \in Nat

VARIABLES
  payment,    \* payments.status
  effects,    \* payments with effects_completed_at
  publishing, \* payments completeEffects works on
  outbox,     \* RefundApproved not yet published
  bus,        \* events in enrollment's queue, delivered or not
  handler,    \* the event each handler works on, and the row it found
  row,        \* the enrollment's entitlement_status
  faults,
  log,        \* events in the order their cause committed (history)
  handled,    \* events that took effect (history)
  ordered     \* events took effect in the order of the log (history)

financial == <<payment, effects, publishing, outbox>>
vars == <<payment, effects, publishing, outbox, bus, handler, row, faults, log, handled, ordered>>

Granting(p) == [kind |-> "PaymentConfirmed", payment |-> p, kept |-> FALSE]
Revoking(p, kept) == [kind |-> "RefundApproved", payment |-> p, kept |-> kept]
Events == [kind : {"PaymentConfirmed", "RefundApproved"}, payment : Payments, kept : BOOLEAN]
Rows == {"none", "active", "refunded"}

TypeOK ==
  /\ payment \in [Payments -> {"open", "confirmed", "refunded"}]
  /\ effects \subseteq Payments /\ publishing \subseteq Payments
  /\ outbox \subseteq Events /\ bus \subseteq Events /\ handled \subseteq Events
  /\ handler \in [Handlers -> [event : Events \cup {NoEvent}, found : Rows]]
  /\ row \in Rows
  /\ faults \in 0 .. MaxFaults
  /\ log \in Seq(Events)
  /\ ordered \in BOOLEAN

Free == [event |-> NoEvent, found |-> "none"]

Init ==
  /\ payment = [p \in Payments |-> "open"]
  /\ effects = {} /\ publishing = {} /\ outbox = {} /\ bus = {}
  /\ handler = [h \in Handlers |-> Free]
  /\ row = "none"
  /\ faults = 0
  /\ log = <<>> /\ handled = {} /\ ordered = TRUE

Fault == faults < MaxFaults /\ faults' = faults + 1

-----------------------------------------------------------------------------
(* Financial                                                               *)

\* confirmPayment, which goes on to completeEffects unless it dies.
Confirm(p) ==
  /\ payment[p] = "open"
  /\ payment' = [payment EXCEPT ![p] = "confirmed"]
  /\ publishing' \in {publishing, publishing \cup {p}}
  /\ log' = Append(log, Granting(p))
  /\ UNCHANGED <<effects, outbox, bus, handler, row, faults, handled, ordered>>

\* completePendingEffects reads the rows that are not done.
Pending(p) == payment[p] = "confirmed" /\ p \notin effects
Reload(p) ==
  /\ Pending(p) /\ p \notin publishing
  /\ publishing' = publishing \cup {p}
  /\ UNCHANGED <<payment, effects, outbox, bus, handler, row, faults, log, handled, ordered>>

\* publishConfirmed, then effects_completed_at.
Publish(p) ==
  /\ p \in publishing
  /\ publishing' = publishing \ {p}
  /\ bus' = bus \cup {Granting(p)}
  /\ effects' = effects \cup {p}
  /\ UNCHANGED <<payment, outbox, handler, row, faults, log, handled, ordered>>

\* The broker is down, or its confirm or the mark is lost.
MMarkedAnyway(p) == effects \cup {p}
MarkedAnyway(p) == effects
PublishFails(p) ==
  /\ p \in publishing /\ Fault
  /\ publishing' = publishing \ {p}
  /\ bus' \in {bus, bus \cup {Granting(p)}}
  /\ effects' = MarkedAnyway(p)
  /\ UNCHANGED <<payment, outbox, handler, row, log, handled, ordered>>

\* approveWith: access_kept when another confirmed payment remains.
MKept(p) == FALSE
Kept(p) == \E q \in Payments \ {p} : payment[q] = "confirmed"
Refund(p) ==
  /\ payment[p] = "confirmed"
  /\ payment' = [payment EXCEPT ![p] = "refunded"]
  /\ outbox' = outbox \cup {Revoking(p, Kept(p))}
  /\ log' = Append(log, Revoking(p, Kept(p)))
  /\ UNCHANGED <<effects, publishing, bus, handler, row, faults, handled, ordered>>

\* OutboxService.relay; a lost confirm publishes it again.
Relay(e) ==
  /\ e \in outbox
  /\ bus' = bus \cup {e}
  /\ \/ outbox' = outbox \ {e} /\ UNCHANGED faults
     \/ UNCHANGED outbox /\ Fault
  /\ UNCHANGED <<payment, effects, publishing, handler, row, log, handled, ordered>>

-----------------------------------------------------------------------------
(* Enrollment                                                              *)

Position(e) == CHOOSE i \in DOMAIN log : log[i] = e
InTurn(e) ==
  /\ \A d \in ToSet(log) : Position(d) < Position(e) => d \in handled
  /\ \A d \in handled : Position(d) <= Position(e)

\* The event takes effect and is acked, or the ack is lost.
TakesEffect(e) ==
  /\ handled' = handled \cup {e}
  /\ ordered' = (ordered /\ InTurn(e))
  /\ \/ bus' = bus \ {e} /\ UNCHANGED faults
     \/ UNCHANGED bus /\ Fault

\* grantFromPayment: read the row; nothing to do when it is active.
ReadGrant(h, e) ==
  /\ handler[h] = Free /\ e \in bus /\ e.kind = "PaymentConfirmed"
  /\ \/ /\ row = "active"
        /\ TakesEffect(e)
        /\ UNCHANGED handler
     \/ /\ row # "active"
        /\ handler' = [handler EXCEPT ![h] = [event |-> e, found |-> row]]
        /\ UNCHANGED <<bus, faults, handled, ordered>>
  /\ UNCHANGED <<financial, row, log>>

\* saveActivated: an insert meets the unique constraint, and the event comes
\* again; or an update.
Saves(h) == handler[h].found # "none" \/ row = "none"
SaveGrant(h) ==
  /\ handler[h] # Free
  /\ \/ Saves(h) /\ row' = "active" /\ TakesEffect(handler[h].event)
     \/ ~Saves(h) /\ UNCHANGED <<row, bus, faults, handled, ordered>>
  /\ handler' = [handler EXCEPT ![h] = Free]
  /\ UNCHANGED <<financial, log>>

HandlerDies(h) ==
  /\ handler[h] # Free /\ Fault
  /\ handler' = [handler EXCEPT ![h] = Free]
  /\ UNCHANGED <<financial, bus, row, log, handled, ordered>>

\* revokeFromRefund: a conditional UPDATE.
Revoke(e) ==
  /\ e \in bus /\ e.kind = "RefundApproved"
  /\ row' = IF ~e.kept /\ row = "active" THEN "refunded" ELSE row
  /\ TakesEffect(e)
  /\ UNCHANGED <<financial, handler, log>>

Next ==
  \/ \E p \in Payments : Confirm(p) \/ Reload(p) \/ Publish(p) \/ PublishFails(p) \/ Refund(p)
  \/ \E e \in outbox : Relay(e)
  \/ \E e \in bus : Revoke(e) \/ \E h \in Handlers : ReadGrant(h, e)
  \/ \E h \in Handlers : SaveGrant(h) \/ HandlerDies(h)

Spec == Init /\ [][Next]_vars

\* The effects job and the relay run, and enrollment consumes.
Fairness ==
  /\ \A p \in Payments : WF_vars(Reload(p)) /\ WF_vars(Publish(p)) /\ WF_vars(\E h \in Handlers : ReadGrant(h, Granting(p)))
  /\ \A p \in Payments, k \in BOOLEAN : WF_vars(Relay(Revoking(p, k))) /\ WF_vars(Revoke(Revoking(p, k)))
  /\ \A h \in Handlers : WF_vars(SaveGrant(h))

FairSpec == Spec /\ Fairness

-----------------------------------------------------------------------------
(* Properties                                                              *)

\* When every event of financial has taken effect, and in the order of the
\* commits, the learner has access if and only if a payment for the course
\* stands: a refund of one of two duplicates keeps it, the last one ends it
\* (approveWith, grantFromPayment, revokeFromRefund).
Quiet == ToSet(log) = handled /\ bus = {} /\ outbox = {} /\ publishing = {} /\ \A h \in Handlers : handler[h] = Free
AccessFollowsPayments ==
  Quiet /\ ordered => (row = "active" <=> \E p \in Payments : payment[p] = "confirmed")

\* A confirmed payment is honoured: whatever crash or lost confirm intervenes,
\* its PaymentConfirmed takes effect in the end (completePendingEffects).
Confirmed(p) == payment[p] = "confirmed"
Honoured(p) == Granting(p) \in handled \/ payment[p] = "refunded"
ConfirmedIsGranted == \A p \in Payments : Confirmed(p) ~> Honoured(p)
=============================================================================
