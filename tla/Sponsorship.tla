------------------------------ MODULE Sponsorship ------------------------------
(***************************************************************************)
(* financial/sponsorship.service.ts: somebody else pays for a course.  A   *)
(* gift has one payer; a pay request can be opened, and paid, by several.  *)
(* The row moves with conditional UPDATEs around a checkout (Checkout),    *)
(* and the effects of a confirmed payment are run until they succeed.  A   *)
(* bulk order hands out its seats under a row lock.  Seats of people       *)
(* without an account wait for their sign-up.                              *)
(***************************************************************************)
EXTENDS Naturals, FiniteSets

CONSTANTS
  Payers,
  Emails,
  Recipient,  \* of the gift or request
  Seats,      \* of the bulk order
  None

SponsorshipAssumption == Recipient \in Emails /\ None \notin Payers /\ Seats \in Nat

VARIABLES
  kind,     \* what is sponsored here: gift, request or bulk
  row,      \* sponsorships: status, sponsor_id, payment_id, recipient_user_id is set
  call,     \* per payer: the step of createGift or payRequest
  payment,  \* per payer: no checkout, one whose URL nobody has, one that can be paid, paid
  effect,   \* per payment: the step of its purpose handler, and what it holds
  done,     \* payments whose effects are complete
  told,     \* events published for the row
  account,  \* emails with an account
  seat,     \* the bulk order's rows, per email
  assign,   \* assignSeats calls: the step, the emails, those with an account
  crossed   \* a payer took the row between the read and the write of a handler (history)

request == <<row, call, payment>>
handling == <<effect, done, told>>
bulk == <<seat, assign>>
vars == <<kind, row, call, payment, effect, done, told, account, seat, assign, crossed>>

Open == {"requested", "pending_payment"}
Settled == {"granted", "pending_claim"}
Statuses == Open \cup Settled \cup {"none", "cancelled", "deleted"}
NoCall == [at |-> "idle", emails |-> {}, found |-> {}]
NoEffect == [at |-> "idle", same |-> FALSE, found |-> FALSE, status |-> "none"]

TypeOK ==
  /\ kind \in {"gift", "request", "bulk"}
  /\ row \in [status : Statuses, sponsor : Payers \cup {None}, payment : Payers \cup {None}, known : BOOLEAN]
  /\ call \in [Payers -> {"idle", "open", "checkout", "undo", "attach"}]
  /\ payment \in [Payers -> {"none", "opened", "linked", "confirmed"}]
  /\ effect \in [Payers -> [at : {"idle", "look", "write", "reread", "publish"}, same : BOOLEAN, found : BOOLEAN, status : Statuses]]
  /\ done \subseteq Payers /\ told \subseteq Settled /\ account \subseteq Emails
  /\ seat \in [Emails -> Settled \cup {"none"}]
  /\ assign \in [Payers -> [at : {"idle", "look", "lock"}, emails : SUBSET Emails, found : SUBSET Emails]]
  /\ crossed \in BOOLEAN

Init ==
  /\ kind \in {"gift", "request", "bulk"}
  /\ row = [status |-> IF kind = "request" THEN "requested" ELSE "none", sponsor |-> None, payment |-> None, known |-> kind = "request"]
  /\ call = [p \in Payers |-> "idle"] /\ payment = [p \in Payers |-> "none"]
  /\ effect = [p \in Payers |-> NoEffect] /\ done = {} /\ told = {}
  /\ account \in IF kind = "request" THEN {{Recipient}} ELSE {{}, {Recipient}}
  /\ seat = [e \in Emails |-> "none"] /\ assign = [p \in Payers |-> NoCall]
  /\ crossed = FALSE

-----------------------------------------------------------------------------
(* Paying                                                                  *)

To(p, step) == call' = [call EXCEPT ![p] = step]
Crosses(p) == crossed' = (crossed \/ \E q \in Payers \ {p} : effect[q].at \in {"look", "write"} /\ effect[q].same)

\* createGift: the row, then the checkout.
CreateGift(p) ==
  /\ kind = "gift" /\ row.status = "none"
  /\ row' = [status |-> "pending_payment", sponsor |-> p, payment |-> None, known |-> Recipient \in account]
  /\ To(p, "checkout")
  /\ UNCHANGED <<kind, payment, handling, account, bulk, crossed>>

\* payRequest up to the check of the recipient's entitlement, which takes time.
OpenRequest(p) ==
  /\ kind = "request" /\ row.status \in Open
  /\ call[p] = "idle" /\ payment[p] = "none"
  /\ To(p, "open")
  /\ UNCHANGED <<kind, row, payment, handling, account, bulk, crossed>>

\* The recipient has the course by now; the request is cancelled if still open.
CancelRequest(p) ==
  /\ call[p] = "open"
  /\ row' = IF row.status \in Open THEN [row EXCEPT !.status = "cancelled"] ELSE row
  /\ To(p, "idle")
  /\ UNCHANGED <<kind, payment, handling, account, bulk, crossed>>

\* The payer's name on the row, or closedRequest.
TakeRequest(p) ==
  /\ call[p] = "open"
  /\ \/ /\ row.status \in Open
        /\ row' = [row EXCEPT !.status = "pending_payment", !.sponsor = p]
        /\ To(p, "checkout") /\ Crosses(p)
     \/ /\ row.status \notin Open
        /\ To(p, "idle") /\ UNCHANGED <<row, crossed>>
  /\ UNCHANGED <<kind, payment, handling, account, bulk>>

\* createSession: settled from the wallet or a coupon, opened at Chapa, or refused.
OpenSession(p) ==
  /\ call[p] = "checkout"
  /\ \/ payment' = [payment EXCEPT ![p] = "confirmed"] /\ To(p, "idle")
     \/ payment' = [payment EXCEPT ![p] = "opened"] /\ To(p, "attach")
     \/ To(p, "undo") /\ UNCHANGED payment
  /\ UNCHANGED <<kind, row, handling, account, bulk, crossed>>

\* checkoutOrUndo's undo, which can fail.
MUndoable(p) == row.status = "pending_payment"
Undoable(p) == row.status = "pending_payment" /\ (kind = "request" => row.sponsor = p /\ row.payment = None)
Undo(p) ==
  /\ call[p] = "undo"
  /\ \/ /\ Undoable(p)
        /\ row' = [row EXCEPT !.status = IF kind = "gift" THEN "deleted" ELSE "requested", !.sponsor = None]
     \/ UNCHANGED row
  /\ To(p, "idle")
  /\ UNCHANGED <<kind, payment, handling, account, bulk, crossed>>

\* The payment's id on the row.  A request closed meanwhile hands out no URL.
MAttachable == TRUE
Attachable == row.status \in IF kind = "gift" THEN {"pending_payment"} ELSE Open
Attach(p) ==
  /\ call[p] = "attach"
  /\ \/ /\ Attachable
        /\ row' = [row EXCEPT !.status = "pending_payment", !.sponsor = p, !.payment = p]
        /\ Crosses(p)
     \/ ~Attachable /\ UNCHANGED <<row, crossed>>
  /\ payment' = IF Attachable \/ kind = "gift" THEN [payment EXCEPT ![p] = "linked"] ELSE payment
  /\ To(p, "idle")
  /\ UNCHANGED <<kind, handling, account, bulk>>

Paid(p) ==
  /\ payment[p] = "linked"
  /\ payment' = [payment EXCEPT ![p] = "confirmed"]
  /\ UNCHANGED <<kind, row, call, handling, account, bulk, crossed>>

-----------------------------------------------------------------------------
(* onSponsoredPaymentConfirmed, run until it succeeds                      *)

Goes(p, e) == effect' = [effect EXCEPT ![p] = e]

ReadRow(p) ==
  /\ payment[p] = "confirmed" /\ p \notin done /\ effect[p] = NoEffect
  /\ Goes(p, CASE row.status \in Settled -> [NoEffect EXCEPT !.at = "publish", !.status = row.status]
               [] row.status = "deleted" -> [NoEffect EXCEPT !.at = "publish"]
               [] OTHER -> [NoEffect EXCEPT !.at = IF row.known THEN "write" ELSE "look", !.same = row.sponsor = p, !.found = row.known])
  /\ UNCHANGED <<kind, request, done, told, account, bulk, crossed>>

\* userByEmail, which answers null when it fails.
LookUp(p) ==
  /\ effect[p].at = "look"
  /\ \E found \in BOOLEAN :
       /\ found => Recipient \in account
       /\ Goes(p, [effect[p] EXCEPT !.at = "write", !.found = found])
  /\ UNCHANGED <<kind, request, done, told, account, bulk, crossed>>

\* The sponsor is written unless the row named this payer when it was read.
SponsorOf(p) == IF effect[p].same THEN row.sponsor ELSE p
Settle(p) ==
  /\ effect[p].at = "write"
  /\ row' = IF row.status \in Settled \cup {"deleted"} THEN row
            ELSE [status |-> IF effect[p].found THEN "granted" ELSE "pending_claim", sponsor |-> SponsorOf(p), payment |-> p, known |-> effect[p].found]
  /\ Goes(p, [effect[p] EXCEPT !.at = "reread"])
  /\ UNCHANGED <<kind, call, payment, done, told, account, bulk, crossed>>

Reread(p) ==
  /\ effect[p].at = "reread"
  /\ Goes(p, [effect[p] EXCEPT !.at = "publish", !.status = row.status])
  /\ UNCHANGED <<kind, request, done, told, account, bulk, crossed>>

Publish(p) ==
  /\ effect[p].at = "publish"
  /\ Goes(p, NoEffect)
  /\ told' = told \cup ({effect[p].status} \cap Settled)
  /\ done' = done \cup {p}
  /\ UNCHANGED <<kind, request, account, bulk, crossed>>

\* A failure or a crash; the effects job runs the handler again.
EffectFails(p) ==
  /\ effect[p].at # "idle"
  /\ Goes(p, NoEffect)
  /\ UNCHANGED <<kind, request, done, told, account, bulk, crossed>>

-----------------------------------------------------------------------------
(* Accounts and seats                                                      *)

Register(e) ==
  /\ e \notin account
  /\ account' = account \cup {e}
  /\ UNCHANGED <<kind, request, handling, bulk, crossed>>

\* claimForEmail, from UserRegistered or the dashboard: grant's conditional
\* UPDATE of each waiting row, with its event.
Claim(e) ==
  /\ e \in account
  /\ \/ /\ e = Recipient /\ row.status = "pending_claim"
        /\ row' = [row EXCEPT !.status = "granted", !.known = TRUE]
        /\ told' = told \cup {"granted"} /\ UNCHANGED seat
     \/ /\ seat[e] = "pending_claim"
        /\ seat' = [seat EXCEPT ![e] = "granted"]
        /\ UNCHANGED <<row, told>>
  /\ UNCHANGED <<kind, call, payment, effect, done, account, assign, crossed>>

Taken == {e \in Emails : seat[e] # "none"}

\* assignSeats: the seats read, then the lookups, then the locked transaction.
AssignSeats(p, S) ==
  /\ kind = "bulk" /\ assign[p] = NoCall
  /\ S # {} /\ S \cap Taken = {} /\ Cardinality(S \cup Taken) <= Seats
  /\ assign' = [assign EXCEPT ![p] = [at |-> "look", emails |-> S, found |-> {}]]
  /\ UNCHANGED <<kind, request, handling, account, seat, crossed>>

LookUpSeats(p) ==
  /\ assign[p].at = "look"
  /\ assign' = [assign EXCEPT ![p].at = "lock", ![p].found = assign[p].emails \cap account]
  /\ UNCHANGED <<kind, request, handling, account, seat, crossed>>

MFits(S) == TRUE
Fits(S) == Cardinality(S \cup Taken) <= Seats
InsertSeats(p) ==
  /\ assign[p].at = "lock"
  /\ LET fresh == assign[p].emails \ Taken IN
       seat' = IF Fits(fresh) THEN [e \in Emails |-> IF e \in fresh THEN (IF e \in assign[p].found THEN "granted" ELSE "pending_claim") ELSE seat[e]]
               ELSE seat
  /\ assign' = [assign EXCEPT ![p] = NoCall]
  /\ UNCHANGED <<kind, request, handling, account, crossed>>

Next ==
  \/ \E p \in Payers :
       \/ CreateGift(p) \/ OpenRequest(p) \/ CancelRequest(p) \/ TakeRequest(p)
       \/ OpenSession(p) \/ Undo(p) \/ Attach(p) \/ Paid(p)
       \/ ReadRow(p) \/ LookUp(p) \/ Settle(p) \/ Reread(p) \/ Publish(p) \/ EffectFails(p)
       \/ \E S \in SUBSET Emails : AssignSeats(p, S)
       \/ LookUpSeats(p) \/ InsertSeats(p)
  \/ \E e \in Emails : Register(e) \/ Claim(e)

Spec == Init /\ [][Next]_vars

-----------------------------------------------------------------------------
(* Properties                                                              *)

\* The sponsor of a settled gift or request is somebody who paid, whoever else
\* has a checkout open, unless another payer took the row between the read and
\* the write of the handler (the comment in onSponsoredPaymentConfirmed; the
\* conditional writes of payRequest).
SponsorPaid == row.status \in Settled /\ ~crossed => row.sponsor # None /\ payment[row.sponsor] = "confirmed"

\* Whoever paid has sponsored: once the effects of a payment are complete, the
\* row is settled, and stays so whatever the other payers do, and its recipient
\* has been told (checkoutOrUndo's conditional undo, the attach, the re-run).
PaidIsSettled ==
  \A p \in done : row.status \in Settled /\ row.status \in told

\* Two assignments at once never hand out more seats than were bought (the
\* recount under the lock in assignSeats).
SeatsBounded == Cardinality(Taken) <= Seats
=============================================================================
