----------------------------- MODULE Settlement -----------------------------
(***************************************************************************)
(* What happens to a course payment once the money is in: refunds          *)
(* (refund.service.ts), payouts and fraud holds (payout.service.ts), and   *)
(* the pending credits the purchase earned (growth.service.ts).  The three *)
(* services write the same payment rows from concurrent requests, cron     *)
(* jobs and event handlers, with conditional UPDATEs and row locks as      *)
(* their only coordination.                                                *)
(*                                                                         *)
(* All payments here have one payee: the payout code never mixes payees.   *)
(* A transaction is one action, except that a refund approval is two: the  *)
(* rows it locks and reads first, and the writes it bases on that read.    *)
(***************************************************************************)
EXTENDS Naturals, FiniteSets

CONSTANTS
  Payments,     \* course payments of one payee that the rules let a learner refund
  Purchases,    \* (learner, course) pairs; two payments of one are duplicates
  PurchaseOf,   \* the purchase each payment is for
  Payouts,      \* payout ids
  Sessions,     \* requests to the refund endpoints in flight
  Runs,         \* payout runs (nightly job, admin trigger, bus command)
  Flags,        \* fraud flags on the payee
  LargeSets,    \* sets of payments whose net amount is over the KYC threshold
  None

ASSUME PurchaseAssumption == PurchaseOf \in [Payments -> Purchases]
ASSUME LargeAssumption == LargeSets \subseteq SUBSET Payments
ASSUME NoneAssumption == None \notin Payouts \cup Payments

VARIABLES
  status,       \* payments.status
  marked,       \* payments whose refund_requested_at is set
  payoutOf,     \* payments.payout_id
  age,          \* time since the confirmation, in the units below
  credit,       \* wallet_transactions.state of the cashback of a payment
  openRefund,   \* the open refund_requests row of a payment, if any
  announced,    \* the RefundApproved event of a payment, with its access_kept
  sponsored,    \* purchases with a granted sponsorship
  session,      \* the refund requests in flight
  run,          \* the payout runs in flight
  payout,       \* payouts.status and hold_reason
  members,      \* the payments a payout's gross amount was computed from
  approvedByAdmin, \* payouts an admin has released (history, read by no action)
  holds,        \* payout_holds rows, by flag
  flag          \* how far the handlers of a flag's events have got

refundVars == <<openRefund, announced, session>>
payoutVars == <<payoutOf, payout, members, run, approvedByAdmin>>
flagVars   == <<holds, flag>>
vars == <<status, marked, payoutOf, age, credit, openRefund, announced, sponsored,
          session, run, payout, members, approvedByAdmin, holds, flag>>

-----------------------------------------------------------------------------
(* Types                                                                   *)

\* Ages: 0 inside the 7-day refund window, 1 past it (and past the standard
\* settlement hold), 2 once the credits' hold of 7 days and an hour is over.
\* The 14-day hold of a new educator lies somewhere in 2.
Ages == 0 .. 2

\* A session is idle, has judged a request by the rules ("checked"), or is
\* inside the transaction that writes, holding the purchase's rows ("locked").
IdleSession == [phase |-> "idle", kind |-> "none", payment |-> None, verdict |-> "none", held |-> {}]
SessionType ==
  {IdleSession} \cup
  [phase : {"checked", "locked"}, kind : {"request", "decide"}, payment : Payments,
   verdict : {"approved", "pending"}, held : SUBSET Payments]

IdleRun == [phase |-> "idle", candidates |-> {}, flagged |-> FALSE]
RunType == [phase : {"idle", "read", "counted"}, candidates : SUBSET Payments, flagged : BOOLEAN]

\* hold_reason is set exactly on the held payouts.
PayoutType ==
  [status : {"unused", "scheduled", "paid"}, reason : {"none"}] \cup
  [status : {"held"}, reason : {"fraud", "kyc"}]

TypeOK ==
  /\ status \in [Payments -> {"pending", "confirmed", "refunded"}]
  /\ marked \subseteq Payments
  /\ payoutOf \in [Payments -> Payouts \cup {None}]
  /\ age \in [Payments -> Ages]
  /\ credit \in [Payments -> {"none", "pending", "available", "void"}]
  /\ openRefund \in [Payments -> {"none", "pending", "approved"}]
  /\ announced \in [Payments -> {"none", "revoke", "kept"}]
  /\ sponsored \subseteq Purchases
  /\ session \in [Sessions -> SessionType]
  /\ run \in [Runs -> RunType]
  /\ payout \in [Payouts -> PayoutType]
  /\ members \in [Payouts -> SUBSET Payments]
  /\ approvedByAdmin \subseteq Payouts
  /\ holds \subseteq Flags
  /\ flag \in [Flags -> {"unraised", "raising", "raised", "releasing", "resolved"}]

Init ==
  /\ status = [p \in Payments |-> "pending"]
  /\ marked = {}
  /\ payoutOf = [p \in Payments |-> None]
  /\ age = [p \in Payments |-> 0]
  /\ credit = [p \in Payments |-> "none"]
  /\ openRefund = [p \in Payments |-> "none"]
  /\ announced = [p \in Payments |-> "none"]
  /\ sponsored = {}
  /\ session = [s \in Sessions |-> IdleSession]
  /\ run = [r \in Runs |-> IdleRun]
  /\ payout = [po \in Payouts |-> [status |-> "unused", reason |-> "none"]]
  /\ members = [po \in Payouts |-> {}]
  /\ approvedByAdmin = {}
  /\ holds = {}
  /\ flag = [f \in Flags |-> "unraised"]

-----------------------------------------------------------------------------
(* Confirmation and the passing of time                                    *)

\* The conditional UPDATE of confirmPayment: a pending (or failed) row.
MConfirmable(p) == status[p] # "confirmed"
Confirmable(p) == status[p] = "pending"

\* The cashback is written in a savepoint, so it may be missing.
ConfirmPayment(p) ==
  /\ Confirmable(p)
  /\ status' = [status EXCEPT ![p] = "confirmed"]
  /\ \E c \in {"pending", "none"} : credit' = [credit EXCEPT ![p] = c]
  /\ UNCHANGED <<marked, age, sponsored, refundVars, payoutVars, flagVars>>

\* A request judged inside the window writes within the hour that separates
\* the end of the window from the maturity of the credits (PURCHASE_CREDIT_HOLD_MS).
RequestInFlight(p) ==
  \E s \in Sessions : session[s].kind = "request" /\ session[s].payment = p

Elapse(p) ==
  /\ status[p] = "confirmed"
  /\ age[p] < 2
  /\ age[p] = 1 => ~RequestInFlight(p)
  /\ age' = [age EXCEPT ![p] = @ + 1]
  /\ UNCHANGED <<status, marked, credit, sponsored, refundVars, payoutVars, flagVars>>

\* A gift, pay request or seat for the same learner and course is granted.
GrantSponsorship(u) ==
  /\ u \notin sponsored
  /\ sponsored' = sponsored \cup {u}
  /\ UNCHANGED <<status, marked, age, credit, refundVars, payoutVars, flagVars>>

-----------------------------------------------------------------------------
(* Wallet credits                                                          *)

MReleasable(p) == credit[p] = "pending" /\ age[p] = 2 /\ status[p] = "confirmed"
Releasable(p) ==
  /\ credit[p] = "pending"
  /\ age[p] = 2
  /\ status[p] = "confirmed"
  /\ p \notin marked

\* releaseMatured, on a wallet read or in a debit.
ReleaseMatured ==
  /\ \E p \in Payments : Releasable(p)
  /\ credit' = [p \in Payments |-> IF Releasable(p) THEN "available" ELSE credit[p]]
  /\ UNCHANGED <<status, marked, age, sponsored, refundVars, payoutVars, flagVars>>

-----------------------------------------------------------------------------
(* Refunds                                                                 *)

Duplicates(p) == {q \in Payments : PurchaseOf[q] = PurchaseOf[p]}

\* RefundService.request up to its transaction: the row is confirmed, has no
\* open request, and the rules accept it.  Acceptance needs the window to be
\* open; the progress band (not modelled) picks the verdict.  A denied request
\* files a closed row that nothing here reads, and changes nothing else.
RequestRefund(s, p) ==
  /\ session[s] = IdleSession
  /\ status[p] = "confirmed"
  /\ openRefund[p] = "none"
  /\ age[p] = 0
  /\ \E v \in {"approved", "pending"} :
       session' = [session EXCEPT ![s] = [phase |-> "checked", kind |-> "request", payment |-> p,
                                          verdict |-> v, held |-> {}]]
  /\ UNCHANGED <<status, marked, age, credit, sponsored, openRefund, announced, payoutVars, flagVars>>

\* decide(approve): the request is still pending when the admin answers.
DecideApprove(s, p) ==
  /\ session[s] = IdleSession
  /\ openRefund[p] = "pending"
  /\ session' = [session EXCEPT ![s] = [phase |-> "checked", kind |-> "decide", payment |-> p,
                                        verdict |-> "approved", held |-> {}]]
  /\ UNCHANGED <<status, marked, age, credit, sponsored, openRefund, announced, payoutVars, flagVars>>

\* lockCoursePayments waits for every other transaction holding rows of the purchase.
MLockFree(s, p) == TRUE
LockFree(s, p) ==
  \A t \in Sessions \ {s} :
    ~(session[t].phase = "locked" /\ PurchaseOf[session[t].payment] = PurchaseOf[p])

\* lockCoursePayments: the confirmed payments of the purchase, locked and read.
ConfirmedRows(p) == {q \in Duplicates(p) : status[q] = "confirmed"}

\* The transaction begins.  An approval by an admin goes by what this read finds.
LockPurchase(s) ==
  /\ session[s].phase = "checked"
  /\ LockFree(s, session[s].payment)
  /\ session' = [session EXCEPT ![s] =
       [phase |-> "locked", kind |-> session[s].kind, payment |-> session[s].payment,
        verdict |-> session[s].verdict,
        held |-> ConfirmedRows(session[s].payment)]]
  /\ UNCHANGED <<status, marked, age, credit, sponsored, openRefund, announced, payoutVars, flagVars>>

\* The conditional UPDATE of approveWith that flips the payment.
Flippable(p) == status[p] = "confirmed" /\ payoutOf[p] = None

\* The conditional UPDATE of request that marks it; behind it stands the
\* unique index on open requests.
Markable(p) == Flippable(p) /\ p \notin marked /\ openRefund[p] = "none"

AccessKept(p, rows) == rows \ {p} # {} \/ PurchaseOf[p] \in sponsored

\* The payment flips, its pending credits are voided and RefundApproved goes
\* to the outbox, all in the transaction.
Refund(p, rows) ==
  /\ status' = [status EXCEPT ![p] = "refunded"]
  /\ credit' = [credit EXCEPT ![p] = IF @ = "pending" THEN "void" ELSE @]
  /\ announced' = [announced EXCEPT ![p] = IF AccessKept(p, rows) THEN "kept" ELSE "revoke"]
  /\ openRefund' = [openRefund EXCEPT ![p] = "approved"]

EndSession(s) == session' = [session EXCEPT ![s] = IdleSession]

\* A request the rules accepted: mark the payment, file the row, and refund at
\* once when the verdict is an auto-approval; approveWith reads the purchase's
\* rows again then, so a duplicate confirmed in between counts.  A payment that can no longer be
\* marked answers with the reason (unmarkable) and writes nothing.
FileRefund(s) ==
  LET p == session[s].payment IN
  /\ session[s].phase = "locked"
  /\ session[s].kind = "request"
  /\ EndSession(s)
  /\ \/ /\ ~Markable(p)
        /\ UNCHANGED <<status, marked, credit, openRefund, announced>>
     \/ /\ Markable(p)
        /\ marked' = marked \cup {p}
        /\ \/ /\ session[s].verdict = "pending"
              /\ openRefund' = [openRefund EXCEPT ![p] = "pending"]
              /\ UNCHANGED <<status, credit, announced>>
           \/ /\ session[s].verdict = "approved"
              /\ Refund(p, ConfirmedRows(p))
  /\ UNCHANGED <<age, sponsored, payoutVars, flagVars>>

\* An admin's approval: decided once; a payment already in a payout rolls the
\* decision back; one no longer confirmed is left alone, the decision stands.
ApproveRefund(s) ==
  LET p == session[s].payment IN
  /\ session[s].phase = "locked"
  /\ session[s].kind = "decide"
  /\ EndSession(s)
  /\ \/ /\ openRefund[p] # "pending" \/ payoutOf[p] # None
        /\ UNCHANGED <<status, credit, openRefund, announced>>
     \/ /\ openRefund[p] = "pending"
        /\ payoutOf[p] = None
        /\ IF Flippable(p) THEN Refund(p, session[s].held)
           ELSE /\ openRefund' = [openRefund EXCEPT ![p] = "approved"]
                /\ UNCHANGED <<status, credit, announced>>
  /\ UNCHANGED <<marked, age, sponsored, payoutVars, flagVars>>

\* A denial: conditional on the request being pending, and waits for an
\* approval that has already updated the request row.
MUnmark(p) == marked
Unmark(p) == marked \ {p}
DenyRefund(p) ==
  /\ openRefund[p] = "pending"
  /\ \A s \in Sessions : ~(session[s].phase = "locked" /\ session[s].kind = "decide" /\ session[s].payment = p)
  /\ openRefund' = [openRefund EXCEPT ![p] = "none"]
  /\ marked' = Unmark(p)
  /\ UNCHANGED <<status, age, credit, sponsored, announced, session, payoutVars, flagVars>>

\* The request dies or a lookup fails; an open transaction rolls back.
AbandonSession(s) ==
  /\ session[s] # IdleSession
  /\ EndSession(s)
  /\ UNCHANGED <<status, marked, age, credit, sponsored, openRefund, announced, payoutVars, flagVars>>

-----------------------------------------------------------------------------
(* Payouts                                                                 *)

Claimable(p) == status[p] = "confirmed" /\ payoutOf[p] = None /\ p \notin marked

\* payPayee reads its candidates, past the settlement hold of the payee.
ReadCandidates(r) ==
  /\ run[r].phase = "idle"
  /\ \E hold \in {1, 2} :
       LET cleared == {p \in Payments : Claimable(p) /\ age[p] >= hold} IN
       /\ cleared # {}
       /\ run' = [run EXCEPT ![r] = [phase |-> "read", candidates |-> cleared, flagged |-> FALSE]]
  /\ UNCHANGED <<status, marked, age, credit, sponsored, refundVars, payoutOf, payout, members,
                 approvedByAdmin, flagVars>>

\* ... then counts the fraud holds, still before its transaction.
CountHolds(r) ==
  /\ run[r].phase = "read"
  /\ run' = [run EXCEPT ![r] = [phase |-> "counted", candidates |-> run[r].candidates, flagged |-> holds # {}]]
  /\ UNCHANGED <<status, marked, age, credit, sponsored, refundVars, payoutOf, payout, members,
                 approvedByAdmin, flagVars>>

\* The rows the claiming UPDATE matches, of those read before.
MClaimed(S) == S
Claimed(S) == {p \in S : Claimable(p)}

NewPayout(S, flagged) ==
  IF flagged THEN [status |-> "held", reason |-> "fraud"]
  ELSE IF S \in LargeSets THEN [status |-> "held", reason |-> "kyc"]
  ELSE [status |-> "scheduled", reason |-> "none"]

\* The transaction: claim by conditional UPDATE, insert the payout built from
\* the claimed rows.  The UPDATE waits for rows a refund has locked.
ClaimPayments(r) ==
  LET S == Claimed(run[r].candidates) IN
  /\ run[r].phase = "counted"
  /\ \A s \in Sessions : session[s].phase = "locked" => session[s].held \cap run[r].candidates = {}
  /\ run' = [run EXCEPT ![r] = IdleRun]
  /\ \/ /\ S = {}
        /\ UNCHANGED <<payoutOf, payout, members>>
     \/ /\ S # {}
        /\ \E po \in Payouts :
             /\ payout[po].status = "unused"
             /\ payoutOf' = [p \in Payments |-> IF p \in S THEN po ELSE payoutOf[p]]
             /\ payout' = [payout EXCEPT ![po] = NewPayout(S, run[r].flagged)]
             /\ members' = [members EXCEPT ![po] = S]
  /\ UNCHANGED <<status, marked, age, credit, sponsored, refundVars, approvedByAdmin, flagVars>>

AbandonRun(r) ==
  /\ run[r].phase # "idle"
  /\ run' = [run EXCEPT ![r] = IdleRun]
  /\ UNCHANGED <<status, marked, age, credit, sponsored, refundVars, payoutOf, payout, members,
                 approvedByAdmin, flagVars>>

\* disburse: from the run that made the payout, from a later run that finds it
\* scheduled, or from the admin's release.
Disburse(po) ==
  /\ payout[po].status = "scheduled"
  /\ payout' = [payout EXCEPT ![po] = [status |-> "paid", reason |-> "none"]]
  /\ UNCHANGED <<status, marked, age, credit, sponsored, refundVars, payoutOf, members, run,
                 approvedByAdmin, flagVars>>

\* An admin releases a held payout, whatever held it.
MReleased(po) == [status |-> "scheduled", reason |-> payout[po].reason]
Released(po) == [status |-> "scheduled", reason |-> "none"]
ReleasePayout(po) ==
  /\ payout[po].status = "held"
  /\ payout' = [payout EXCEPT ![po] = Released(po)]
  /\ approvedByAdmin' = approvedByAdmin \cup {po}
  /\ UNCHANGED <<status, marked, age, credit, sponsored, refundVars, payoutOf, members, run, flagVars>>

-----------------------------------------------------------------------------
(* Fraud flags: the handlers of FraudFlagRaised and FraudFlagResolved      *)

\* First statement of the handler: the hold row, once per flag.
RaiseFlag(f) ==
  /\ flag[f] = "unraised"
  /\ flag' = [flag EXCEPT ![f] = "raising"]
  /\ holds' = holds \cup {f}
  /\ UNCHANGED <<status, marked, age, credit, sponsored, refundVars, payoutVars>>

\* Second statement, not in one transaction with the first.
HoldScheduled(f) ==
  /\ flag[f] = "raising"
  /\ flag' = [flag EXCEPT ![f] = "raised"]
  /\ payout' = [po \in Payouts |-> IF payout[po].status = "scheduled"
                                   THEN [status |-> "held", reason |-> "fraud"] ELSE payout[po]]
  /\ UNCHANGED <<status, marked, age, credit, sponsored, refundVars, payoutOf, members, run,
                 approvedByAdmin, holds>>

\* The hold row goes; with others left for the payee nothing else happens.
ResolveFlag(f) ==
  /\ flag[f] = "raised"
  /\ holds' = holds \ {f}
  /\ flag' = [flag EXCEPT ![f] = IF holds \ {f} = {} THEN "releasing" ELSE "resolved"]
  /\ UNCHANGED <<status, marked, age, credit, sponsored, refundVars, payoutVars>>

MAfterFraud(po) == [status |-> "scheduled", reason |-> "none"]
AfterFraud(po) ==
  IF members[po] \in LargeSets THEN [status |-> "held", reason |-> "kyc"]
  ELSE [status |-> "scheduled", reason |-> "none"]

\* releaseFraudHolds: only payouts held for fraud move, and KYC applies again.
ReleaseFraudHolds(f) ==
  /\ flag[f] = "releasing"
  /\ flag' = [flag EXCEPT ![f] = "resolved"]
  /\ payout' = [po \in Payouts |-> IF payout[po].status = "held" /\ payout[po].reason = "fraud"
                                   THEN AfterFraud(po) ELSE payout[po]]
  /\ UNCHANGED <<status, marked, age, credit, sponsored, refundVars, payoutOf, members, run,
                 approvedByAdmin, holds>>

-----------------------------------------------------------------------------
PaymentNext == \E p \in Payments : ConfirmPayment(p) \/ Elapse(p) \/ DenyRefund(p)

SessionNext(s) ==
  \/ \E p \in Payments : RequestRefund(s, p) \/ DecideApprove(s, p)
  \/ LockPurchase(s) \/ FileRefund(s) \/ ApproveRefund(s) \/ AbandonSession(s)

RunNext(r) == ReadCandidates(r) \/ CountHolds(r) \/ ClaimPayments(r) \/ AbandonRun(r)

FlagNext(f) == RaiseFlag(f) \/ HoldScheduled(f) \/ ResolveFlag(f) \/ ReleaseFraudHolds(f)

Next ==
  \/ PaymentNext
  \/ ReleaseMatured
  \/ \E u \in Purchases : GrantSponsorship(u)
  \/ \E s \in Sessions : SessionNext(s)
  \/ \E r \in Runs : RunNext(r)
  \/ \E po \in Payouts : Disburse(po) \/ ReleasePayout(po)
  \/ \E f \in Flags : FlagNext(f)

Spec == Init /\ [][Next]_vars

\* The payout job runs every night, and sooner or later its runs no longer
\* crash; a request in flight ends; the broker redelivers until a handler is
\* through.  A run that waits for a row lock gets it (strong fairness): the
\* locks it waits for come and go.
Fairness ==
  /\ \A r \in Runs :
       /\ WF_vars(ReadCandidates(r))
       /\ WF_vars(CountHolds(r))
       /\ SF_vars(ClaimPayments(r))
       /\ <>[][~AbandonRun(r)]_vars
  /\ \A po \in Payouts : WF_vars(Disburse(po))
  /\ \A s \in Sessions : WF_vars(FileRefund(s) \/ ApproveRefund(s) \/ AbandonSession(s))
  /\ \A f \in Flags : WF_vars(HoldScheduled(f)) /\ WF_vars(ReleaseFraudHolds(f))

FairSpec == Spec /\ Fairness

-----------------------------------------------------------------------------
(* Properties                                                              *)

\* A payout pays for exactly the purchases it was computed from, and each of
\* them still stands: no refund took one back after the claim (payPayee and
\* approveWith race on the same row).
PayoutsCoverStandingPurchases ==
  \A po \in Payouts :
    /\ members[po] = {p \in Payments : payoutOf[p] = po}
    /\ \A p \in members[po] : status[p] = "confirmed"

\* A refunded payment is in no payout and its cashback was never and will
\* never be spent (approveWith, releaseMatured, voidPurchaseCredits).
RefundUndoesPurchase ==
  \A p \in Payments : status[p] = "refunded" => payoutOf[p] = None /\ credit[p] \in {"none", "void"}

\* Duplicates of one purchase may be refunded at once.  When none of them is
\* left and no sponsorship covers the course, at least one RefundApproved told
\* enrollment to revoke (the ordered lock of lockCoursePayments).
LastRefundRevokes ==
  \A u \in Purchases \ sponsored :
    LET D == {p \in Payments : PurchaseOf[p] = u} IN
    (/\ \E p \in D : status[p] = "refunded"
     /\ \A p \in D : status[p] # "confirmed")
      => \E p \in D : status[p] = "refunded" /\ announced[p] = "revoke"

\* A payout over the KYC threshold moves only after an admin released it, also
\* when a fraud hold came and went in between (releaseFraudHolds).
LargeNeedsAdmin ==
  \A po \in Payouts :
    payout[po].status \in {"scheduled", "paid"} /\ members[po] \in LargeSets => po \in approvedByAdmin

\* Fraud flags hold payouts until resolved: once the handler of FraudFlagRaised
\* is through, no payout of the payee is disbursed, unless an admin released it.
\* The code does not keep this: payPayee counts the holds before its transaction.
FlaggedPayeeIsNotPaid ==
  [][\A po \in Payouts, f \in Flags :
       payout[po].status = "scheduled" /\ payout'[po].status = "paid" /\ flag[f] = "raised"
         => po \in approvedByAdmin]_vars

\* A purchase that nobody asks to refund reaches the educator: once its credits
\* have matured it is in time part of a payout that is paid, or held for a
\* reason someone has to clear (runPayouts, and the clearing of the mark by a denial).
StandingPurchaseIsPaidOut ==
  \A p \in Payments :
    (status[p] = "confirmed" /\ age[p] = 2)
      ~> (openRefund[p] # "none" \/ \E po \in Payouts : payoutOf[p] = po /\ payout[po].status \in {"paid", "held"})

\* Where the abstract escrow has the money of a payment.
Fate(p) ==
  CASE status[p] = "pending" -> "unpaid"
    [] status[p] = "refunded" -> "returned"
    [] status[p] = "confirmed" /\ payoutOf[p] = None -> "held"
    [] OTHER -> "paid_out"

E == INSTANCE Escrow WITH fate <- [p \in Payments |-> Fate(p)],
                          spendable <- {p \in Payments : credit[p] = "available"}

\* Every step of the tables is a step of the escrow, or none of its business.
ImplementsEscrow == E!Spec
=============================================================================
