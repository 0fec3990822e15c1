-------------------------- MODULE SettlementProofs --------------------------
(***************************************************************************)
(* Proofs about Settlement, for any payments, purchases, payouts, sessions,*)
(* runs and flags.  Types first; then the bookkeeping that the conditional *)
(* UPDATEs of refunds, payouts and credits keep among the columns of one   *)
(* payment; then what the row locks of two refunds keep between them.      *)
(***************************************************************************)
EXTENDS Settlement, TLAPS

LEMMA TypeInit == Init => TypeOK
  BY DEF Init, TypeOK, IdleSession, IdleRun, SessionType, RunType, PayoutType, Ages

LEMMA TypeKept ==
  ASSUME TypeOK, [Next]_vars PROVE TypeOK'
<1> USE DEF TypeOK
<1>1. ASSUME NEW p \in Payments, ConfirmPayment(p) PROVE TypeOK'
  BY <1>1 DEF ConfirmPayment, refundVars, payoutVars, flagVars
<1>2. ASSUME NEW p \in Payments, Elapse(p) PROVE TypeOK'
  BY <1>2 DEF Elapse, Ages, refundVars, payoutVars, flagVars
<1>3. ASSUME NEW p \in Payments, DenyRefund(p) PROVE TypeOK'
  BY <1>3 DEF DenyRefund, Unmark, payoutVars, flagVars
<1>4. ASSUME ReleaseMatured PROVE TypeOK'
  BY <1>4 DEF ReleaseMatured, refundVars, payoutVars, flagVars
<1>5. ASSUME NEW u \in Purchases, GrantSponsorship(u) PROVE TypeOK'
  BY <1>5 DEF GrantSponsorship, refundVars, payoutVars, flagVars
<1>6. ASSUME NEW s \in Sessions, SessionNext(s) PROVE TypeOK'
  <2>1. ASSUME NEW p \in Payments, RequestRefund(s, p) PROVE TypeOK'
    BY <2>1 DEF RequestRefund, SessionType, payoutVars, flagVars
  <2>2. ASSUME NEW p \in Payments, DecideApprove(s, p) PROVE TypeOK'
    BY <2>2 DEF DecideApprove, SessionType, payoutVars, flagVars
  <2>3. CASE LockPurchase(s)
    BY <2>3 DEF LockPurchase, SessionType, IdleSession, ConfirmedRows, Duplicates, payoutVars, flagVars
  <2>4. CASE FileRefund(s)
    BY <2>4 DEF FileRefund, Refund, EndSession, SessionType, IdleSession, payoutVars, flagVars
  <2>5. CASE ApproveRefund(s)
    BY <2>5 DEF ApproveRefund, Refund, EndSession, SessionType, IdleSession, payoutVars, flagVars
  <2>6. CASE AbandonSession(s)
    BY <2>6 DEF AbandonSession, EndSession, SessionType, IdleSession, payoutVars, flagVars
  <2>7. QED
    BY <1>6, <2>1, <2>2, <2>3, <2>4, <2>5, <2>6 DEF SessionNext
<1>7. ASSUME NEW r \in Runs, RunNext(r) PROVE TypeOK'
  <2>1. CASE ReadCandidates(r)
    BY <2>1 DEF ReadCandidates, RunType, refundVars, flagVars
  <2>2. CASE CountHolds(r)
    BY <2>2 DEF CountHolds, RunType, refundVars, flagVars
  <2>3. CASE ClaimPayments(r)
    <3> DEFINE S == Claimed(run[r].candidates)
    <3>1. S \subseteq Payments /\ run' \in [Runs -> RunType]
      BY <2>3 DEF ClaimPayments, Claimed, RunType, IdleRun
    <3>2. NewPayout(S, run[r].flagged) \in PayoutType
      BY DEF NewPayout, PayoutType
    <3>3. /\ payoutOf' \in [Payments -> Payouts \cup {None}]
          /\ payout' \in [Payouts -> PayoutType]
          /\ members' \in [Payouts -> SUBSET Payments]
      BY <2>3, <3>1, <3>2 DEF ClaimPayments
    <3>4. QED
      BY <2>3, <3>1, <3>3 DEF ClaimPayments, refundVars, flagVars
  <2>4. CASE AbandonRun(r)
    BY <2>4 DEF AbandonRun, RunType, IdleRun, refundVars, flagVars
  <2>5. QED
    BY <1>7, <2>1, <2>2, <2>3, <2>4 DEF RunNext
<1>8. ASSUME NEW po \in Payouts, Disburse(po) PROVE TypeOK'
  BY <1>8 DEF Disburse, PayoutType, refundVars, flagVars
<1>9. ASSUME NEW po \in Payouts, ReleasePayout(po) PROVE TypeOK'
  BY <1>9 DEF ReleasePayout, Released, PayoutType, refundVars, flagVars
<1>10. ASSUME NEW f \in Flags, FlagNext(f) PROVE TypeOK'
  <2>1. CASE RaiseFlag(f)
    BY <2>1 DEF RaiseFlag, refundVars, payoutVars
  <2>2. CASE HoldScheduled(f)
    BY <2>2 DEF HoldScheduled, PayoutType, refundVars
  <2>3. CASE ResolveFlag(f)
    BY <2>3 DEF ResolveFlag, refundVars, payoutVars
  <2>4. CASE ReleaseFraudHolds(f)
    BY <2>4 DEF ReleaseFraudHolds, AfterFraud, PayoutType, refundVars
  <2>5. QED
    BY <1>10, <2>1, <2>2, <2>3, <2>4 DEF FlagNext
<1>11. CASE UNCHANGED vars
  BY <1>11 DEF vars
<1>12. QED
  BY <1>1, <1>2, <1>3, <1>4, <1>5, <1>6, <1>7, <1>8, <1>9, <1>10, <1>11 DEF Next, PaymentNext

\* Type correctness: hold_reason is set exactly on held payouts, a session or
\* a run is in one of its phases, and every column has a value of its enum.
THEOREM TypeCorrect == Spec => []TypeOK
<1>1. TypeOK /\ [Next]_vars => TypeOK'
  BY TypeKept
<1>2. QED
  BY <1>1, TypeInit, PTL DEF Spec

-----------------------------------------------------------------------------
(* The strengthening: what the conditional UPDATEs and the row locks keep.  *)

\* What the conditional UPDATEs keep among the columns of one payment.
ColumnsAgree ==
  \A p \in Payments :
    /\ status[p] = "pending" =>
         payoutOf[p] = None /\ credit[p] = "none" /\ p \notin marked /\ openRefund[p] = "none" /\ age[p] = 0
    /\ status[p] = "refunded" =>
         openRefund[p] = "approved" /\ payoutOf[p] = None /\ credit[p] \in {"none", "void"}
    /\ status[p] = "confirmed" => openRefund[p] # "approved"
    /\ p \in marked => payoutOf[p] = None
    /\ openRefund[p] # "none" => p \in marked
    /\ openRefund[p] = "pending" => credit[p] # "available"
    /\ credit[p] = "available" => age[p] = 2

\* A request in flight was judged inside the window, on a payment once confirmed.
RequestsAreTimely ==
  \A s \in Sessions :
    session[s].phase # "idle" /\ session[s].kind = "request" =>
      age[session[s].payment] < 2 /\ status[session[s].payment] # "pending"

\* A payout and the payments that point to it; an unused id has none.
LedgerAgrees ==
  \A po \in Payouts :
    /\ members[po] = {p \in Payments : payoutOf[p] = po}
    /\ payout[po].status = "unused" => members[po] = {}

\* Row locks: one holder per purchase, and the rows it holds stay as it read them.
LocksHold ==
  /\ \A s, t \in Sessions :
       session[s].phase = "locked" /\ session[t].phase = "locked"
         /\ PurchaseOf[session[s].payment] = PurchaseOf[session[t].payment] => s = t
  /\ \A s \in Sessions : session[s].phase = "locked" =>
       \A q \in session[s].held : PurchaseOf[q] = PurchaseOf[session[s].payment] /\ status[q] = "confirmed"

-----------------------------------------------------------------------------
LEMMA InitAgrees == Init => ColumnsAgree /\ RequestsAreTimely /\ LedgerAgrees /\ LocksHold
  BY NoneAssumption DEF Init, ColumnsAgree, RequestsAreTimely, LedgerAgrees, LocksHold, IdleSession

\* Requests in flight: a new one is judged inside the window, and Elapse does
\* not take its payment out of reach.
LEMMA RequestsKept ==
  ASSUME TypeOK, RequestsAreTimely, [Next]_vars PROVE RequestsAreTimely'
<1> USE DEF TypeOK, RequestsAreTimely
<1>1. ASSUME NEW p \in Payments, ConfirmPayment(p) PROVE RequestsAreTimely'
  BY <1>1 DEF ConfirmPayment, Confirmable, refundVars, SessionType, IdleSession
<1>2. ASSUME NEW p \in Payments, Elapse(p) PROVE RequestsAreTimely'
  BY <1>2 DEF Elapse, RequestInFlight, Ages, refundVars, SessionType, IdleSession
<1>3. ASSUME NEW s \in Sessions, SessionNext(s) PROVE RequestsAreTimely'
  <2>1. ASSUME NEW p \in Payments, RequestRefund(s, p) PROVE RequestsAreTimely'
    BY <2>1 DEF RequestRefund
  <2>2. ASSUME NEW p \in Payments, DecideApprove(s, p) PROVE RequestsAreTimely'
    BY <2>2 DEF DecideApprove
  <2>3. CASE LockPurchase(s)
    BY <2>3 DEF LockPurchase
  <2>4. CASE FileRefund(s)
    BY <2>4 DEF FileRefund, Refund, EndSession, IdleSession, Markable, Flippable, SessionType
  <2>5. CASE ApproveRefund(s)
    BY <2>5 DEF ApproveRefund, Refund, EndSession, IdleSession, Flippable, SessionType
  <2>6. CASE AbandonSession(s)
    BY <2>6 DEF AbandonSession, EndSession, IdleSession
  <2>7. QED
    BY <1>3, <2>1, <2>2, <2>3, <2>4, <2>5, <2>6 DEF SessionNext
<1>4. ASSUME UNCHANGED <<status, age, session>> PROVE RequestsAreTimely'
  BY <1>4
<1>5. QED
  BY <1>1, <1>2, <1>3, <1>4 DEF Next, PaymentNext, DenyRefund, ReleaseMatured, GrantSponsorship,
    RunNext, ReadCandidates, CountHolds, ClaimPayments, AbandonRun, Disburse, ReleasePayout,
    FlagNext, RaiseFlag, HoldScheduled, ResolveFlag, ReleaseFraudHolds, refundVars, payoutVars, vars
\* The columns of one payment: every writer's WHERE clause keeps the others'.
LEMMA ColumnsKept ==
  ASSUME TypeOK, ColumnsAgree, RequestsAreTimely, [Next]_vars PROVE ColumnsAgree'
<1> USE DEF TypeOK, ColumnsAgree
<1>1. ASSUME NEW p \in Payments, ConfirmPayment(p) PROVE ColumnsAgree'
  BY <1>1 DEF ConfirmPayment, Confirmable, refundVars, payoutVars
<1>2. ASSUME NEW p \in Payments, Elapse(p) PROVE ColumnsAgree'
  BY <1>2 DEF Elapse, Ages, refundVars, payoutVars
<1>3. ASSUME NEW p \in Payments, DenyRefund(p) PROVE ColumnsAgree'
  BY <1>3 DEF DenyRefund, Unmark, payoutVars
<1>4. ASSUME ReleaseMatured PROVE ColumnsAgree'
  BY <1>4 DEF ReleaseMatured, Releasable, refundVars, payoutVars
<1>5. ASSUME NEW s \in Sessions, FileRefund(s) PROVE ColumnsAgree'
  <2> DEFINE p == session[s].payment
  <2>1. p \in Payments /\ age[p] < 2
    BY <1>5 DEF FileRefund, SessionType, IdleSession, RequestsAreTimely
  <2>2. credit[p] # "available"
    BY <2>1 DEF Ages
  <2>3. CASE UNCHANGED <<status, marked, credit, openRefund>>
    BY <1>5, <2>3 DEF FileRefund, payoutVars
  <2>4. CASE Markable(p) /\ marked' = marked \cup {p} /\ session[s].verdict = "pending"
               /\ openRefund' = [openRefund EXCEPT ![p] = "pending"] /\ UNCHANGED <<status, credit>>
    BY <1>5, <2>1, <2>2, <2>4 DEF FileRefund, Markable, Flippable, payoutVars
  <2>5. CASE Markable(p) /\ marked' = marked \cup {p} /\ Refund(p, ConfirmedRows(p))
    BY <1>5, <2>1, <2>2, <2>5 DEF FileRefund, Markable, Flippable, Refund, payoutVars
  <2>6. QED
    BY <1>5, <2>3, <2>4, <2>5 DEF FileRefund
<1>6. ASSUME NEW s \in Sessions, ApproveRefund(s) PROVE ColumnsAgree'
  <2> DEFINE p == session[s].payment
  <2>1. p \in Payments
    BY <1>6 DEF ApproveRefund, SessionType, IdleSession
  <2>2. CASE UNCHANGED <<status, credit, openRefund>>
    BY <1>6, <2>2 DEF ApproveRefund, payoutVars
  <2>3. CASE openRefund[p] = "pending" /\ payoutOf[p] = None /\ Refund(p, session[s].held)
    BY <1>6, <2>1, <2>3 DEF ApproveRefund, Refund, payoutVars
  <2>4. openRefund[p] = "pending" /\ payoutOf[p] = None => Flippable(p)
    BY <2>1 DEF Flippable
  <2>5. QED
    BY <1>6, <2>2, <2>3, <2>4 DEF ApproveRefund
<1>7. ASSUME NEW r \in Runs, ClaimPayments(r) PROVE ColumnsAgree'
  <2>1. UNCHANGED <<status, marked, age, credit, openRefund>>
    BY <1>7 DEF ClaimPayments, refundVars
  <2>2. CASE UNCHANGED payoutOf
    BY <2>1, <2>2
  <2>3. ASSUME NEW po \in Payouts,
               payoutOf' = [p \in Payments |-> IF p \in Claimed(run[r].candidates) THEN po ELSE payoutOf[p]]
        PROVE ColumnsAgree'
    <3>1. \A p \in Claimed(run[r].candidates) : Claimable(p)
      BY DEF Claimed
    <3>2. ASSUME NEW p \in Payments, ~Claimable(p) PROVE payoutOf'[p] = payoutOf[p]
      BY <2>3, <3>1, <3>2
    <3>3. ASSUME NEW p \in Payments, Claimable(p) PROVE status[p] = "confirmed" /\ p \notin marked
      BY <3>3 DEF Claimable
    <3>4. QED
      BY <2>1, <3>2, <3>3
  <2>4. QED
    BY <1>7, <2>2, <2>3 DEF ClaimPayments
<1>8. ASSUME UNCHANGED <<status, marked, payoutOf, age, credit, openRefund>> PROVE ColumnsAgree'
  BY <1>8
<1>9. QED
  BY <1>1, <1>2, <1>3, <1>4, <1>5, <1>6, <1>7, <1>8 DEF Next, PaymentNext, SessionNext, RunNext, FlagNext,
    GrantSponsorship, RequestRefund, DecideApprove, LockPurchase, AbandonSession, ReadCandidates,
    CountHolds, AbandonRun, Disburse, ReleasePayout, RaiseFlag, HoldScheduled, ResolveFlag,
    ReleaseFraudHolds, refundVars, payoutVars, vars

\* payout_id and the payouts themselves: only a claim changes either.
LEMMA LedgerKept ==
  ASSUME TypeOK, LedgerAgrees, [Next]_vars PROVE LedgerAgrees'
<1> USE DEF TypeOK, LedgerAgrees
<1>1. ASSUME NEW r \in Runs, ClaimPayments(r) PROVE LedgerAgrees'
  <2> DEFINE S == Claimed(run[r].candidates)
  <2>1. CASE UNCHANGED <<payoutOf, payout, members>>
    BY <2>1
  <2>2. ASSUME NEW po \in Payouts, payout[po].status = "unused", S # {},
               payoutOf' = [p \in Payments |-> IF p \in S THEN po ELSE payoutOf[p]],
               payout' = [payout EXCEPT ![po] = NewPayout(S, run[r].flagged)],
               members' = [members EXCEPT ![po] = S]
        PROVE LedgerAgrees'
    <3>1. S \subseteq Payments /\ \A p \in S : payoutOf[p] = None
      BY <1>1 DEF Claimed, Claimable, ClaimPayments, RunType, IdleRun
    <3>2. {p \in Payments : payoutOf[p] = po} = {}
      BY <2>2
    <3>3. members'[po] = {p \in Payments : payoutOf'[p] = po}
      BY <2>2, <3>1, <3>2
    <3>4. ASSUME NEW other \in Payouts \ {po} PROVE members'[other] = {p \in Payments : payoutOf'[p] = other}
      BY <2>2, <3>1, NoneAssumption
    <3>5. \A other \in Payouts : payout'[other].status = "unused" => other # po /\ members'[other] = {}
      BY <2>2 DEF NewPayout
    <3>6. QED
      BY <3>3, <3>4, <3>5
  <2>3. QED
    BY <1>1, <2>1, <2>2 DEF ClaimPayments
<1>2. ASSUME NEW po \in Payouts, Disburse(po) \/ ReleasePayout(po) PROVE LedgerAgrees'
  BY <1>2 DEF Disburse, ReleasePayout, Released
<1>3. ASSUME NEW f \in Flags, HoldScheduled(f) \/ ReleaseFraudHolds(f) PROVE LedgerAgrees'
  BY <1>3 DEF HoldScheduled, ReleaseFraudHolds, AfterFraud
<1>4. ASSUME UNCHANGED <<payoutOf, payout, members>> PROVE LedgerAgrees'
  BY <1>4
<1>5. QED
  BY <1>1, <1>2, <1>3, <1>4 DEF Next, PaymentNext, SessionNext, RunNext, FlagNext, ConfirmPayment, Elapse,
    DenyRefund, ReleaseMatured, GrantSponsorship, RequestRefund, DecideApprove, LockPurchase, FileRefund,
    ApproveRefund, AbandonSession, ReadCandidates, CountHolds, AbandonRun, RaiseFlag, ResolveFlag,
    payoutVars, vars
\* Row locks: a second refund of the purchase waits, and nothing else writes the
\* status of a confirmed row.
LEMMA LocksKept ==
  ASSUME TypeOK, LocksHold, [Next]_vars PROVE LocksHold'
<1> USE DEF TypeOK, LocksHold
<1>1. ASSUME NEW p \in Payments, ConfirmPayment(p) PROVE LocksHold'
  BY <1>1 DEF ConfirmPayment, refundVars, SessionType, IdleSession
<1>2. ASSUME NEW s \in Sessions, NEW p \in Payments, RequestRefund(s, p) \/ DecideApprove(s, p) PROVE LocksHold'
  BY <1>2 DEF RequestRefund, DecideApprove
<1>3. ASSUME NEW s \in Sessions, LockPurchase(s) PROVE LocksHold'
  BY <1>3 DEF LockPurchase, LockFree, ConfirmedRows, Duplicates
<1>4. ASSUME NEW s \in Sessions, AbandonSession(s) PROVE LocksHold'
  BY <1>4 DEF AbandonSession, EndSession, IdleSession
<1>5. ASSUME NEW s \in Sessions, FileRefund(s) \/ ApproveRefund(s) PROVE LocksHold'
  <2> DEFINE p == session[s].payment
  <2>1. session[s].phase = "locked" /\ session' = [session EXCEPT ![s] = IdleSession]
    BY <1>5 DEF FileRefund, ApproveRefund, EndSession
  <2>2. \A q \in Payments : status'[q] = status[q] \/ q = p
    BY <1>5 DEF FileRefund, ApproveRefund, Refund
  <2>3. ASSUME NEW t \in Sessions, session'[t].phase = "locked" PROVE t # s /\ session'[t] = session[t]
    BY <2>1, <2>3 DEF IdleSession
  <2>4. ASSUME NEW t \in Sessions, session'[t].phase = "locked", NEW q \in session[t].held PROVE q \in Payments /\ q # p
    <3>1. session[t].phase = "locked" /\ t # s
      BY <2>3, <2>4
    <3>2. q \in Payments
      BY <3>1 DEF SessionType, IdleSession
    <3>3. PurchaseOf[q] = PurchaseOf[session[t].payment]
      BY <3>1
    <3>4. QED
      BY <3>1, <3>2, <3>3, <2>1
  <2>5. QED
    BY <2>1, <2>2, <2>3, <2>4
<1>6. ASSUME UNCHANGED <<status, session>> PROVE LocksHold'
  BY <1>6
<1>7. QED
  BY <1>1, <1>2, <1>3, <1>4, <1>5, <1>6 DEF Next, PaymentNext, SessionNext, RunNext, FlagNext, Elapse,
    DenyRefund, ReleaseMatured, GrantSponsorship, ReadCandidates, CountHolds, ClaimPayments, AbandonRun,
    Disburse, ReleasePayout, RaiseFlag, HoldScheduled, ResolveFlag, ReleaseFraudHolds, refundVars,
    payoutVars, vars

Inv == TypeOK /\ ColumnsAgree /\ RequestsAreTimely /\ LedgerAgrees /\ LocksHold

\* The invariant the rest is read off: types, columns, requests, ledger, locks.
THEOREM InvariantHolds == Spec => []Inv
<1>1. Init => Inv
  BY InitAgrees, TypeInit DEF Inv
<1>2. Inv /\ [Next]_vars => Inv'
  BY TypeKept, ColumnsKept, RequestsKept, LedgerKept, LocksKept DEF Inv
<1>3. QED
  BY <1>1, <1>2, PTL DEF Spec

-----------------------------------------------------------------------------
(* What follows from it                                                    *)

\* No payment is both refunded and paid out, and a payout's amount stays the
\* sum of the confirmed payments that point to it.
THEOREM PayoutsStand == Spec => []PayoutsCoverStandingPurchases
<1>1. Inv => PayoutsCoverStandingPurchases
  BY NoneAssumption DEF Inv, TypeOK, ColumnsAgree, LedgerAgrees, PayoutsCoverStandingPurchases
<1>2. QED
  BY <1>1, InvariantHolds, PTL

\* A refund takes the cashback back before anyone could spend it.
THEOREM RefundsUndo == Spec => []RefundUndoesPurchase
<1>1. Inv => RefundUndoesPurchase
  BY DEF Inv, ColumnsAgree, RefundUndoesPurchase
<1>2. QED
  BY <1>1, InvariantHolds, PTL
\* A payout over the KYC threshold moves only once an admin released it: it is
\* made held, and clearing a fraud hold looks at its amount again.
THEOREM LargePayoutsWait == Spec => []LargeNeedsAdmin
<1> DEFINE Ind == Inv /\ LargeNeedsAdmin
<1>1. Init => Ind
  BY InitAgrees, TypeInit DEF Inv, Init, LargeNeedsAdmin
<1>2. Ind /\ [Next]_vars => Ind'
  <2> SUFFICES ASSUME Inv, LargeNeedsAdmin, [Next]_vars PROVE LargeNeedsAdmin'
    BY TypeKept, ColumnsKept, RequestsKept, LedgerKept, LocksKept DEF Inv
  <2> USE DEF Inv, TypeOK, LargeNeedsAdmin
  <2>1. ASSUME NEW r \in Runs, ClaimPayments(r) PROVE LargeNeedsAdmin'
    <3> DEFINE S == Claimed(run[r].candidates)
    <3>1. S \subseteq Payments
      BY <2>1 DEF Claimed, ClaimPayments, RunType, IdleRun
    <3>2. NewPayout(S, run[r].flagged).status \in {"scheduled", "paid"} => S \notin LargeSets
      BY DEF NewPayout
    <3>3. QED
      BY <2>1, <3>1, <3>2 DEF ClaimPayments
  <2>2. ASSUME NEW po \in Payouts, Disburse(po) \/ ReleasePayout(po) PROVE LargeNeedsAdmin'
    BY <2>2 DEF Disburse, ReleasePayout, Released
  <2>3. ASSUME NEW f \in Flags, HoldScheduled(f) \/ ReleaseFraudHolds(f) PROVE LargeNeedsAdmin'
    BY <2>3 DEF HoldScheduled, ReleaseFraudHolds, AfterFraud
  <2>4. ASSUME UNCHANGED <<payout, members, approvedByAdmin>> PROVE LargeNeedsAdmin'
    BY <2>4
  <2>5. QED
    BY <2>1, <2>2, <2>3, <2>4 DEF Next, PaymentNext, SessionNext, RunNext, FlagNext, ConfirmPayment, Elapse,
      DenyRefund, ReleaseMatured, GrantSponsorship, RequestRefund, DecideApprove, LockPurchase, FileRefund,
      ApproveRefund, AbandonSession, ReadCandidates, CountHolds, AbandonRun, RaiseFlag, ResolveFlag,
      payoutVars, vars
<1>3. QED
  BY <1>1, <1>2, PTL DEF Spec

\* The last refund of a purchase revokes access: of two refunds of duplicates,
\* the second to lock the rows sees what the first left.
THEOREM LastRefundIsTold == Spec => []LastRefundRevokes
<1> DEFINE Ind == Inv /\ LastRefundRevokes
<1>1. Init => Ind
  BY InitAgrees, TypeInit DEF Inv, Init, LastRefundRevokes
<1>2. Ind /\ [Next]_vars => Ind'
  <2> SUFFICES ASSUME Inv, LastRefundRevokes, [Next]_vars PROVE LastRefundRevokes'
    BY TypeKept, ColumnsKept, RequestsKept, LedgerKept, LocksKept DEF Inv
  <2> USE PurchaseAssumption DEF Inv, TypeOK, LastRefundRevokes
  <2>1. ASSUME NEW p \in Payments, ConfirmPayment(p) PROVE LastRefundRevokes'
    BY <2>1 DEF ConfirmPayment, refundVars
  <2>2. ASSUME NEW p \in Payments, NEW rows \in SUBSET ConfirmedRows(p),
               Flippable(p), Refund(p, rows), UNCHANGED sponsored
        PROVE LastRefundRevokes'
    <3>1. ASSUME NEW q \in Payments, PurchaseOf[q] = PurchaseOf[p], announced'[p] = "kept", PurchaseOf[p] \notin sponsored
          PROVE \E x \in Payments : PurchaseOf[x] = PurchaseOf[p] /\ status'[x] = "confirmed"
      <4>1. PICK x \in rows : x # p
        BY <2>2, <3>1 DEF Refund, AccessKept
      <4>2. x \in Payments /\ PurchaseOf[x] = PurchaseOf[p] /\ status[x] = "confirmed"
        BY <2>2, <4>1 DEF ConfirmedRows, Duplicates
      <4>3. QED
        BY <2>2, <4>1, <4>2 DEF Refund
    <3>2. status'[p] = "refunded" /\ announced'[p] \in {"kept", "revoke"}
      BY <2>2 DEF Refund
    <3>3. \A q \in Payments \ {p} : status'[q] = status[q] /\ announced'[q] = announced[q]
      BY <2>2 DEF Refund
    <3>4. ASSUME NEW u \in Purchases \ sponsored, u # PurchaseOf[p]
          PROVE \A q \in Payments : PurchaseOf[q] = u => q # p
      BY <3>4
    <3>5. QED
      BY <2>2, <3>1, <3>2, <3>3, <3>4
  <2>3. ASSUME NEW u \in Purchases, GrantSponsorship(u) PROVE LastRefundRevokes'
    BY <2>3 DEF GrantSponsorship, refundVars
  <2>4. ASSUME UNCHANGED <<status, announced, sponsored>> PROVE LastRefundRevokes'
    BY <2>4
  <2>5. ASSUME NEW s \in Sessions, FileRefund(s) PROVE LastRefundRevokes'
    <3>1. session[s].payment \in Payments
      BY <2>5 DEF FileRefund, SessionType, IdleSession
    <3>2. QED
      BY <2>2, <2>4, <2>5, <3>1 DEF FileRefund, Markable
  <2>6. ASSUME NEW s \in Sessions, ApproveRefund(s) PROVE LastRefundRevokes'
    <3>1. session[s].payment \in Payments
      BY <2>6 DEF ApproveRefund, SessionType, IdleSession
    <3>2. session[s].held \in SUBSET ConfirmedRows(session[s].payment)
      BY <2>6, <3>1 DEF ApproveRefund, LocksHold, ConfirmedRows, Duplicates, SessionType, IdleSession
    <3>3. QED
      BY <2>2, <2>4, <2>6, <3>1, <3>2 DEF ApproveRefund
  <2>7. QED
    BY <2>1, <2>3, <2>4, <2>5, <2>6 DEF Next, PaymentNext, SessionNext, RunNext, FlagNext, Elapse,
      DenyRefund, ReleaseMatured, RequestRefund, DecideApprove, LockPurchase, AbandonSession, ReadCandidates,
      CountHolds, ClaimPayments, AbandonRun, Disburse, ReleasePayout, RaiseFlag, HoldScheduled, ResolveFlag,
      ReleaseFraudHolds, refundVars, payoutVars, vars
<1>3. QED
  BY <1>1, <1>2, PTL DEF Spec
-----------------------------------------------------------------------------
(* The escrow                                                              *)

LEMMA FateOf ==
  ASSUME NEW p \in Payments, TypeOK
  PROVE /\ Fate(p) = "unpaid" <=> status[p] = "pending"
        /\ Fate(p) = "returned" <=> status[p] = "refunded"
        /\ Fate(p) = "held" <=> status[p] = "confirmed" /\ payoutOf[p] = None
        /\ Fate(p) = "paid_out" <=> status[p] = "confirmed" /\ payoutOf[p] # None
<1>1. status[p] \in {"pending", "confirmed", "refunded"}
  BY DEF TypeOK
<1>2. QED
  BY <1>1 DEF Fate

\* Steps that leave these three columns alone are none of the escrow's business.
LEMMA EscrowStutters ==
  ASSUME UNCHANGED <<status, payoutOf, credit>> PROVE UNCHANGED E!vars
  BY DEF E!vars, Fate

\* A payment that is confirmed and in no payout, with its credits unreleased,
\* flips and takes the credits along.
LEMMA EscrowReturns ==
  ASSUME TypeOK, TypeOK', ColumnsAgree, NEW p \in Payments, NEW rows,
         Flippable(p), credit[p] # "available", Refund(p, rows), UNCHANGED payoutOf
  PROVE E!Return(p)
<1>1. Fate(p) = "held" /\ Fate(p)' = "returned"
  BY FateOf DEF Flippable, Refund, Fate, TypeOK
<1>2. \A q \in Payments \ {p} : Fate(q)' = Fate(q)
  BY DEF Fate, Refund, TypeOK
<1>3. {q \in Payments : credit'[q] = "available"} = {q \in Payments : credit[q] = "available"}
  BY DEF Refund, TypeOK
<1>4. QED
  BY <1>1, <1>2, <1>3 DEF E!Return
LEMMA EscrowBuys ==
  ASSUME TypeOK, TypeOK', ColumnsAgree, NEW p \in Payments, ConfirmPayment(p) PROVE E!Buy(p)
<1>1. Fate(p) = "unpaid" /\ Fate(p)' = "held"
  BY FateOf DEF ConfirmPayment, Confirmable, Fate, TypeOK, ColumnsAgree, payoutVars
<1>2. \A q \in Payments \ {p} : Fate(q)' = Fate(q)
  BY DEF Fate, ConfirmPayment, TypeOK, payoutVars
<1>3. {q \in Payments : credit'[q] = "available"} = {q \in Payments : credit[q] = "available"}
  BY DEF ConfirmPayment, Confirmable, TypeOK, ColumnsAgree
<1>4. QED
  BY <1>1, <1>2, <1>3 DEF E!Buy

LEMMA EscrowPaysOut ==
  ASSUME TypeOK, TypeOK', NEW r \in Runs, ClaimPayments(r),
         NEW po \in Payouts, NEW S, S = Claimed(run[r].candidates),
         payoutOf' = [p \in Payments |-> IF p \in S THEN po ELSE payoutOf[p]]
  PROVE E!PayOut(S) /\ S \subseteq Payments
<1>1. S \subseteq Payments /\ \A p \in S : Claimable(p)
  BY DEF Claimed, ClaimPayments, RunType, IdleRun, TypeOK
<1>2. UNCHANGED <<status, credit>>
  BY DEF ClaimPayments
<1>3. ASSUME NEW p \in S PROVE Fate(p) = "held" /\ Fate(p)' = "paid_out"
  BY <1>1, <1>2, NoneAssumption DEF Claimable, Fate, TypeOK
<1>4. ASSUME NEW p \in Payments, p \notin S PROVE Fate(p)' = Fate(p)
  BY <1>2, <1>4 DEF Fate
<1>5. QED
  BY <1>1, <1>2, <1>3, <1>4 DEF E!PayOut

LEMMA EscrowReleases ==
  ASSUME TypeOK, ReleaseMatured, NEW S, S = {p \in Payments : Releasable(p)} PROVE E!Release(S)
<1>1. \A p \in S : Fate(p) \in {"held", "paid_out"}
  BY FateOf DEF Releasable
<1>2. {p \in Payments : credit'[p] = "available"} = {p \in Payments : credit[p] = "available"} \cup S
  BY DEF ReleaseMatured
<1>3. \A p \in Payments : Fate(p)' = Fate(p)
  BY DEF ReleaseMatured, Fate, payoutVars
<1>4. QED
  BY <1>1, <1>2, <1>3 DEF E!Release

\* The tables implement the escrow: confirming buys, a refund returns, a claim
\* pays out, a maturity sweep releases, and every other step changes nothing there.
THEOREM RefinesEscrow == Spec => ImplementsEscrow
<1>1. Init => E!Init
  BY DEF Init, E!Init, Fate
<1>2. Inv /\ Inv' /\ [Next]_vars => [E!Next]_(E!vars)
  <2> SUFFICES ASSUME Inv, Inv', [Next]_vars PROVE E!Next \/ UNCHANGED E!vars
    OBVIOUS
  <2>1. ASSUME NEW p \in Payments, ConfirmPayment(p) PROVE E!Next
    BY <2>1, EscrowBuys DEF E!Next, Inv
  <2>2. ASSUME ReleaseMatured PROVE E!Next
    <3>1. PICK S \in SUBSET Payments : S = {p \in Payments : Releasable(p)}
      OBVIOUS
    <3>2. E!Release(S)
      BY <2>2, <3>1, EscrowReleases DEF Inv
    <3>3. QED
      BY <3>2 DEF E!Next
  <2>3. ASSUME NEW s \in Sessions, FileRefund(s) PROVE E!Next \/ UNCHANGED E!vars
    <3> DEFINE p == session[s].payment
    <3>1. p \in Payments /\ age[p] < 2 /\ UNCHANGED payoutOf
      BY <2>3 DEF FileRefund, SessionType, IdleSession, RequestsAreTimely, Inv, TypeOK, payoutVars
    <3>2. credit[p] # "available"
      BY <3>1 DEF Inv, ColumnsAgree
    <3>3. CASE UNCHANGED <<status, credit>>
      BY <3>1, <3>3, EscrowStutters
    <3>4. CASE Markable(p) /\ Refund(p, ConfirmedRows(p))
      BY <3>1, <3>2, <3>4, EscrowReturns DEF Markable, E!Next, Inv
    <3>5. QED
      BY <2>3, <3>3, <3>4 DEF FileRefund
  <2>4. ASSUME NEW s \in Sessions, ApproveRefund(s) PROVE E!Next \/ UNCHANGED E!vars
    <3> DEFINE p == session[s].payment
    <3>1. p \in Payments /\ UNCHANGED payoutOf
      BY <2>4 DEF ApproveRefund, SessionType, IdleSession, Inv, TypeOK, payoutVars
    <3>2. CASE UNCHANGED <<status, credit>>
      BY <3>1, <3>2, EscrowStutters
    <3>3. CASE openRefund[p] = "pending" /\ Flippable(p) /\ Refund(p, session[s].held)
      BY <3>1, <3>3, EscrowReturns DEF ColumnsAgree, E!Next, Inv
    <3>4. QED
      BY <2>4, <3>2, <3>3 DEF ApproveRefund
  <2>5. ASSUME NEW r \in Runs, ClaimPayments(r) PROVE E!Next \/ UNCHANGED E!vars
    <3> DEFINE S == Claimed(run[r].candidates)
    <3>1. CASE UNCHANGED payoutOf
      BY <2>5, <3>1, EscrowStutters DEF ClaimPayments
    <3>2. ASSUME NEW po \in Payouts, payoutOf' = [p \in Payments |-> IF p \in S THEN po ELSE payoutOf[p]]
          PROVE E!Next
      <4>1. E!PayOut(S) /\ S \subseteq Payments
        BY <2>5, <3>2, EscrowPaysOut DEF Inv
      <4>2. QED
        BY <4>1 DEF E!Next
    <3>3. QED
      BY <2>5, <3>1, <3>2 DEF ClaimPayments
  <2>6. ASSUME UNCHANGED <<status, payoutOf, credit>> PROVE UNCHANGED E!vars
    BY <2>6, EscrowStutters
  <2>7. QED
    BY <2>1, <2>2, <2>3, <2>4, <2>5, <2>6 DEF Next, PaymentNext, SessionNext, RunNext, FlagNext, Elapse,
      DenyRefund, GrantSponsorship, RequestRefund, DecideApprove, LockPurchase, AbandonSession, ReadCandidates,
      CountHolds, AbandonRun, Disburse, ReleasePayout, RaiseFlag, HoldScheduled, ResolveFlag,
      ReleaseFraudHolds, payoutVars, vars
<1>3. QED
  BY <1>1, <1>2, InvariantHolds, PTL DEF Spec, ImplementsEscrow, E!Spec
=============================================================================
