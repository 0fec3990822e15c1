--------------------------- MODULE CheckoutProofs ---------------------------
(***************************************************************************)
(* Proofs about Checkout, for any payments, purchases, learners, plans and *)
(* limits: types, the promise of Till (in particular that a purchase is    *)
(* debited from a wallet once), and the bound of the coupon.               *)
(***************************************************************************)
EXTENDS Checkout, FiniteSetTheorems, TLAPS

-----------------------------------------------------------------------------
(* The inductive invariant                                                 *)

CardPlans == {"card", "coupon_card"}
Unwritten == {"idle", "find", "guard", "guarded", "coupon", "counted", "insert"}
RequestSteps == {"find", "guard", "guarded", "coupon", "counted", "insert", "settle", "page", "store", "failing", "over"}

\* How the request, the plan, the row and the page of one payment agree.
PaymentAgrees(p) ==
  /\ plan[p] = Nobody <=> purchase[p] = Nobody
  /\ purchase[p] = Nobody <=> request[p].at = "idle"
  /\ request[p].at \in Unwritten => status[p] = "none"
  /\ request[p].at \in Unwritten \cup {"settle", "page"} => page[p] = "none"
  /\ request[p].at = "find" => plan[p] = "card"
  /\ request[p].at \in {"guard", "guarded"} => ByWallet(p)
  /\ request[p].at = "guarded" => ~UsesCoupon(p)
  /\ request[p].at \in {"coupon", "counted"} => UsesCoupon(p)
  /\ request[p].at = "insert" => plan[p] \in {"card", "bank"}
  /\ request[p].at = "settle" => plan[p] \notin CardPlans
  /\ request[p].at \in {"page", "store"} => plan[p] \in CardPlans
  /\ page[p] # "none" => plan[p] \in CardPlans
  /\ request[p].at # "over" => age[p] = 0

\* An answer that confirms is still true when it is applied; the sweep checks
\* only rows with an attempt left.
CheckAgrees(c) ==
  /\ check[c].at = "apply" /\ check[c].answer = "paid" => page[check[c].payment] = "paid"
  /\ check[c].at = "verify" /\ check[c].by = "sweep" =>
       c = Sweep /\ attempts[check[c].payment] < MaxAttempts

\* A wallet payment that holds the advisory lock, or a pending row its request
\* will settle, or is confirmed: one per purchase.
Live(p) ==
  /\ ByWallet(p)
  /\ \/ request[p].at \in {"guarded", "coupon", "counted"}
     \/ request[p].at = "settle" /\ status[p] = "pending"
     \/ status[p] = "confirmed"
WalletApart == \A p, q \in Payments : p # q /\ purchase[p] = purchase[q] /\ Live(p) => ~Live(q)

Agreement ==
  /\ TypeOK
  /\ \A p \in Payments : PaymentAgrees(p)
  /\ \A c \in AllCheckers : CheckAgrees(c)
  /\ WalletApart

LEMMA AgreementInit == Init => Agreement
<1> SUFFICES ASSUME Init PROVE Agreement
  OBVIOUS
<1>1. TypeOK
  BY LimitAssumption DEF Init, TypeOK, Idle, RequestType, CheckType, Resting, Ages
<1>2. \A p \in Payments : PaymentAgrees(p) /\ ~Live(p)
  BY DEF Init, PaymentAgrees, Live, Idle, Unwritten, CardPlans, UsesCoupon, ByWallet, Nobody
<1>3. \A c \in AllCheckers : CheckAgrees(c)
  BY DEF Init, CheckAgrees, Resting
<1> QED BY <1>1, <1>2, <1>3 DEF Agreement, WalletApart

-----------------------------------------------------------------------------
(* Steps of one payment                                                    *)

\* What a request goes on with is a request.
LEMMA Typed ==
  ASSUME TypeOK, NEW p \in Payments, NEW step \in RequestSteps, Goes(p, step)
  PROVE  /\ request' \in [Payments -> RequestType]
         /\ request'[p].at = step /\ request'[p].mine = {}
         /\ \A q \in Payments \ {p} : request'[q] = request[q]
  BY DEF TypeOK, Goes, RequestType, RequestSteps

\* A step that disturbs nobody else, except by failing a pending row.
Undisturbed(p) ==
  \A q \in Payments \ {p} :
    /\ purchase'[q] = purchase[q] /\ plan'[q] = plan[q] /\ request'[q] = request[q]
    /\ page'[q] = page[q] /\ age'[q] = age[q]
    /\ status'[q] = status[q] \/ (status[q] = "pending" /\ status'[q] = "failed")

\* Checks are as they were, or at rest again.
ChecksRest == check' \in [AllCheckers -> CheckType] /\ \A c \in AllCheckers : check'[c] \in {check[c], Resting}

LEMMA SameChecks ==
  ASSUME TypeOK, UNCHANGED check PROVE ChecksRest
BY DEF ChecksRest, TypeOK

LEMMA OnePayment ==
  ASSUME Agreement, TypeOK', NEW p \in Payments, Undisturbed(p), PaymentAgrees(p)',
         \/ Live(p)' => Live(p) /\ purchase'[p] = purchase[p]
         \/ \A q \in Payments \ {p} : purchase[q] = purchase'[p] => ~Live(q),
         ChecksRest, UNCHANGED attempts,
         page[p] = "paid" => page'[p] = "paid"
  PROVE  Agreement'
<1>1. \A q \in Payments \ {p} : PaymentAgrees(q)'
  <2> SUFFICES ASSUME NEW q \in Payments \ {p} PROVE PaymentAgrees(q)'
    OBVIOUS
  <2>1. PaymentAgrees(q)
    BY DEF Agreement
  <2> QED BY <2>1 DEF Undisturbed, PaymentAgrees, ByWallet, UsesCoupon
<1>2. \A q \in Payments \ {p} : Live(q)' => Live(q)
  BY DEF Undisturbed, Live, ByWallet
<1>3. WalletApart'
  <2> SUFFICES ASSUME NEW q \in Payments, NEW r \in Payments, q # r, (purchase[q] = purchase[r])', Live(q)', Live(r)' PROVE FALSE
    BY DEF WalletApart
  <2>1. CASE q # p /\ r # p
    BY <1>2, <2>1 DEF Agreement, WalletApart, Undisturbed
  <2>2. CASE q = p
    BY <1>2, <2>2 DEF Agreement, WalletApart, Undisturbed
  <2>3. CASE r = p
    BY <1>2, <2>3 DEF Agreement, WalletApart, Undisturbed
  <2> QED BY <2>1, <2>2, <2>3
<1>4. ASSUME NEW c \in AllCheckers PROVE CheckAgrees(c)'
  <2>1. CheckAgrees(c) /\ (check[c].at # "idle" => check[c].payment \in Payments)
    BY DEF Agreement, TypeOK
  <2>2. \A q \in Payments : page[q] = "paid" => page'[q] = "paid"
    BY DEF Undisturbed
  <2> QED BY <2>1, <2>2 DEF CheckAgrees, ChecksRest, Resting
<1> QED BY <1>1, <1>3, <1>4 DEF Agreement

\* A step that only moves the request on.
LEMMA Moves ==
  ASSUME Agreement, NEW p \in Payments, NEW step \in RequestSteps, Goes(p, step),
         UNCHANGED <<purchase, plan, rowVars, page, check, late, owned>>,
         PaymentAgrees(p)',
         \/ Live(p)' => Live(p)
         \/ \A q \in Payments \ {p} : purchase[q] = purchase[p] => ~Live(q)
  PROVE  Agreement'
<1>1. TypeOK
  BY DEF Agreement
<1>2. /\ request' \in [Payments -> RequestType]
      /\ \A q \in Payments \ {p} : request'[q] = request[q]
  BY <1>1, Typed
<1>3. TypeOK'
  BY <1>1, <1>2 DEF TypeOK, rowVars
<1>4. Undisturbed(p) /\ UNCHANGED <<check, attempts>> /\ purchase' = purchase /\ page' = page
  BY <1>2 DEF Undisturbed, rowVars
<1> QED BY <1>1, <1>3, <1>4, SameChecks, OnePayment DEF rowVars

-----------------------------------------------------------------------------
(* The request                                                             *)

LEMMA StartAgrees ==
  ASSUME Agreement, NEW p \in Payments, NEW u \in Purchases, NEW how \in Plans, Start(p, u, how)
  PROVE  Agreement'
<1>1. TypeOK /\ PaymentAgrees(p) /\ u # Nobody /\ how # Nobody /\ how \in AllPlans
  BY PlanAssumption, NobodyAssumption DEF Agreement, AllPlans, Nobody
<1>2. /\ FirstStep(how) \in {"find", "guard", "coupon", "insert"}
      /\ FirstStep(how) = "find" => how = "card"
      /\ FirstStep(how) = "guard" => how \in {"wallet", "coupon_wallet"}
      /\ FirstStep(how) = "coupon" => how \in {"coupon_card", "coupon_free"}
      /\ FirstStep(how) = "insert" => how = "bank"
  BY <1>1 DEF FirstStep, AllPlans
<1>3. /\ purchase' = [purchase EXCEPT ![p] = u] /\ plan' = [plan EXCEPT ![p] = how]
      /\ Goes(p, FirstStep(how)) /\ UNCHANGED <<rowVars, page, check, late, owned>>
      /\ purchase[p] = Nobody
  BY DEF Start, Started
<1>4. /\ request' \in [Payments -> RequestType]
      /\ request'[p].at = FirstStep(how)
      /\ \A q \in Payments \ {p} : request'[q] = request[q]
  BY <1>1, <1>2, <1>3, Typed DEF RequestSteps
<1>5. request[p].at = "idle" /\ status[p] = "none" /\ page[p] = "none" /\ age[p] = 0
  BY <1>1, <1>3 DEF PaymentAgrees, Unwritten
<1>6. TypeOK'
  BY <1>1, <1>3, <1>4 DEF TypeOK, rowVars
<1>7. purchase'[p] = u /\ plan'[p] = how /\ page'[p] = "none" /\ age'[p] = 0 /\ status'[p] = "none"
  BY <1>1, <1>3, <1>5 DEF TypeOK, rowVars
<1>8. PaymentAgrees(p)' /\ ~Live(p)'
  BY <1>1, <1>2, <1>4, <1>7 DEF PaymentAgrees, Live, Unwritten, CardPlans, ByWallet, UsesCoupon
<1>9. Undisturbed(p)
  BY <1>1, <1>3, <1>4 DEF Undisturbed, TypeOK, rowVars
<1> QED BY <1>1, <1>3, <1>5, <1>6, <1>8, <1>9, SameChecks, OnePayment DEF rowVars

\* Requests that find a page, are refused or end.
LEMMA EndAgrees ==
  ASSUME Agreement, NEW p \in Payments, FindOpen(p) \/ CannotPay(p) \/ Die(p)
  PROVE  Agreement'
<1>1. TypeOK /\ PaymentAgrees(p)
  BY DEF Agreement
<1>2. PICK step \in {"over", "insert", "failing"} :
        /\ Goes(p, step) /\ UNCHANGED <<purchase, plan, rowVars, page, check, late, owned>>
        /\ step = "insert" => request[p].at = "find"
        /\ request[p].at \notin {"idle", "over"}
  BY DEF FindOpen, CannotPay, Die
<1>3. request'[p].at = step
  BY <1>1, <1>2, Typed DEF RequestSteps
<1>4. PaymentAgrees(p)' /\ (Live(p)' => Live(p))
  BY <1>1, <1>2, <1>3 DEF PaymentAgrees, Live, Unwritten, CardPlans, ByWallet, UsesCoupon, rowVars
<1> QED BY <1>2, <1>4, Moves DEF RequestSteps

\* The try-lock and the SELECT: nobody else is at work on the purchase with a
\* wallet, or has confirmed one.
LEMMA GuardAgrees ==
  ASSUME Agreement, NEW p \in Payments, Guard(p)
  PROVE  Agreement'
<1>1. TypeOK /\ PaymentAgrees(p) /\ request[p].at = "guard"
  BY DEF Agreement, Guard
<1>2. PICK step \in {"coupon", "guarded", "over"} :
        /\ Goes(p, step) /\ UNCHANGED <<purchase, plan, rowVars, page, check, late, owned>>
        /\ step = "coupon" => UsesCoupon(p)
        /\ step = "guarded" => ~UsesCoupon(p)
        /\ step # "over" => GuardFree(purchase[p]) /\ ~\E q \in Payments : InTheWay(p, q)
  BY DEF Guard
<1>3. request'[p].at = step
  BY <1>1, <1>2, Typed DEF RequestSteps
<1>4. PaymentAgrees(p)'
  BY <1>1, <1>2, <1>3 DEF PaymentAgrees, Unwritten, CardPlans, ByWallet, UsesCoupon, rowVars
<1>5. CASE step = "over"
  <2>1. ~Live(p)'
    BY <1>1, <1>2, <1>3, <1>5 DEF Live, PaymentAgrees, Unwritten, rowVars
  <2> QED BY <1>2, <1>4, <2>1, Moves DEF RequestSteps
<1>6. CASE step # "over"
  <2>1. ASSUME NEW q \in Payments \ {p}, purchase[q] = purchase[p] PROVE ~Live(q)
    <3>1. PaymentAgrees(q)
      BY DEF Agreement
    <3> QED BY <1>2, <1>6, <2>1, <3>1 DEF Live, GuardFree, InTheWay, PaymentAgrees
  <2> QED BY <1>2, <1>4, <2>1, Moves DEF RequestSteps
<1> QED BY <1>5, <1>6

LEMMA LockCouponAgrees ==
  ASSUME Agreement, NEW p \in Payments, LockCoupon(p)
  PROVE  Agreement'
<1>1. TypeOK /\ PaymentAgrees(p) /\ request[p].at = "coupon"
      /\ UNCHANGED <<purchase, plan, rowVars, page, check, late, owned>>
  BY DEF Agreement, LockCoupon
<1>2. CASE Goes(p, "over")
  <2>1. request'[p].at = "over"
    BY <1>1, <1>2, Typed DEF RequestSteps
  <2>2. PaymentAgrees(p)' /\ (Live(p)' => Live(p))
    BY <1>1, <2>1 DEF PaymentAgrees, Live, Unwritten, CardPlans, ByWallet, UsesCoupon, rowVars
  <2> QED BY <1>1, <1>2, <2>2, Moves DEF RequestSteps
<1>3. CASE request' = [request EXCEPT ![p] = [at |-> "counted", mine |-> Mine(p), uses |-> Cardinality(ConfirmedUses)]]
  <2>1. Mine(p) \subseteq Payments /\ Cardinality(ConfirmedUses) \in Nat
    BY FiniteAssumption, FS_Subset, FS_CardinalityType DEF Mine, Holds, ConfirmedUses, Confirmed
  <2>2. /\ request' \in [Payments -> RequestType] /\ request'[p].at = "counted"
        /\ \A q \in Payments \ {p} : request'[q] = request[q]
    BY <1>1, <1>3, <2>1 DEF TypeOK, RequestType
  <2>3. TypeOK'
    BY <1>1, <2>2 DEF TypeOK, rowVars
  <2>4. PaymentAgrees(p)' /\ (Live(p)' => Live(p)) /\ Undisturbed(p)
    BY <1>1, <2>2 DEF PaymentAgrees, Live, Undisturbed, Unwritten, CardPlans, ByWallet, UsesCoupon, rowVars
  <2> QED BY <1>1, <2>3, <2>4, SameChecks, OnePayment DEF rowVars
<1> QED BY <1>2, <1>3 DEF LockCoupon

\* The row is inserted by a request whose wallet payment, if it is one, was alone.
LEMMA InsertAgrees ==
  ASSUME Agreement, NEW p \in Payments, Insert(p)
  PROVE  Agreement'
<1>1. TypeOK /\ PaymentAgrees(p) /\ request[p].at \in {"insert", "guarded"}
      /\ status' = [status EXCEPT ![p] = "pending"]
      /\ UNCHANGED <<purchase, plan, stored, age, attempts, page, check, late, owned>>
  BY DEF Agreement, Insert, Inserted
<1>2. PICK step \in {"page", "settle"} : Goes(p, step) /\ (step = "page" <=> plan[p] = "card")
  BY DEF Insert
<1>3. /\ request' \in [Payments -> RequestType] /\ request'[p].at = step
      /\ \A q \in Payments \ {p} : request'[q] = request[q]
  BY <1>1, <1>2, Typed DEF RequestSteps
<1>4. TypeOK' /\ status'[p] = "pending"
  BY <1>1, <1>3 DEF TypeOK
<1>5. PaymentAgrees(p)' /\ (Live(p)' => Live(p))
  BY <1>1, <1>2, <1>3, <1>4 DEF PaymentAgrees, Live, Unwritten, CardPlans, ByWallet, UsesCoupon
<1>6. Undisturbed(p)
  BY <1>1, <1>3 DEF Undisturbed, TypeOK
<1> QED BY <1>1, <1>4, <1>5, <1>6, SameChecks, OnePayment

LEMMA OpenCouponAgrees ==
  ASSUME Agreement, NEW p \in Payments, OpenCoupon(p)
  PROVE  Agreement'
<1>1. TypeOK /\ PaymentAgrees(p) /\ request[p].at = "counted"
      /\ UNCHANGED <<purchase, plan, stored, age, attempts, page, check, late, owned>>
  BY DEF Agreement, OpenCoupon
<1>2. CASE Fits(p)
  <2>1. status' = [q \in Payments |->
             IF q = p THEN "pending"
             ELSE IF q \in Superseded(p) /\ status[q] = "pending" THEN "failed" ELSE status[q]]
    BY <1>2 DEF OpenCoupon
  <2>2. PICK step \in {"page", "settle"} : Goes(p, step) /\ (step = "page" <=> plan[p] = "coupon_card")
    BY <1>2 DEF OpenCoupon
  <2>3. /\ request' \in [Payments -> RequestType] /\ request'[p].at = step
        /\ \A q \in Payments \ {p} : request'[q] = request[q]
    BY <1>1, <2>2, Typed DEF RequestSteps
  <2>4. status' \in [Payments -> {"none", "pending", "failed", "confirmed"}] /\ status'[p] = "pending"
    BY <1>1, <2>1 DEF TypeOK
  <2>5. TypeOK'
    BY <1>1, <2>3, <2>4 DEF TypeOK
  <2>6. PaymentAgrees(p)' /\ (Live(p)' => Live(p))
    BY <1>1, <2>2, <2>3, <2>4 DEF PaymentAgrees, Live, Unwritten, CardPlans, ByWallet, UsesCoupon
  <2>7. Undisturbed(p)
    BY <1>1, <2>1, <2>3 DEF Undisturbed
  <2> QED BY <1>1, <2>5, <2>6, <2>7, SameChecks, OnePayment
<1>3. CASE ~Fits(p)
  <2>1. Goes(p, "over") /\ UNCHANGED rowVars
    BY <1>1, <1>3 DEF OpenCoupon, rowVars
  <2>2. request'[p].at = "over"
    BY <1>1, <2>1, Typed DEF RequestSteps
  <2>3. PaymentAgrees(p)' /\ (Live(p)' => Live(p))
    BY <1>1, <2>1, <2>2 DEF PaymentAgrees, Live, Unwritten, CardPlans, ByWallet, UsesCoupon, rowVars
  <2> QED BY <1>1, <2>1, <2>3, Moves DEF RequestSteps
<1> QED BY <1>2, <1>3

-----------------------------------------------------------------------------
(* Confirming, failing, paying                                             *)

\* A confirmation of a payment that has been paid, or that settles by itself.
LEMMA ConfirmAgrees ==
  ASSUME Agreement, NEW p \in Payments, Confirms(p),
         purchase[p] # Nobody, Live(p) \/ ~ByWallet(p), request[p].at \notin Unwritten,
         ChecksRest, UNCHANGED <<purchase, plan, page, owned>>,
         Goes(p, "over") \/ UNCHANGED request
  PROVE  Agreement'
<1>1. TypeOK /\ PaymentAgrees(p)
      /\ status' = [status EXCEPT ![p] = "confirmed"] /\ UNCHANGED <<stored, age, attempts>>
      /\ late' \subseteq Payments
  BY DEF Agreement, Confirms, TypeOK
<1>2. /\ request' \in [Payments -> RequestType] /\ (request'[p].at = "over" \/ request' = request)
      /\ \A q \in Payments \ {p} : request'[q] = request[q]
  BY <1>1, Typed DEF RequestSteps, TypeOK
<1>3. TypeOK' /\ status'[p] = "confirmed"
  <2>1. \A c \in AllCheckers : check'[c].at # "idle" => check'[c].payment \in Payments
    BY <1>1 DEF TypeOK, ChecksRest, Resting
  <2>2. status' \in [Payments -> {"none", "pending", "failed", "confirmed"}] /\ status'[p] = "confirmed"
    BY <1>1 DEF TypeOK
  <2> QED BY <1>1, <1>2, <2>1, <2>2 DEF TypeOK, ChecksRest
<1>4. PaymentAgrees(p)' /\ (Live(p)' => Live(p))
  BY <1>1, <1>2, <1>3 DEF PaymentAgrees, Live, Unwritten, CardPlans, ByWallet, UsesCoupon
<1>5. Undisturbed(p)
  BY <1>1, <1>2 DEF Undisturbed, TypeOK
<1> QED BY <1>1, <1>3, <1>4, <1>5, OnePayment

LEMMA SettleAgrees ==
  ASSUME Agreement, NEW p \in Payments, Settle(p) \/ ReplayBank(p)
  PROVE  Agreement'
<1>1. TypeOK /\ PaymentAgrees(p)
  BY DEF Agreement
<1>2. CASE Confirms(p)
  <2>1. /\ UNCHANGED <<purchase, plan, page, check, owned>> /\ (Goes(p, "over") \/ UNCHANGED request)
        /\ request[p].at \in {"settle", "over"} /\ (request[p].at = "over" => plan[p] = "bank")
    BY <1>1, <1>2 DEF Settle, ReplayBank, Claimable, Confirms
  <2>2. request[p].at \notin Unwritten /\ purchase[p] # Nobody
    BY <1>1, <2>1 DEF PaymentAgrees, Unwritten
  <2>3. Live(p) \/ ~ByWallet(p)
    BY <1>2, <2>1 DEF Live, ByWallet, Confirms, Claimable
  <2> QED BY <1>2, <2>1, <2>2, <2>3, SameChecks, ConfirmAgrees DEF Agreement
<1>3. CASE ~Confirms(p)
  <2>1. /\ Goes(p, "failing") /\ UNCHANGED <<purchase, plan, rowVars, page, check, late, owned>>
        /\ request[p].at = "settle" /\ ~Claimable(p)
    BY <1>3 DEF Settle, ReplayBank, Stays, Unaltered
  <2>2. request'[p].at = "failing"
    BY <1>1, <2>1, Typed DEF RequestSteps
  <2>3. PaymentAgrees(p)' /\ (Live(p)' => Live(p))
    BY <1>1, <2>1, <2>2 DEF PaymentAgrees, Live, Unwritten, CardPlans, ByWallet, UsesCoupon, rowVars
  <2> QED BY <2>1, <2>3, Moves DEF RequestSteps
<1> QED BY <1>2, <1>3

\* A step after which a pending row has failed.
LEMMA FailAgrees ==
  ASSUME Agreement, NEW p \in Payments, FailCheckout(p)
  PROVE  Agreement'
<1>1. TypeOK /\ PaymentAgrees(p) /\ Fails(p) /\ Goes(p, "over") /\ UNCHANGED <<purchase, plan, page, check, late, owned>>
      /\ request[p].at = "failing"
  BY DEF Agreement, FailCheckout
<1>2. /\ request' \in [Payments -> RequestType] /\ request'[p].at = "over"
      /\ \A q \in Payments \ {p} : request'[q] = request[q]
  BY <1>1, Typed DEF RequestSteps
<1>3. TypeOK' /\ status'[p] \in {status[p], "failed"} /\ UNCHANGED <<age, attempts>>
  BY <1>1, <1>2 DEF TypeOK, Fails
<1>4. PaymentAgrees(p)' /\ (Live(p)' => Live(p))
  BY <1>1, <1>2, <1>3 DEF PaymentAgrees, Live, Unwritten, CardPlans, ByWallet, UsesCoupon
<1>5. Undisturbed(p)
  BY <1>1, <1>2 DEF Undisturbed, TypeOK, Fails
<1> QED BY <1>1, <1>3, <1>4, <1>5, SameChecks, OnePayment

LEMMA PageAgrees ==
  ASSUME Agreement, NEW p \in Payments, OpenPage(p)
  PROVE  Agreement'
<1>1. TypeOK /\ PaymentAgrees(p) /\ request[p].at = "page" /\ UNCHANGED <<purchase, plan, rowVars, check, late, owned>>
  BY DEF Agreement, OpenPage
<1>2. PICK step \in {"store", "failing"} :
        Goes(p, step) /\ page' = IF step = "store" THEN [page EXCEPT ![p] = "open"] ELSE page
  BY DEF OpenPage
<1>3. /\ request' \in [Payments -> RequestType] /\ request'[p].at = step
      /\ \A q \in Payments \ {p} : request'[q] = request[q]
  BY <1>1, <1>2, Typed DEF RequestSteps
<1>4. TypeOK' /\ page[p] = "none"
  BY <1>1, <1>2, <1>3 DEF TypeOK, rowVars, PaymentAgrees
<1>5. PaymentAgrees(p)' /\ (Live(p)' => Live(p))
  BY <1>1, <1>2, <1>3 DEF PaymentAgrees, Live, Unwritten, CardPlans, ByWallet, UsesCoupon, rowVars
<1>6. Undisturbed(p)
  BY <1>1, <1>2, <1>3 DEF Undisturbed, TypeOK, rowVars
<1> QED BY <1>1, <1>4, <1>5, <1>6, SameChecks, OnePayment DEF rowVars

LEMMA StoreAgrees ==
  ASSUME Agreement, NEW p \in Payments, StoreUrl(p)
  PROVE  Agreement'
<1>1. TypeOK /\ PaymentAgrees(p) /\ request[p].at = "store" /\ UNCHANGED <<purchase, plan, status, age, attempts, page, check, late, owned>>
      /\ stored' \subseteq Payments
  BY DEF Agreement, StoreUrl, TypeOK
<1>2. PICK step \in {"over", "failing"} : Goes(p, step)
  BY DEF StoreUrl
<1>3. /\ request' \in [Payments -> RequestType] /\ request'[p].at = step
      /\ \A q \in Payments \ {p} : request'[q] = request[q]
  BY <1>1, <1>2, Typed DEF RequestSteps
<1>4. TypeOK'
  BY <1>1, <1>3 DEF TypeOK
<1>5. PaymentAgrees(p)' /\ (Live(p)' => Live(p))
  BY <1>1, <1>2, <1>3 DEF PaymentAgrees, Live, Unwritten, CardPlans, ByWallet, UsesCoupon
<1>6. Undisturbed(p)
  BY <1>1, <1>3 DEF Undisturbed
<1> QED BY <1>1, <1>4, <1>5, <1>6, SameChecks, OnePayment

\* The learner at Chapa, enrollment, and time.
LEMMA WorldAgrees ==
  ASSUME Agreement, NEW p \in Payments, Pay(p) \/ Cancel(p) \/ Granted(p) \/ Elapse(p)
  PROVE  Agreement'
<1>1. TypeOK /\ PaymentAgrees(p) /\ UNCHANGED <<purchase, plan, request, status, stored, attempts, check, late>>
  BY DEF Agreement, Pay, Cancel, Granted, Elapse, rowVars
<1>2. CASE Pay(p) \/ Cancel(p)
  <2>1. PICK at \in {"paid", "cancelled"} : page' = [page EXCEPT ![p] = at] /\ page[p] \notin {"none", "paid"} /\ UNCHANGED <<age, owned>>
    BY <1>2 DEF Pay, Cancel, rowVars
  <2>2. TypeOK' /\ page'[p] = at
    BY <1>1, <2>1 DEF TypeOK
  <2>3. PaymentAgrees(p)' /\ (Live(p)' => Live(p)) /\ Undisturbed(p)
    BY <1>1, <2>1, <2>2 DEF PaymentAgrees, Live, Unwritten, CardPlans, ByWallet, UsesCoupon, Undisturbed, TypeOK
  <2> QED BY <1>1, <2>1, <2>2, <2>3, SameChecks, OnePayment
<1>3. CASE Granted(p)
  <2>1. status[p] = "confirmed" /\ owned' = owned \cup {purchase[p]} /\ UNCHANGED <<age, page>>
    BY <1>3 DEF Granted, rowVars
  <2>2. purchase[p] \in Purchases
    BY <1>1, <2>1 DEF TypeOK, PaymentAgrees, Unwritten
  <2>3. TypeOK'
    BY <1>1, <2>1, <2>2 DEF TypeOK
  <2>4. PaymentAgrees(p)' /\ (Live(p)' => Live(p)) /\ Undisturbed(p)
    BY <1>1, <2>1 DEF PaymentAgrees, Live, ByWallet, UsesCoupon, Undisturbed
  <2> QED BY <1>1, <2>1, <2>3, <2>4, SameChecks, OnePayment
<1>4. CASE Elapse(p)
  <2>1. /\ request[p].at = "over" /\ age[p] < MaxAge /\ age' = [age EXCEPT ![p] = age[p] + 1] /\ UNCHANGED <<page, owned>>
    BY <1>4 DEF Elapse
  <2>2. TypeOK'
    BY <1>1, <2>1, LimitAssumption DEF TypeOK, Ages
  <2>3. PaymentAgrees(p)' /\ (Live(p)' => Live(p)) /\ Undisturbed(p)
    BY <1>1, <2>1 DEF PaymentAgrees, Live, Unwritten, ByWallet, UsesCoupon, Undisturbed, TypeOK
  <2> QED BY <1>1, <2>1, <2>2, <2>3, SameChecks, OnePayment
<1> QED BY <1>2, <1>3, <1>4

-----------------------------------------------------------------------------
(* Verifying                                                               *)

\* A step of the checks alone, apart from the attempts.
LEMMA CheckStep ==
  ASSUME Agreement, TypeOK', NEW c \in AllCheckers,
         UNCHANGED <<purchase, plan, request, status, age, page>>,
         \A d \in AllCheckers \ {c} : check'[d] = check[d] /\ CheckAgrees(d)',
         CheckAgrees(c)'
  PROVE  Agreement'
<1>1. \A p \in Payments : PaymentAgrees(p)'
  BY DEF Agreement, PaymentAgrees, ByWallet, UsesCoupon
<1>2. WalletApart'
  BY DEF Agreement, WalletApart, Live, ByWallet
<1> QED BY <1>1, <1>2 DEF Agreement

LEMMA BeginAgrees ==
  ASSUME Agreement, NEW p \in Payments,
         (\E c \in Checkers : BeginWebhook(c, p)) \/ BeginSweep(p) \/ BeginExpiry(p)
  PROVE  Agreement'
<1>1. PICK c \in AllCheckers, by \in {"webhook", "sweep", "expiry"} :
        Checks(c, p, by) /\ (by = "sweep" => c = Sweep /\ attempts[p] < MaxAttempts)
  BY DEF BeginWebhook, BeginSweep, BeginExpiry, Sweepable, AllCheckers
<1>2. TypeOK /\ \A d \in AllCheckers : CheckAgrees(d)
  BY DEF Agreement
<1>3. /\ check' = [check EXCEPT ![c] = [at |-> "verify", payment |-> p, by |-> by, answer |-> "none"]]
      /\ UNCHANGED <<purchase, plan, request, status, stored, age, attempts, page, late, owned>>
  BY <1>1 DEF Checks, rowVars
<1>4. TypeOK'
  <2>1. check' \in [AllCheckers -> CheckType]
    BY <1>2, <1>3 DEF TypeOK, CheckType
  <2>2. \A d \in AllCheckers : check'[d].at # "idle" => check'[d].payment \in Payments
    BY <1>2, <1>3 DEF TypeOK
  <2> QED BY <1>2, <1>3, <2>1, <2>2 DEF TypeOK
<1>5. check'[c] = [at |-> "verify", payment |-> p, by |-> by, answer |-> "none"] /\ \A d \in AllCheckers \ {c} : check'[d] = check[d]
  BY <1>2, <1>3 DEF TypeOK
<1>6. \A d \in AllCheckers \ {c} : CheckAgrees(d)'
  BY <1>2, <1>3, <1>5 DEF CheckAgrees
<1>7. CheckAgrees(c)'
  BY <1>1, <1>3, <1>5 DEF CheckAgrees
<1> QED BY <1>3, <1>4, <1>5, <1>6, <1>7, CheckStep

LEMMA VerifyAgrees ==
  ASSUME Agreement, NEW c \in AllCheckers, NEW answer \in {"paid", "failed", "pending", "unclear"}, Verify(c, answer)
  PROVE  Agreement'
<1> DEFINE p == check[c].payment
<1>1. TypeOK /\ p \in Payments /\ \A d \in AllCheckers : CheckAgrees(d)
  BY DEF Agreement, TypeOK, Verify
<1>2. /\ check[c].at = "verify" /\ answer \in Answers(p)
      /\ check' = [check EXCEPT ![c] = [at |-> "apply", payment |-> p, by |-> check[c].by, answer |-> answer]]
      /\ attempts' = [attempts EXCEPT ![p] = IF check[c].by = "sweep" THEN attempts[p] + 1 ELSE attempts[p]]
      /\ UNCHANGED <<purchase, plan, request, status, stored, age, page, late, owned>>
  BY DEF Verify
<1>3. attempts' \in [Payments -> 0 .. MaxAttempts]
  BY <1>1, <1>2, LimitAssumption DEF TypeOK, CheckAgrees
<1>4. TypeOK'
  <2>1. check' \in [AllCheckers -> CheckType]
    BY <1>1, <1>2 DEF TypeOK, CheckType
  <2>2. \A d \in AllCheckers : check'[d].at # "idle" => check'[d].payment \in Payments
    BY <1>1, <1>2 DEF TypeOK
  <2> QED BY <1>1, <1>2, <1>3, <2>1, <2>2 DEF TypeOK
<1>5. check'[c] = [at |-> "apply", payment |-> p, by |-> check[c].by, answer |-> answer] /\ \A d \in AllCheckers \ {c} : check'[d] = check[d]
  BY <1>1, <1>2 DEF TypeOK
<1>6. \A d \in AllCheckers \ {c} : CheckAgrees(d)'
  <2>1. CASE check[c].by = "sweep"
    BY <1>1, <1>2, <1>5, <2>1 DEF CheckAgrees
  <2>2. CASE check[c].by # "sweep"
    <3>1. attempts' = attempts
      BY <1>1, <1>2, <2>2 DEF TypeOK
    <3> QED BY <1>1, <1>2, <1>5, <3>1 DEF CheckAgrees
  <2> QED BY <2>1, <2>2
<1>7. CheckAgrees(c)'
  BY <1>2, <1>5 DEF CheckAgrees, Answers
<1> QED BY <1>2, <1>4, <1>5, <1>6, <1>7, CheckStep

LEMMA UnverifiedAgrees ==
  ASSUME Agreement, NEW c \in AllCheckers, Unverified(c)
  PROVE  Agreement'
<1>1. TypeOK /\ \A d \in AllCheckers : CheckAgrees(d)
  BY DEF Agreement
<1>2. check' = [check EXCEPT ![c] = Resting] /\ UNCHANGED <<purchase, plan, request, status, stored, age, attempts, page, late, owned>>
  BY DEF Unverified, rowVars
<1>3. check'[c] = Resting /\ \A d \in AllCheckers \ {c} : check'[d] = check[d]
  BY <1>1, <1>2 DEF TypeOK
<1>4. TypeOK'
  <2>1. check' \in [AllCheckers -> CheckType]
    BY <1>1, <1>2 DEF TypeOK, CheckType, Resting
  <2>2. \A d \in AllCheckers : check'[d].at # "idle" => check'[d].payment \in Payments
    BY <1>1, <1>3 DEF TypeOK, Resting
  <2> QED BY <1>1, <1>2, <2>1, <2>2 DEF TypeOK
<1>5. \A d \in AllCheckers : CheckAgrees(d)'
  BY <1>1, <1>2, <1>3 DEF CheckAgrees, Resting
<1> QED BY <1>2, <1>3, <1>4, <1>5, CheckStep

LEMMA ApplyAgrees ==
  ASSUME Agreement, NEW c \in AllCheckers, Apply(c)
  PROVE  Agreement'
<1>0. PICK p \in Payments : p = check[c].payment
  BY DEF Agreement, TypeOK, Apply
<1>1. TypeOK /\ CheckAgrees(c) /\ check[c].at = "apply" /\ PaymentAgrees(p)
  BY DEF Agreement, Apply
<1>2. check' = [check EXCEPT ![c] = Resting] /\ UNCHANGED <<purchase, plan, request, page, owned>>
  BY DEF Apply
<1>3. ChecksRest
  BY <1>1, <1>2 DEF TypeOK, ChecksRest, CheckType, Resting
<1>4. CASE check[c].answer = "paid" /\ Confirms(p)
  <2>1. page[p] = "paid"
    BY <1>0, <1>1, <1>4 DEF CheckAgrees
  <2>2. purchase[p] # Nobody /\ ~ByWallet(p) /\ request[p].at \notin Unwritten
    BY <1>1, <2>1 DEF PaymentAgrees, CardPlans, ByWallet, Unwritten
  <2> QED BY <1>1, <1>2, <1>3, <1>4, <2>2, ConfirmAgrees
<1>5. CASE Fails(p) /\ UNCHANGED late
  <2>1. TypeOK' /\ status'[p] \in {status[p], "failed"} /\ UNCHANGED <<stored, age, attempts>>
        /\ (status'[p] = "failed" => status[p] \in {"failed", "pending"})
    BY <1>1, <1>2, <1>3, <1>5 DEF TypeOK, Fails, ChecksRest, Resting
  <2>2. PaymentAgrees(p)' /\ (Live(p)' => Live(p))
    BY <1>1, <1>2, <2>1 DEF PaymentAgrees, Live, Unwritten, CardPlans, ByWallet, UsesCoupon
  <2>3. Undisturbed(p)
    BY <1>1, <1>2, <1>5 DEF Undisturbed, TypeOK, Fails
  <2> QED BY <1>1, <1>2, <1>3, <2>1, <2>2, <2>3, OnePayment
<1>6. CASE Stays
  <2>1. TypeOK' /\ UNCHANGED <<status, age, attempts>>
    BY <1>1, <1>2, <1>3, <1>6 DEF TypeOK, Stays, Unaltered, rowVars, ChecksRest, Resting
  <2>2. PaymentAgrees(p)' /\ (Live(p)' => Live(p)) /\ Undisturbed(p)
    BY <1>1, <1>2, <2>1 DEF PaymentAgrees, Live, ByWallet, UsesCoupon, Undisturbed
  <2> QED BY <1>1, <1>2, <1>3, <2>1, <2>2, OnePayment
<1> QED BY <1>0, <1>4, <1>5, <1>6 DEF Apply

-----------------------------------------------------------------------------
(* The invariant holds                                                     *)

LEMMA AgreementNext ==
  ASSUME Agreement, [Next]_vars PROVE Agreement'
<1>1. ASSUME NEW p \in Payments, NEW u \in Purchases, NEW how \in Plans, Start(p, u, how) PROVE Agreement'
  BY <1>1, StartAgrees
<1>2. ASSUME NEW p \in Payments, RequestStep(p) \/ ReplayBank(p) \/ Die(p) PROVE Agreement'
  BY <1>2, EndAgrees, GuardAgrees, InsertAgrees, LockCouponAgrees, OpenCouponAgrees, SettleAgrees, PageAgrees, StoreAgrees, FailAgrees
     DEF RequestStep
<1>3. ASSUME NEW p \in Payments, Pay(p) \/ Cancel(p) \/ Granted(p) \/ Elapse(p) PROVE Agreement'
  BY <1>3, WorldAgrees
<1>4. ASSUME NEW p \in Payments, (\E c \in Checkers : BeginWebhook(c, p)) \/ BeginSweep(p) \/ BeginExpiry(p) PROVE Agreement'
  BY <1>4, BeginAgrees
<1>5. ASSUME NEW c \in AllCheckers,
             (\E answer \in {"paid", "failed", "pending", "unclear"} : Verify(c, answer)) \/ Unverified(c) \/ Apply(c)
      PROVE  Agreement'
  BY <1>5, VerifyAgrees, UnverifiedAgrees, ApplyAgrees
<1>6. CASE UNCHANGED vars
  <2>1. TypeOK'
    BY <1>6 DEF Agreement, TypeOK, vars, rowVars
  <2>2. \A c \in AllCheckers : CheckAgrees(c)'
    BY <1>6 DEF Agreement, CheckAgrees, vars, rowVars
  <2> QED BY <1>6, <2>1, <2>2 DEF Agreement, PaymentAgrees, WalletApart, Live, ByWallet, UsesCoupon, vars, rowVars
<1> QED BY <1>1, <1>2, <1>3, <1>4, <1>5, <1>6 DEF Next

\* The rows, the requests and the checks keep their types.
THEOREM TypeCorrect == Spec => []TypeOK
<1>1. Agreement => TypeOK
  BY DEF Agreement
<1> QED BY <1>1, AgreementInit, AgreementNext, PTL DEF Spec

-----------------------------------------------------------------------------
(* Checkout keeps the promise of Till                                      *)

Money == {p \in Payments : page[p] = "paid" \/ (status[p] = "confirmed" /\ plan[p] \notin {"card", "coupon_card"})}
Debits == {<<purchase[p], p>> : p \in {q \in Confirmed : ByWallet(q)}}

\* Steps that settle nothing and take nothing are stutters of Till.
LEMMA Stutters ==
  ASSUME \A p \in Payments :
           /\ page'[p] = "paid" <=> page[p] = "paid"
           /\ status'[p] = "confirmed" <=> status[p] = "confirmed"
           /\ status[p] = "confirmed" => plan'[p] = plan[p] /\ purchase'[p] = purchase[p]
  PROVE  UNCHANGED Promise!vars
<1>1. Money' = Money /\ Confirmed' = Confirmed
  BY DEF Money, Confirmed
<1>2. Debits' = Debits
  <2>1. {q \in Confirmed : ByWallet(q)}' = {q \in Confirmed : ByWallet(q)}
    BY DEF Confirmed, ByWallet
  <2> QED BY <2>1 DEF Debits, Confirmed
<1> QED BY <1>1, <1>2 DEF Promise!vars, Money, Debits

\* A confirmation honours what was taken, grants what costs nothing, or debits
\* a wallet for a purchase that no wallet was debited for.
LEMMA ConfirmPromised ==
  ASSUME Agreement, NEW p \in Payments, Confirms(p), UNCHANGED <<purchase, plan, page>>,
         purchase[p] # Nobody, ByWallet(p) => Live(p), status[p] # "confirmed",
         plan[p] \in CardPlans => page[p] = "paid"
  PROVE  Promise!Next
<1>1. TypeOK /\ status' = [status EXCEPT ![p] = "confirmed"]
  BY DEF Agreement, Confirms
<1>2. Confirmed' = Confirmed \cup {p} /\ p \notin Confirmed
  BY <1>1 DEF TypeOK, Confirmed
<1>3. Money' = Money \cup {p}
  BY <1>1 DEF TypeOK, Money, CardPlans
<1>4. PICK u \in Purchases : u = purchase[p]
  BY <1>1 DEF TypeOK
<1>5. CASE ByWallet(p)
  <2>1. \A q \in Payments : <<purchase[p], q>> \notin Debits
    <3> SUFFICES ASSUME NEW q \in Payments, <<purchase[p], q>> \in Debits PROVE FALSE
      OBVIOUS
    <3>1. q \in Confirmed /\ ByWallet(q) /\ purchase[q] = purchase[p]
      BY DEF Debits
    <3>2. q # p /\ Live(q)
      BY <1>2, <3>1 DEF Live, Confirmed
    <3> QED BY <1>5, <3>1, <3>2 DEF Agreement, WalletApart
  <2>2. Debits' = Debits \cup {<<purchase[p], p>>}
    <3>1. {q \in Confirmed : ByWallet(q)}' = {q \in Confirmed : ByWallet(q)} \cup {p}
      BY <1>2, <1>5 DEF ByWallet
    <3> QED BY <3>1 DEF Debits
  <2>3. Promise!Debit(p, u)
    BY <1>2, <1>3, <1>4, <2>1, <2>2 DEF Promise!Debit, Money, Debits
  <2> QED BY <2>3 DEF Promise!Next
<1>6. CASE ~ByWallet(p)
  <2>1. Debits' = Debits
    <3>1. {q \in Confirmed : ByWallet(q)}' = {q \in Confirmed : ByWallet(q)}
      BY <1>2, <1>6 DEF ByWallet
    <3> QED BY <3>1 DEF Debits
  <2>2. Promise!Grant(p)
    BY <1>2, <1>3, <2>1 DEF Promise!Grant, Money, Debits
  <2> QED BY <2>2 DEF Promise!Next
<1> QED BY <1>5, <1>6

LEMMA SettlePromised ==
  ASSUME Agreement, NEW p \in Payments, Settle(p) \/ ReplayBank(p)
  PROVE  [Promise!Next]_(Promise!vars)
<1>1. TypeOK /\ PaymentAgrees(p) /\ UNCHANGED <<purchase, plan, page>>
  BY DEF Agreement, Settle, ReplayBank
<1>2. CASE Confirms(p)
  <2>1. purchase[p] # Nobody /\ plan[p] \notin CardPlans /\ status[p] # "confirmed"
    BY <1>1, <1>2 DEF Settle, ReplayBank, PaymentAgrees, CardPlans, Confirms, Claimable
  <2>2. ByWallet(p) => Live(p)
    BY <1>1, <1>2 DEF Settle, ReplayBank, Live, ByWallet, Confirms, Claimable
  <2> QED BY <1>1, <1>2, <2>1, <2>2, ConfirmPromised
<1>3. CASE ~Confirms(p)
  <2>1. UNCHANGED status
    BY <1>3 DEF Settle, ReplayBank, Stays, Unaltered, rowVars
  <2> QED BY <1>1, <2>1, Stutters
<1> QED BY <1>2, <1>3

LEMMA ApplyPromised ==
  ASSUME Agreement, NEW c \in AllCheckers, Apply(c)
  PROVE  [Promise!Next]_(Promise!vars)
<1>0. PICK p \in Payments : p = check[c].payment
  BY DEF Agreement, TypeOK, Apply
<1>1. TypeOK /\ CheckAgrees(c) /\ PaymentAgrees(p) /\ UNCHANGED <<purchase, plan, page>> /\ check[c].at = "apply"
  BY DEF Agreement, Apply
<1>2. CASE check[c].answer = "paid" /\ Confirms(p)
  <2>1. page[p] = "paid"
    BY <1>0, <1>1, <1>2 DEF CheckAgrees
  <2>2. purchase[p] # Nobody /\ ~ByWallet(p) /\ status[p] # "confirmed"
    BY <1>1, <1>2, <2>1 DEF PaymentAgrees, CardPlans, ByWallet, Confirms, Claimable, Unwritten
  <2> QED BY <1>1, <1>2, <2>1, <2>2, ConfirmPromised
<1>3. CASE Fails(p)
  <2>1. \A q \in Payments : status'[q] = "confirmed" <=> status[q] = "confirmed"
    BY <1>1, <1>3 DEF TypeOK, Fails
  <2> QED BY <1>1, <2>1, Stutters
<1>4. CASE Stays
  BY <1>1, <1>4, Stutters DEF Stays, Unaltered, rowVars
<1> QED BY <1>0, <1>2, <1>3, <1>4 DEF Apply

LEMMA RequestPromised ==
  ASSUME Agreement, NEW p \in Payments,
         \/ \E u \in Purchases, how \in Plans : Start(p, u, how)
         \/ FindOpen(p) \/ Guard(p) \/ Insert(p) \/ LockCoupon(p) \/ OpenCoupon(p)
         \/ CannotPay(p) \/ OpenPage(p) \/ StoreUrl(p) \/ FailCheckout(p) \/ Die(p)
  PROVE  UNCHANGED Promise!vars
<1>1. TypeOK /\ PaymentAgrees(p)
  BY DEF Agreement
<1>2. CASE \E u \in Purchases, how \in Plans : Start(p, u, how)
  <2>1. /\ status[p] = "none" /\ UNCHANGED <<status, page>>
        /\ \A q \in Payments \ {p} : plan'[q] = plan[q] /\ purchase'[q] = purchase[q]
    BY <1>1, <1>2 DEF Start, Started, PaymentAgrees, Unwritten, rowVars, TypeOK
  <2> QED BY <2>1, Stutters
<1>3. CASE FindOpen(p) \/ Guard(p) \/ LockCoupon(p) \/ CannotPay(p) \/ StoreUrl(p) \/ Die(p)
  <2>1. UNCHANGED <<purchase, plan, status, page>>
    BY <1>3 DEF FindOpen, Guard, LockCoupon, CannotPay, StoreUrl, Die, rowVars
  <2> QED BY <2>1, Stutters
<1>4. CASE Insert(p) \/ FailCheckout(p)
  <2>1. UNCHANGED <<purchase, plan, page>>
    BY <1>4 DEF Insert, FailCheckout
  <2>2. \A q \in Payments : status'[q] = "confirmed" <=> status[q] = "confirmed"
    BY <1>1, <1>4 DEF Insert, Inserted, FailCheckout, Fails, PaymentAgrees, Unwritten, TypeOK
  <2> QED BY <2>1, <2>2, Stutters
<1>5. CASE OpenCoupon(p)
  <2>1. UNCHANGED <<purchase, plan, page>> /\ status[p] = "none"
    BY <1>1, <1>5 DEF OpenCoupon, PaymentAgrees, Unwritten
  <2>2. \A q \in Payments : status'[q] = "confirmed" <=> status[q] = "confirmed"
    BY <1>5, <2>1 DEF OpenCoupon
  <2> QED BY <2>1, <2>2, Stutters
<1>6. CASE OpenPage(p)
  <2>1. UNCHANGED <<purchase, plan, status>> /\ page[p] = "none"
    BY <1>1, <1>6 DEF OpenPage, PaymentAgrees, rowVars
  <2>2. \A q \in Payments : page'[q] = "paid" <=> page[q] = "paid"
    BY <1>1, <1>6, <2>1 DEF OpenPage, TypeOK
  <2> QED BY <2>1, <2>2, Stutters
<1> QED BY <1>2, <1>3, <1>4, <1>5, <1>6

LEMMA WorldPromised ==
  ASSUME Agreement, NEW p \in Payments, Pay(p) \/ Cancel(p) \/ Granted(p) \/ Elapse(p)
  PROVE  [Promise!Next]_(Promise!vars)
<1>1. TypeOK /\ UNCHANGED <<purchase, plan, status>>
  BY DEF Agreement, Pay, Cancel, Granted, Elapse, rowVars
<1>2. CASE Pay(p)
  <2>1. Confirmed' = Confirmed
    BY <1>1 DEF Confirmed
  <2>2. Debits' = Debits
    <3>1. {q \in Confirmed : ByWallet(q)}' = {q \in Confirmed : ByWallet(q)}
      BY <1>1, <2>1 DEF ByWallet
    <3> QED BY <1>1, <3>1 DEF Debits
  <2>3. Money' = Money \cup {p}
    BY <1>1, <1>2 DEF Pay, Money, TypeOK
  <2>4. Promise!Take(p)
    BY <2>1, <2>2, <2>3 DEF Promise!Take, Money, Debits
  <2> QED BY <2>4 DEF Promise!Next
<1>3. CASE ~Pay(p)
  <2>1. \A q \in Payments : page'[q] = "paid" <=> page[q] = "paid"
    BY <1>1, <1>3 DEF Cancel, Granted, Elapse, TypeOK
  <2> QED BY <1>1, <2>1, Stutters
<1> QED BY <1>2, <1>3

LEMMA ChecksPromised ==
  ASSUME \/ \E p \in Payments : (\E c \in Checkers : BeginWebhook(c, p)) \/ BeginSweep(p) \/ BeginExpiry(p)
         \/ \E c \in AllCheckers : Unverified(c) \/ \E answer \in {"paid", "failed", "pending", "unclear"} : Verify(c, answer)
  PROVE  UNCHANGED Promise!vars
<1>1. UNCHANGED <<purchase, plan, status, page>>
  BY DEF BeginWebhook, BeginSweep, BeginExpiry, Checks, Unverified, Verify, rowVars
<1> QED BY <1>1, Stutters

\* Checkout implements Till: what is honoured was paid for, and a purchase is
\* debited from a wallet once, for any number of requests, webhooks and jobs on
\* any number of payments (confirmPayment, guardCoursePurchase).
THEOREM PromiseKept == Spec => ImplementsTill
<1>1. Init => Promise!Init
  <2> SUFFICES ASSUME Init PROVE Promise!Init
    OBVIOUS
  <2>1. Money = {} /\ Confirmed = {}
    BY DEF Init, Money, Confirmed
  <2>2. Debits = {}
    BY <2>1 DEF Debits
  <2> QED BY <2>1, <2>2 DEF Promise!Init, Money, Debits
<1>2. Agreement /\ [Next]_vars => [Promise!Next]_(Promise!vars)
  <2> SUFFICES ASSUME Agreement, [Next]_vars PROVE [Promise!Next]_(Promise!vars)
    OBVIOUS
  <2>1. CASE UNCHANGED vars
    BY <2>1, Stutters DEF vars, rowVars
  <2>2. CASE Next
    BY <2>2, SettlePromised, ApplyPromised, RequestPromised, WorldPromised, ChecksPromised DEF Next, RequestStep
  <2> QED BY <2>1, <2>2
<1> QED BY <1>1, <1>2, AgreementInit, AgreementNext, PTL DEF Spec, ImplementsTill, Promise!Spec

-----------------------------------------------------------------------------
(* The bound of the coupon                                                 *)

\* A request that has counted the uses holds the coupon's lock, alone: what it
\* counted is still so, and its payer has no hold that it has not locked.
CountIsTrue(p) ==
  /\ request[p].uses = Cardinality(ConfirmedUses)
  /\ \A q \in request[p].mine : UsesCoupon(q) /\ status[q] = "pending" /\ Payer(q) = Payer(p)
  /\ \A q \in Holds : Payer(q) = Payer(p) => q \in request[p].mine
  /\ \A q \in Payments \ {p} : request[q].at # "counted"

Bounded ==
  /\ late \subseteq ConfirmedUses
  /\ CouponBound
  /\ \A p \in Payments : request[p].at = "counted" => CountIsTrue(p)

\* Sets of payments can be counted.
LEMMA Counted ==
  ASSUME NEW S \in SUBSET Payments
  PROVE  /\ IsFiniteSet(S) /\ Cardinality(S) \in Nat
         /\ \A T \in SUBSET S : IsFiniteSet(T) /\ Cardinality(T) \in Nat /\ Cardinality(T) <= Cardinality(S)
         /\ \A q \in Payments : q \notin S => Cardinality(S \cup {q}) = Cardinality(S) + 1
         /\ \A q \in S : Cardinality(S \ {q}) = Cardinality(S) - 1
<1>1. IsFiniteSet(S)
  BY FiniteAssumption, FS_Subset
<1>2. Cardinality(S) \in Nat
  BY <1>1, FS_CardinalityType
<1>3. \A T \in SUBSET S : IsFiniteSet(T) /\ Cardinality(T) \in Nat /\ Cardinality(T) <= Cardinality(S)
  BY <1>1, FS_Subset, FS_CardinalityType
<1>4. \A q \in Payments : q \notin S => Cardinality(S \cup {q}) = Cardinality(S) + 1
  BY <1>1, FS_AddElement
<1>5. \A q \in S : Cardinality(S \ {q}) = Cardinality(S) - 1
  BY <1>1, FS_RemoveElement
<1> QED BY <1>1, <1>2, <1>3, <1>4, <1>5

LEMMA BoundedInit == Init => Bounded
<1> SUFFICES ASSUME Init PROVE Bounded
  OBVIOUS
<1>1. ConfirmedUses = {} /\ Holds = {} /\ late = {}
  BY DEF Init, ConfirmedUses, Confirmed, Holds, LiveHold
<1>2. \A l \in Learners : Of({}, l) = {}
  BY DEF Of
<1>3. Cardinality({}) = 0
  BY FS_EmptySet
<1>4. CouponBound
  BY <1>1, <1>2, <1>3, LimitAssumption DEF CouponBound
<1>5. \A p \in Payments : request[p].at # "counted"
  BY DEF Init, Idle
<1> QED BY <1>1, <1>4, <1>5 DEF Bounded

\* Steps that confirm no use of the coupon and open no hold keep the bound, and
\* what a request has counted and locked.
LEMMA QuietStep ==
  ASSUME Agreement, Bounded,
         \A q \in Payments : status[q] # "none" => purchase'[q] = purchase[q] /\ plan'[q] = plan[q],
         \A q \in Payments : request[q].at = "counted" => purchase'[q] = purchase[q],
         \A q \in Payments : status[q] = "confirmed" => status'[q] = "confirmed",
         \A q \in Payments : status'[q] = "confirmed" => status[q] = "confirmed" \/ ~UsesCoupon(q)',
         \A q \in Payments : LiveHold(q)' => LiveHold(q),
         late' = late,
         \A q \in Payments : request'[q].at = "counted" => request'[q] = request[q],
         \A q, c \in Payments : request[c].at = "counted" /\ q \in request[c].mine => status'[q] = "pending"
  PROVE  Bounded'
<1>1. TypeOK
  BY DEF Agreement
<1>2. ConfirmedUses' = ConfirmedUses /\ ConfirmedUses \subseteq Payments
  BY DEF ConfirmedUses, Confirmed, UsesCoupon
<1>3. Holds' \subseteq Holds /\ Holds \subseteq Payments
  BY DEF Holds
<1>4. \A q \in ConfirmedUses \cup Holds : Payer(q)' = Payer(q)
  BY DEF ConfirmedUses, Confirmed, Holds, LiveHold, Payer
<1>5. CouponBound'
  <2>1. Cardinality(Holds') <= Cardinality(Holds) /\ Cardinality(Holds') \in Nat /\ Cardinality(Holds) \in Nat
        /\ Cardinality(ConfirmedUses) \in Nat /\ Cardinality(late) \in Nat
    BY <1>1, <1>2, <1>3, Counted DEF TypeOK
  <2>2. ASSUME NEW l \in Learners
        PROVE  /\ Of(ConfirmedUses, l)' = Of(ConfirmedUses, l) /\ Of(late, l)' = Of(late, l)
               /\ Of(Holds, l)' \subseteq Of(Holds, l) /\ Of(Holds, l) \subseteq Payments
               /\ Of(ConfirmedUses, l) \subseteq Payments /\ Of(late, l) \subseteq Payments
    BY <1>2, <1>3, <1>4 DEF Of, Bounded
  <2>3. ASSUME NEW l \in Learners
        PROVE  Cardinality(Of(ConfirmedUses, l)') + Cardinality(Of(Holds, l)') <= MaxPerUser + Cardinality(Of(late, l)')
    <3>1. Cardinality(Of(Holds, l)') <= Cardinality(Of(Holds, l)) /\ Cardinality(Of(Holds, l)') \in Nat /\ Cardinality(Of(Holds, l)) \in Nat
          /\ Cardinality(Of(ConfirmedUses, l)) \in Nat /\ Cardinality(Of(late, l)) \in Nat
      BY <2>2, Counted
    <3> QED BY <2>2, <3>1, LimitAssumption DEF Bounded, CouponBound
  <2> QED BY <1>2, <2>1, <2>3, LimitAssumption DEF Bounded, CouponBound
<1>6. ASSUME NEW p \in Payments, request'[p].at = "counted" PROVE CountIsTrue(p)'
  <2>1. request'[p] = request[p] /\ CountIsTrue(p) /\ Payer(p)' = Payer(p)
    BY <1>6 DEF Bounded, Payer
  <2>2. \A q \in request[p].mine : q \in Payments /\ status'[q] = "pending" /\ purchase'[q] = purchase[q] /\ plan'[q] = plan[q]
    BY <1>1, <1>6, <2>1 DEF CountIsTrue, TypeOK, RequestType
  <2>3. \A q \in request[p].mine : (UsesCoupon(q) /\ status[q] = "pending" /\ Payer(q) = Payer(p))'
    BY <2>1, <2>2 DEF CountIsTrue, UsesCoupon, Payer
  <2>4. \A q \in Holds' : Payer(q)' = Payer(p)' => q \in request[p].mine
    BY <1>3, <1>4, <2>1 DEF CountIsTrue
  <2>5. \A q \in Payments \ {p} : request'[q].at # "counted"
    BY <2>1 DEF CountIsTrue
  <2> QED BY <1>2, <2>1, <2>3, <2>4, <2>5 DEF CountIsTrue
<1> QED BY <1>2, <1>5, <1>6 DEF Bounded

\* A request that goes anywhere but to the count, with rows that stay or fail.
LEMMA GoesQuiet ==
  ASSUME Agreement, Bounded, NEW p \in Payments, NEW step \in RequestSteps \ {"counted"},
         Goes(p, step), UNCHANGED <<status, age, late>>,
         \A q \in Payments : status[q] # "none" => purchase'[q] = purchase[q] /\ plan'[q] = plan[q],
         \A q \in Payments : request[q].at = "counted" => purchase'[q] = purchase[q]
  PROVE  Bounded'
<1>1. TypeOK
  BY DEF Agreement
<1>2. \A q \in Payments : request'[q].at = "counted" => request'[q] = request[q]
  BY <1>1, Typed
<1>3. \A q, c \in Payments : request[c].at = "counted" /\ q \in request[c].mine => status'[q] = "pending"
  BY DEF Bounded, CountIsTrue
<1>4. \A q \in Payments : LiveHold(q)' => LiveHold(q)
  BY DEF LiveHold, UsesCoupon
<1> QED BY <1>2, <1>3, <1>4, QuietStep

LEMMA RequestQuiet ==
  ASSUME Agreement, Bounded, NEW p \in Payments,
         \/ \E u \in Purchases, how \in Plans : Start(p, u, how)
         \/ FindOpen(p) \/ Guard(p) \/ CannotPay(p) \/ OpenPage(p) \/ StoreUrl(p) \/ Die(p)
  PROVE  Bounded'
<1>1. TypeOK /\ PaymentAgrees(p)
  BY DEF Agreement
<1>2. CASE \E u \in Purchases, how \in Plans : Start(p, u, how)
  <2>1. PICK u \in Purchases, how \in Plans : Start(p, u, how)
    BY <1>2
  <2>2. FirstStep(how) \in RequestSteps \ {"counted"}
    BY PlanAssumption DEF FirstStep, RequestSteps, AllPlans
  <2>3. status[p] = "none" /\ request[p].at = "idle"
    BY <1>1, <2>1 DEF Start, Started, PaymentAgrees, Unwritten
  <2>4. \A q \in Payments \ {p} : purchase'[q] = purchase[q] /\ plan'[q] = plan[q]
    BY <1>1, <2>1 DEF Start, TypeOK
  <2> QED BY <2>1, <2>2, <2>3, <2>4, GoesQuiet DEF Start, rowVars
<1>3. CASE FindOpen(p) \/ Guard(p) \/ CannotPay(p) \/ OpenPage(p) \/ StoreUrl(p) \/ Die(p)
  <2>1. PICK step \in RequestSteps \ {"counted"} : Goes(p, step)
    BY <1>3 DEF FindOpen, Guard, CannotPay, OpenPage, StoreUrl, Die, RequestSteps
  <2>2. UNCHANGED <<purchase, plan, status, age, late>>
    BY <1>3 DEF FindOpen, Guard, CannotPay, OpenPage, StoreUrl, Die, rowVars
  <2> QED BY <2>1, <2>2, GoesQuiet
<1> QED BY <1>2, <1>3

LEMMA LockBounded ==
  ASSUME Agreement, Bounded, NEW p \in Payments, LockCoupon(p)
  PROVE  Bounded'
<1>1. TypeOK /\ UNCHANGED <<purchase, plan, status, age, late>> /\ CouponFree
  BY DEF Agreement, LockCoupon, rowVars
<1>2. CASE Goes(p, "over")
  BY <1>1, <1>2, GoesQuiet DEF RequestSteps
<1>3. CASE request' = [request EXCEPT ![p] = [at |-> "counted", mine |-> Mine(p), uses |-> Cardinality(ConfirmedUses)]]
  <2>1. ConfirmedUses' = ConfirmedUses /\ Holds' = Holds /\ \A q \in Payments : Payer(q)' = Payer(q)
    BY <1>1 DEF ConfirmedUses, Confirmed, Holds, LiveHold, UsesCoupon, Payer
  <2>2. \A l \in Learners : Of(ConfirmedUses, l)' = Of(ConfirmedUses, l) /\ Of(Holds, l)' = Of(Holds, l) /\ Of(late, l)' = Of(late, l)
    BY <1>1, <2>1 DEF Of, Payer
  <2>3. late' \subseteq ConfirmedUses' /\ CouponBound'
    BY <1>1, <2>1, <2>2 DEF Bounded, CouponBound
  <2>4. /\ request'[p] = [at |-> "counted", mine |-> Mine(p), uses |-> Cardinality(ConfirmedUses)]
        /\ \A q \in Payments \ {p} : request'[q].at # "counted"
    BY <1>1, <1>3 DEF CouponFree, TypeOK
  <2>5. \A q \in Mine(p) : (UsesCoupon(q) /\ status[q] = "pending" /\ Payer(q) = Payer(p))'
    BY <1>1 DEF Mine, Holds, LiveHold, UsesCoupon, Payer
  <2>6. \A q \in Holds' : Payer(q)' = Payer(p)' => q \in Mine(p)
    <3>1. Holds \subseteq Payments
      BY DEF Holds
    <3> QED BY <2>1, <3>1 DEF Mine
  <2>7. CountIsTrue(p)'
    BY <2>1, <2>4, <2>5, <2>6 DEF CountIsTrue
  <2> QED BY <2>3, <2>4, <2>7 DEF Bounded
<1> QED BY <1>2, <1>3 DEF LockCoupon

\* A row that is inserted without a coupon, or fails when nobody has it locked.
LEMMA InsertBounded ==
  ASSUME Agreement, Bounded, NEW p \in Payments, Insert(p)
  PROVE  Bounded'
<1>1. /\ TypeOK /\ ~UsesCoupon(p) /\ status[p] = "none"
      /\ status' = [status EXCEPT ![p] = "pending"] /\ UNCHANGED <<purchase, plan, age, late>>
  BY DEF Agreement, Insert, Inserted, PaymentAgrees, Unwritten, UsesCoupon
<1>2. PICK step \in {"page", "settle"} : Goes(p, step)
  BY DEF Insert
<1>3. \A q \in Payments : request'[q].at = "counted" => request'[q] = request[q]
  BY <1>1, <1>2, Typed DEF RequestSteps
<1>4. \A q \in Payments \ {p} : status'[q] = status[q]
  BY <1>1 DEF TypeOK
<1>5. \A q \in Payments : LiveHold(q)' => LiveHold(q)
  BY <1>1, <1>4 DEF LiveHold, UsesCoupon
<1>6. \A q, c \in Payments : request[c].at = "counted" /\ q \in request[c].mine => status'[q] = "pending"
  BY <1>1, <1>4 DEF Bounded, CountIsTrue
<1>7. status'[p] = "pending"
  BY <1>1 DEF TypeOK
<1> QED BY <1>1, <1>3, <1>4, <1>5, <1>6, <1>7, QuietStep

LEMMA FailBounded ==
  ASSUME Agreement, Bounded, NEW p \in Payments, Fails(p), RowFree(p), UNCHANGED <<purchase, plan, late>>,
         \A q \in Payments : request'[q].at = "counted" => request'[q] = request[q]
  PROVE  Bounded'
<1>1. TypeOK /\ UNCHANGED age /\ \A q \in Payments \ {p} : status'[q] = status[q]
  BY DEF Agreement, TypeOK, Fails
<1>2. status'[p] = status[p] \/ (status[p] = "pending" /\ status'[p] = "failed")
  BY <1>1 DEF TypeOK, Fails
<1>3. \A q \in Payments : LiveHold(q)' => LiveHold(q)
  BY <1>1, <1>2 DEF LiveHold, UsesCoupon
<1>4. \A q, c \in Payments : request[c].at = "counted" /\ q \in request[c].mine => status'[q] = "pending"
  BY <1>1 DEF Bounded, CountIsTrue, RowFree
<1> QED BY <1>1, <1>2, <1>3, <1>4, QuietStep

\* A confirmation, under the coupon's lock when it uses one: a live hold becomes
\* a use, and a use without a hold is late.
LEMMA ConfirmBounded ==
  ASSUME Agreement, Bounded, NEW p \in Payments, Confirms(p), MayLock(p) \/ ~UsesCoupon(p), status[p] # "none",
         UNCHANGED <<purchase, plan>>,
         \A q \in Payments : request'[q].at = "counted" => request'[q] = request[q]
  PROVE  Bounded'
<1>1. /\ TypeOK /\ status' = [status EXCEPT ![p] = "confirmed"] /\ UNCHANGED age /\ status[p] # "confirmed"
      /\ late' = IF UsesCoupon(p) /\ ~LiveHold(p) THEN late \cup {p} ELSE late
  BY DEF Agreement, Confirms, Claimable
<1>2. /\ \A q \in Payments \ {p} : status'[q] = status[q]
      /\ status'[p] = "confirmed"
  BY <1>1 DEF TypeOK
<1>3. CASE ~UsesCoupon(p)
  <2>1. \A q \in Payments : LiveHold(q)' => LiveHold(q)
    BY <1>1, <1>2, <1>3 DEF LiveHold, UsesCoupon
  <2>2. \A q, c \in Payments : request[c].at = "counted" /\ q \in request[c].mine => status'[q] = "pending"
    BY <1>2, <1>3 DEF Bounded, CountIsTrue
  <2>3. ~UsesCoupon(p)'
    BY <1>3 DEF UsesCoupon
  <2> QED BY <1>1, <1>2, <1>3, <2>1, <2>2, <2>3, QuietStep
<1>4. CASE UsesCoupon(p)
  <2>1. \A q \in Payments : request'[q].at # "counted"
    BY <1>4 DEF MayLock, CouponFree
  <2>2. ConfirmedUses' = ConfirmedUses \cup {p} /\ p \notin ConfirmedUses /\ ConfirmedUses \subseteq Payments
    BY <1>1, <1>2, <1>4 DEF ConfirmedUses, Confirmed, UsesCoupon
  <2>3. Holds' = Holds \ {p} /\ Holds \subseteq Payments /\ (p \in Holds <=> LiveHold(p))
    BY <1>1, <1>2 DEF Holds, LiveHold, UsesCoupon
  <2>4. late \subseteq ConfirmedUses /\ late \subseteq Payments /\ p \notin late
    BY <2>2 DEF Bounded
  <2>5. \A S \in SUBSET Payments, l \in Learners : Of(S, l)' = Of(S, l)
    BY DEF Of, Payer
  <2>6. /\ Cardinality(ConfirmedUses') = Cardinality(ConfirmedUses) + 1
        /\ Cardinality(ConfirmedUses) \in Nat /\ Cardinality(Holds) \in Nat /\ Cardinality(late) \in Nat
    BY <2>2, <2>3, <2>4, Counted
  <2>7. /\ LiveHold(p) => Cardinality(Holds') = Cardinality(Holds) - 1 /\ late' = late
        /\ ~LiveHold(p) => Holds' = Holds /\ Cardinality(late') = Cardinality(late) + 1
    BY <1>1, <1>4, <2>3, <2>4, Counted
  <2>8. Cardinality(ConfirmedUses') + Cardinality(Holds') <= MaxUses + Cardinality(late')
    BY <2>6, <2>7, LimitAssumption DEF Bounded, CouponBound
  <2>9. ASSUME NEW l \in Learners
        PROVE  Cardinality(Of(ConfirmedUses, l)') + Cardinality(Of(Holds, l)') <= MaxPerUser + Cardinality(Of(late, l)')
    <3>1. /\ Of(ConfirmedUses, l) \subseteq Payments /\ Of(Holds, l) \subseteq Payments /\ Of(late, l) \subseteq Payments
          /\ p \notin Of(ConfirmedUses, l) /\ p \notin Of(late, l)
      BY <2>2, <2>3, <2>4 DEF Of
    <3>2. /\ Of(ConfirmedUses, l)' = IF Payer(p) = l THEN Of(ConfirmedUses, l) \cup {p} ELSE Of(ConfirmedUses, l)
          /\ Of(Holds, l)' = Of(Holds, l) \ {p}
          /\ p \in Of(Holds, l) <=> LiveHold(p) /\ Payer(p) = l
          /\ Of(late, l)' = IF ~LiveHold(p) /\ Payer(p) = l THEN Of(late, l) \cup {p} ELSE Of(late, l)
      BY <1>1, <1>4, <2>2, <2>3 DEF Of, Payer
    <3>3. /\ Cardinality(Of(ConfirmedUses, l)) \in Nat /\ Cardinality(Of(Holds, l)) \in Nat /\ Cardinality(Of(late, l)) \in Nat
          /\ Cardinality(Of(ConfirmedUses, l) \cup {p}) = Cardinality(Of(ConfirmedUses, l)) + 1
          /\ Cardinality(Of(late, l) \cup {p}) = Cardinality(Of(late, l)) + 1
          /\ p \in Of(Holds, l) => Cardinality(Of(Holds, l) \ {p}) = Cardinality(Of(Holds, l)) - 1
          /\ p \notin Of(Holds, l) => Of(Holds, l) \ {p} = Of(Holds, l)
      BY <3>1, Counted
    <3>4. Cardinality(Of(ConfirmedUses, l)) + Cardinality(Of(Holds, l)) <= MaxPerUser + Cardinality(Of(late, l))
      BY DEF Bounded, CouponBound
    <3>5. CASE Payer(p) # l
      BY <3>2, <3>3, <3>4, <3>5
    <3>6. CASE Payer(p) = l /\ LiveHold(p)
      BY <3>2, <3>3, <3>4, <3>6, LimitAssumption
    <3>7. CASE Payer(p) = l /\ ~LiveHold(p)
      <4>1. /\ Of(ConfirmedUses, l)' = Of(ConfirmedUses, l) \cup {p} /\ Of(late, l)' = Of(late, l) \cup {p}
            /\ Of(Holds, l)' = Of(Holds, l)
        BY <3>2, <3>3, <3>7
      <4>2. /\ Cardinality(Of(ConfirmedUses, l)') = Cardinality(Of(ConfirmedUses, l)) + 1
            /\ Cardinality(Of(late, l)') = Cardinality(Of(late, l)) + 1
            /\ Cardinality(Of(Holds, l)') = Cardinality(Of(Holds, l))
        BY <3>3, <4>1
      <4> QED BY <3>3, <3>4, <4>2, LimitAssumption
    <3> QED BY <3>5, <3>6, <3>7
  <2>10. late' \subseteq ConfirmedUses'
    BY <1>1, <2>2, <2>4
  <2> QED BY <2>1, <2>8, <2>9, <2>10 DEF Bounded, CouponBound
<1> QED BY <1>3, <1>4

\* The row a request inserts fits what it counted under the lock.
LEMMA OpenBounded ==
  ASSUME Agreement, Bounded, NEW p \in Payments, OpenCoupon(p)
  PROVE  Bounded'
<1>1. TypeOK /\ PaymentAgrees(p) /\ CountIsTrue(p) /\ request[p].at = "counted" /\ status[p] = "none"
      /\ UNCHANGED <<purchase, plan, age, late>>
  BY DEF Agreement, Bounded, OpenCoupon, PaymentAgrees, Unwritten
<1>2. CASE ~Fits(p)
  BY <1>1, <1>2, GoesQuiet DEF OpenCoupon, RequestSteps
<1>3. CASE Fits(p)
  <2>1. /\ status' = [q \in Payments |->
             IF q = p THEN "pending"
             ELSE IF q \in Superseded(p) /\ status[q] = "pending" THEN "failed" ELSE status[q]]
        /\ Superseded(p) \subseteq request[p].mine /\ request[p].mine \subseteq Payments /\ request[p].uses \in Nat
    BY <1>1, <1>3 DEF OpenCoupon, Superseded, TypeOK, RequestType
  <2>2. PICK step \in {"page", "settle"} : Goes(p, step)
    BY <1>3 DEF OpenCoupon
  <2>3. \A q \in Payments : request'[q].at # "counted"
    BY <1>1, <2>2, Typed DEF CountIsTrue, RequestSteps
  <2>4. ConfirmedUses' = ConfirmedUses /\ ConfirmedUses \subseteq Payments /\ late \subseteq Payments /\ late \subseteq ConfirmedUses
    BY <1>1, <2>1 DEF ConfirmedUses, Confirmed, UsesCoupon, CountIsTrue, Bounded
  <2>5. Holds' \subseteq OtherHolds(p) \cup {p} /\ p \notin Holds /\ Holds \subseteq Payments /\ OtherHolds(p) \subseteq Holds
    BY <1>1, <2>1 DEF Holds, LiveHold, UsesCoupon, OtherHolds, CountIsTrue
  <2>6. \A S \in SUBSET Payments, l \in Learners : Of(S, l)' = Of(S, l)
    BY <1>1 DEF Of, Payer
  <2>7. Cardinality(ConfirmedUses') + Cardinality(Holds') <= MaxUses + Cardinality(late')
    <3>1. /\ Cardinality(OtherHolds(p)) \in Nat /\ Cardinality(OtherHolds(p) \cup {p}) = Cardinality(OtherHolds(p)) + 1
          /\ Cardinality(Holds') \in Nat /\ Cardinality(Holds') <= Cardinality(OtherHolds(p) \cup {p})
          /\ Cardinality(late) \in Nat
      <4>1. OtherHolds(p) \in SUBSET Payments /\ OtherHolds(p) \cup {p} \in SUBSET Payments /\ p \notin OtherHolds(p)
        BY <2>5
      <4> QED BY <2>4, <2>5, <4>1, Counted
    <3>2. Cardinality(ConfirmedUses) + Cardinality(OtherHolds(p)) < MaxUses
      BY <1>1, <1>3 DEF Fits, CountIsTrue
    <3>3. Cardinality(ConfirmedUses) \in Nat
      BY <2>4, Counted
    <3> QED BY <1>1, <2>4, <3>1, <3>2, <3>3, LimitAssumption
  <2>8. ASSUME NEW l \in Learners
        PROVE  Cardinality(Of(ConfirmedUses, l)') + Cardinality(Of(Holds, l)') <= MaxPerUser + Cardinality(Of(late, l)')
    <3>1. /\ Of(ConfirmedUses, l)' = Of(ConfirmedUses, l) /\ Of(late, l)' = Of(late, l)
          /\ Of(ConfirmedUses, l) \subseteq Payments /\ Of(late, l) \subseteq Payments /\ Of(Holds, l) \subseteq Payments
      BY <1>1, <2>4, <2>5, <2>6 DEF Of
    <3>2. Cardinality(Of(ConfirmedUses, l)) \in Nat /\ Cardinality(Of(late, l)) \in Nat /\ Cardinality(Of(Holds, l)) \in Nat
      BY <3>1, Counted
    <3>3. CASE Payer(p) = l
      <4> DEFINE rest == request[p].mine \ Superseded(p)
      <4>1. Of(Holds, l)' \subseteq rest \cup {p} /\ rest \cup {p} \in SUBSET Payments /\ p \notin rest
        <5>1. ASSUME NEW q \in Of(Holds, l)', q # p PROVE q \in rest
          <6>1. q \in Holds /\ q \notin Superseded(p) /\ Payer(q) = l
            BY <1>1, <2>5, <5>1 DEF Of, Payer, OtherHolds
          <6> QED BY <1>1, <3>3, <6>1 DEF CountIsTrue
        <5>2. p \notin request[p].mine
          BY <1>1 DEF CountIsTrue
        <5> QED BY <2>1, <5>1, <5>2
      <4>2. Cardinality(rest \cup {p}) = Cardinality(rest) + 1 /\ Cardinality(rest) \in Nat
        BY <4>1, Counted
      <4>3. Cardinality(Of(Holds, l)') <= Cardinality(rest \cup {p}) /\ Cardinality(Of(Holds, l)') \in Nat
        BY <4>1, Counted
      <4>4. Cardinality(Of(ConfirmedUses, l)) + Cardinality(rest) < MaxPerUser
        BY <1>3, <3>3 DEF Fits
      <4> QED BY <3>1, <3>2, <4>2, <4>3, <4>4, LimitAssumption
    <3>4. CASE Payer(p) # l
      <4>1. Of(Holds, l)' \subseteq Of(Holds, l)
        BY <1>1, <2>5, <3>4 DEF Of, Payer
      <4>2. Cardinality(Of(Holds, l)') <= Cardinality(Of(Holds, l)) /\ Cardinality(Of(Holds, l)') \in Nat
        BY <3>1, <4>1, Counted
      <4>3. Cardinality(Of(ConfirmedUses, l)) + Cardinality(Of(Holds, l)) <= MaxPerUser + Cardinality(Of(late, l))
        BY DEF Bounded, CouponBound
      <4> QED BY <3>1, <3>2, <4>2, <4>3, LimitAssumption
    <3> QED BY <3>3, <3>4
  <2> QED BY <1>1, <2>3, <2>4, <2>7, <2>8 DEF Bounded, CouponBound
<1> QED BY <1>2, <1>3

LEMMA SettleBounded ==
  ASSUME Agreement, Bounded, NEW p \in Payments, Settle(p) \/ ReplayBank(p) \/ FailCheckout(p)
  PROVE  Bounded'
<1>1. TypeOK /\ PaymentAgrees(p) /\ UNCHANGED <<purchase, plan>>
  BY DEF Agreement, Settle, ReplayBank, FailCheckout
<1>2. \A q \in Payments : request'[q].at = "counted" => request'[q] = request[q]
  <2>1. CASE UNCHANGED request
    BY <2>1
  <2>2. CASE \E step \in {"over", "failing"} : Goes(p, step)
    BY <1>1, <2>2, Typed DEF RequestSteps
  <2> QED BY <2>1, <2>2 DEF Settle, ReplayBank, FailCheckout
<1>3. CASE Confirms(p) /\ ~FailCheckout(p)
  <2>1. (MayLock(p) \/ ~UsesCoupon(p)) /\ status[p] # "none"
    BY <1>1, <1>3 DEF Settle, ReplayBank, UsesCoupon, Confirms, Claimable
  <2> QED BY <1>1, <1>2, <1>3, <2>1, ConfirmBounded
<1>4. CASE ~Confirms(p) /\ ~FailCheckout(p)
  BY <1>1, <1>4, GoesQuiet DEF Settle, ReplayBank, Stays, Unaltered, rowVars, RequestSteps
<1>5. CASE FailCheckout(p)
  BY <1>1, <1>2, <1>5, FailBounded DEF FailCheckout
<1> QED BY <1>3, <1>4, <1>5

LEMMA StillQuiet ==
  ASSUME Agreement, Bounded, UNCHANGED <<purchase, plan, request, status, late>>,
         \A q \in Payments : LiveHold(q)' => LiveHold(q)
  PROVE  Bounded'
<1>1. \A q, c \in Payments : request[c].at = "counted" /\ q \in request[c].mine => status'[q] = "pending"
  BY DEF Bounded, CountIsTrue
<1> QED BY <1>1, QuietStep

LEMMA WorldBounded ==
  ASSUME Agreement, Bounded, NEW p \in Payments, Pay(p) \/ Cancel(p) \/ Granted(p) \/ Elapse(p)
  PROVE  Bounded'
<1>1. TypeOK /\ UNCHANGED <<purchase, plan, request, status, late>>
  BY DEF Agreement, Pay, Cancel, Granted, Elapse, rowVars
<1>2. \A q \in Payments : LiveHold(q)' => LiveHold(q)
  <2>1. \A q \in Payments : age'[q] = age[q] \/ (age'[q] = age[q] + 1 /\ age[q] \in Nat)
    BY <1>1 DEF Pay, Cancel, Granted, Elapse, rowVars, TypeOK, Ages
  <2>2. \A q \in Payments : age[q] \in Nat
    BY <1>1 DEF TypeOK, Ages
  <2> QED BY <1>1, <2>1, <2>2 DEF LiveHold, UsesCoupon
<1> QED BY <1>1, <1>2, StillQuiet

LEMMA ChecksBounded ==
  ASSUME Agreement, Bounded,
         \/ \E p \in Payments : (\E c \in Checkers : BeginWebhook(c, p)) \/ BeginSweep(p) \/ BeginExpiry(p)
         \/ \E c \in AllCheckers : Unverified(c) \/ \E answer \in {"paid", "failed", "pending", "unclear"} : Verify(c, answer)
  PROVE  Bounded'
<1>1. UNCHANGED <<purchase, plan, request, status, age, late>>
  BY DEF BeginWebhook, BeginSweep, BeginExpiry, Checks, Unverified, Verify, rowVars
<1> QED BY <1>1, StillQuiet DEF LiveHold, UsesCoupon

LEMMA ApplyBounded ==
  ASSUME Agreement, Bounded, NEW c \in AllCheckers, Apply(c)
  PROVE  Bounded'
<1>0. PICK p \in Payments : p = check[c].payment
  BY DEF Agreement, TypeOK, Apply
<1>1. TypeOK /\ UNCHANGED <<purchase, plan, request>>
  BY DEF Agreement, Apply
<1>2. CASE MayLock(p) /\ Confirms(p)
  BY <1>1, <1>2, ConfirmBounded DEF Confirms, Claimable
<1>3. CASE RowFree(p) /\ Fails(p) /\ UNCHANGED late
  BY <1>1, <1>3, FailBounded
<1>4. CASE Stays
  BY <1>1, <1>4, StillQuiet DEF Stays, Unaltered, rowVars, LiveHold, UsesCoupon
<1> QED BY <1>0, <1>2, <1>3, <1>4 DEF Apply

LEMMA BoundedNext ==
  ASSUME Agreement, Bounded, [Next]_vars PROVE Bounded'
<1>1. CASE UNCHANGED vars
  BY <1>1, StillQuiet DEF vars, rowVars, LiveHold, UsesCoupon
<1>2. CASE Next
  BY <1>2, RequestQuiet, LockBounded, InsertBounded, OpenBounded, SettleBounded, WorldBounded, ChecksBounded, ApplyBounded
     DEF Next, RequestStep
<1> QED BY <1>1, <1>2

\* Confirmed uses and open holds never exceed the limits of the coupon, in all
\* or for one learner, but by payments that were paid after their hold had
\* lapsed, for any limits and any number of learners, requests, webhooks and
\* jobs (decisions 11 and 12, openCouponCheckout, confirmPayment).
THEOREM CouponNeverOverused == Spec => []CouponBound
<1>1. Bounded => CouponBound
  BY DEF Bounded
<1> QED BY <1>1, AgreementInit, AgreementNext, BoundedInit, BoundedNext, PTL DEF Spec
=============================================================================
