------------------------------ MODULE Checkout ------------------------------
(***************************************************************************)
(* payment.service.ts: checkouts of courses, from the click on Buy to the  *)
(* confirmation and the events that grant access.  Card payments go        *)
(* through a page at Chapa; wallet payments and checkouts that a coupon    *)
(* makes free settle in their own request; a bank transfer is recorded by  *)
(* an admin.  What keeps requests, webhooks and jobs apart are conditional *)
(* UPDATEs of payments.status, the lock of the coupon's row, the locks of  *)
(* the payer's own open rows, and an advisory lock for wallet purchases.   *)
(*                                                                         *)
(* One course price and one coupon.  A payment is a row and the checkout   *)
(* request that inserts it.  A request ends, or its process dies, within   *)
(* five minutes: this is what WALLET_SETTLE_MS assumes.                    *)
(***************************************************************************)
EXTENDS Naturals, FiniteSets

CONSTANTS
  Payments,
  Purchases,   \* (learner, course) pairs
  Learners,
  LearnerOf,   \* the learner of a purchase
  Plans,       \* how these checkouts pay, see AllPlans
  Checkers,    \* webhook and reconcile requests in flight
  Sweep,       \* the sweep job, alone under its lease
  MaxUses,     \* coupons.max_uses
  MaxPerUser,  \* coupons.max_uses_per_user
  MaxAttempts, \* MAX_VERIFY_ATTEMPTS
  MaxAge       \* bound: how old a row gets, 3 or less

AllPlans == {"card", "coupon_card", "coupon_free", "wallet", "coupon_wallet", "bank"}
Nobody == "nobody"

ASSUME LearnerAssumption == LearnerOf \in [Purchases -> Learners]
ASSUME PlanAssumption == Plans \subseteq AllPlans
ASSUME LimitAssumption == MaxUses \in Nat /\ MaxPerUser \in Nat /\ MaxAttempts \in Nat /\ MaxAge \in 0 .. 3
ASSUME FiniteAssumption == IsFiniteSet(Payments)
ASSUME NobodyAssumption == Nobody \notin Payments \cup Purchases

VARIABLES
  purchase,   \* what the checkout is for
  plan,       \* how it pays
  request,    \* the checkout request: where it is, the rows it locked, the uses it counted
  status,     \* payments.status
  stored,     \* rows with their chapa_checkout_url
  age,        \* time since created_at, in the units below
  attempts,   \* verify_attempts
  page,       \* the payment at Chapa
  check,      \* requests and jobs that verify a payment
  late,       \* payments that confirmed when they held no use of the coupon (history)
  owned       \* purchases enrollment has granted

rowVars == <<status, stored, age, attempts>>
vars == <<purchase, plan, request, status, stored, age, attempts, page, check, late, owned>>

-----------------------------------------------------------------------------
(* Types                                                                   *)

\* Ages: 0 under 5 minutes, 1 under an hour (COUPON_HOLD_MINUTES), 2 under a
\* day, 3 older: after 48 hours a checkout is abandoned, until when no job asks
\* for it.
Ages == 0 .. 3

RequestType == [at : {"idle", "find", "guard", "guarded", "coupon", "counted", "insert", "settle", "page", "store", "failing", "over"},
                mine : SUBSET Payments, uses : Nat]
CheckType == [at : {"idle", "verify", "apply"}, payment : Payments \cup {Nobody}, by : {"webhook", "sweep", "expiry"},
              answer : {"none", "paid", "failed", "pending", "unclear"}]
Resting == [at |-> "idle", payment |-> Nobody, by |-> "webhook", answer |-> "none"]
AllCheckers == Checkers \cup {Sweep}

TypeOK ==
  /\ purchase \in [Payments -> Purchases \cup {Nobody}]
  /\ plan \in [Payments -> Plans \cup {Nobody}]
  /\ request \in [Payments -> RequestType]
  /\ status \in [Payments -> {"none", "pending", "failed", "confirmed"}]
  /\ stored \subseteq Payments
  /\ age \in [Payments -> Ages]
  /\ attempts \in [Payments -> 0 .. MaxAttempts]
  /\ page \in [Payments -> {"none", "open", "paid", "cancelled"}]
  /\ check \in [AllCheckers -> CheckType]
  /\ \A c \in AllCheckers : check[c].at # "idle" => check[c].payment \in Payments
  /\ late \subseteq Payments
  /\ owned \subseteq Purchases

Idle == [at |-> "idle", mine |-> {}, uses |-> 0]

Init ==
  /\ purchase = [p \in Payments |-> Nobody]
  /\ plan = [p \in Payments |-> Nobody]
  /\ request = [p \in Payments |-> Idle]
  /\ status = [p \in Payments |-> "none"]
  /\ stored = {}
  /\ age = [p \in Payments |-> 0]
  /\ attempts = [p \in Payments |-> 0]
  /\ page = [p \in Payments |-> "none"]
  /\ check = [c \in AllCheckers |-> Resting]
  /\ late = {}
  /\ owned = {}

-----------------------------------------------------------------------------
(* The columns and the locks                                               *)

Started(p) == purchase[p] # Nobody
Payer(p) == LearnerOf[purchase[p]]
UsesCoupon(p) == plan[p] \in {"coupon_card", "coupon_free", "coupon_wallet"}
ByWallet(p) == plan[p] \in {"wallet", "coupon_wallet"}
\* payments.method is chapa, also while a free checkout is pending.
ByChapa(p) == plan[p] \in {"card", "coupon_card", "coupon_free"}

Confirmed == {p \in Payments : status[p] = "confirmed"}
ConfirmedUses == {p \in Confirmed : UsesCoupon(p)}
LiveHold(p) == UsesCoupon(p) /\ status[p] = "pending" /\ age[p] <= 1
Holds == {p \in Payments : LiveHold(p)}
Of(S, l) == {p \in S : Payer(p) = l}

\* SELECT .. FOR UPDATE of the coupon's row, from the lock to the commit; the
\* rows locked with it; pg_try_advisory_xact_lock of a purchase.
MCouponFree == TRUE
CouponFree == \A p \in Payments : request[p].at # "counted"
RowFree(q) == \A p \in Payments : q \notin request[p].mine
GuardFree(u) == \A p \in Payments :
  ~(purchase[p] = u /\ ByWallet(p) /\ request[p].at \in {"guarded", "coupon", "counted"})

Goes(p, step) == request' = [request EXCEPT ![p] = [at |-> step, mine |-> {}, uses |-> 0]]

Inserted(p) == /\ status' = [status EXCEPT ![p] = "pending"]
               /\ UNCHANGED <<stored, age, attempts>>
Fails(p) == /\ status' = [status EXCEPT ![p] = IF status[p] = "pending" THEN "failed" ELSE status[p]]
            /\ UNCHANGED <<stored, age, attempts>>
Unaltered == UNCHANGED rowVars

-----------------------------------------------------------------------------
(* createSession: one request, up to the row                               *)

FirstStep(how) ==
  CASE how = "card" -> "find"
    [] how \in {"wallet", "coupon_wallet"} -> "guard"
    [] how \in {"coupon_card", "coupon_free"} -> "coupon"
    [] how = "bank" -> "insert"

\* initiate, and recordBankTransfer up to its insert: enrollment is asked
\* whether the learner owns the course.
Start(p, u, how) ==
  /\ ~Started(p)
  /\ u \notin owned
  /\ how = "bank" => ~\E q \in Confirmed : purchase[q] = u
  /\ purchase' = [purchase EXCEPT ![p] = u]
  /\ plan' = [plan EXCEPT ![p] = how]
  /\ Goes(p, FirstStep(how))
  /\ UNCHANGED <<rowVars, page, check, late, owned>>

\* openCourseCheckout: an open page of the same purchase is handed out again.
Reusable(p, q) ==
  /\ purchase[q] = purchase[p] /\ plan[q] = "card"
  /\ status[q] = "pending" /\ q \in stored /\ age[q] <= 1
FindOpen(p) ==
  /\ request[p].at = "find"
  /\ Goes(p, IF \E q \in Payments : Reusable(p, q) THEN "over" ELSE "insert")
  /\ UNCHANGED <<purchase, plan, rowVars, page, check, late, owned>>

\* guardCoursePurchase: the try-lock, then one SELECT for a payment that is
\* confirmed or a wallet settlement in flight.
MInTheWay(p, q) == purchase[q] = purchase[p] /\ status[q] = "confirmed"
InTheWay(p, q) ==
  /\ purchase[q] = purchase[p]
  /\ status[q] = "confirmed" \/ (ByWallet(q) /\ status[q] = "pending" /\ age[q] = 0)
Guard(p) ==
  /\ request[p].at = "guard"
  /\ IF GuardFree(purchase[p]) /\ ~\E q \in Payments : InTheWay(p, q)
       THEN Goes(p, IF UsesCoupon(p) THEN "coupon" ELSE "guarded")
       ELSE Goes(p, "over")
  /\ UNCHANGED <<purchase, plan, rowVars, page, check, late, owned>>

\* The insert, and the commit that lets go of the advisory lock.
Insert(p) ==
  /\ request[p].at \in {"insert", "guarded"}
  /\ Inserted(p)
  /\ Goes(p, IF plan[p] = "card" THEN "page" ELSE "settle")
  /\ UNCHANGED <<purchase, plan, page, check, late, owned>>

\* openCouponCheckout, first half: lock the coupon, lock the payer's own holds,
\* hand out again the page of one for the same purchase, or count the uses.
Mine(p) == {q \in Holds : Payer(q) = Payer(p)}
Same(p, q) == purchase[q] = purchase[p]
HandsOut(p, q) == plan[p] = "coupon_card" /\ Same(p, q) /\ plan[q] = "coupon_card" /\ q \in stored
LockCoupon(p) ==
  /\ request[p].at = "coupon"
  /\ CouponFree
  /\ IF \E q \in Mine(p) : HandsOut(p, q) THEN Goes(p, "over")
     ELSE request' = [request EXCEPT ![p] = [at |-> "counted", mine |-> Mine(p), uses |-> Cardinality(ConfirmedUses)]]
  /\ UNCHANGED <<purchase, plan, rowVars, page, check, late, owned>>

\* Second half: count the holds, and insert the row while they leave a use; the
\* payer's own holds for the same purchase are superseded with the commit.
Superseded(p) == {q \in request[p].mine : Same(p, q)}
OtherHolds(p) == Holds \ Superseded(p)
Fits(p) ==
  /\ request[p].uses + Cardinality(OtherHolds(p)) < MaxUses
  /\ Cardinality(Of(ConfirmedUses, Payer(p))) + Cardinality(request[p].mine \ Superseded(p)) < MaxPerUser
OpenCoupon(p) ==
  /\ request[p].at = "counted"
  /\ \/ /\ Fits(p)
        /\ status' = [q \in Payments |->
             IF q = p THEN "pending"
             ELSE IF q \in Superseded(p) /\ status[q] = "pending" THEN "failed" ELSE status[q]]
        /\ Goes(p, IF plan[p] = "coupon_card" THEN "page" ELSE "settle")
     \/ /\ ~Fits(p)
        /\ UNCHANGED status
        /\ Goes(p, "over")
  /\ UNCHANGED <<purchase, plan, stored, age, attempts, page, check, late, owned>>
-----------------------------------------------------------------------------
(* Confirming and failing a payment                                        *)

\* confirmPayment: the coupon's lock first, then the conditional UPDATE, with
\* the debit of a wallet in its transaction.  The instant sources claim only a
\* pending row, a gateway or a bank also a failed one.
MayLock(p) == (UsesCoupon(p) => CouponFree) /\ RowFree(p)
Claimable(p) == status[p] \in IF plan[p] \in {"coupon_free", "wallet", "coupon_wallet"}
                              THEN {"pending"} ELSE {"pending", "failed"}
Confirms(p) ==
  /\ Claimable(p)
  /\ status' = [status EXCEPT ![p] = "confirmed"]
  /\ late' = IF UsesCoupon(p) /\ ~LiveHold(p) THEN late \cup {p} ELSE late
  /\ UNCHANGED <<stored, age, attempts>>
Stays == Unaltered /\ UNCHANGED late

\* settleInstantly, or the settlement of a bank transfer.  A superseded row is
\* a 409.
Settle(p) ==
  /\ request[p].at = "settle"
  /\ MayLock(p)
  /\ \/ Confirms(p) /\ Goes(p, "over")
     \/ ~Claimable(p) /\ Stays /\ Goes(p, "failing")
  /\ UNCHANGED <<purchase, plan, page, check, owned>>

\* The balance is too low: the confirmation rolls back.
CannotPay(p) ==
  /\ request[p].at = "settle" /\ ByWallet(p)
  /\ Goes(p, "failing")
  /\ UNCHANGED <<purchase, plan, rowVars, page, check, late, owned>>

\* recordBankTransfer again with the same reference: the row is settled if it
\* was not.
ReplayBank(p) ==
  /\ plan[p] = "bank" /\ request[p].at = "over"
  /\ Confirms(p)
  /\ UNCHANGED <<purchase, plan, request, page, check, owned>>

\* openChapaCheckout, and the UPDATE of the URL onto a row still pending.
OpenPage(p) ==
  /\ request[p].at = "page"
  /\ \/ page' = [page EXCEPT ![p] = "open"] /\ Goes(p, "store")
     \/ UNCHANGED page /\ Goes(p, "failing")
  /\ UNCHANGED <<purchase, plan, rowVars, check, late, owned>>

Storable(p) == status[p] = "pending"
StoreUrl(p) ==
  /\ request[p].at = "store"
  /\ RowFree(p)
  /\ \/ /\ Storable(p)
        /\ stored' = stored \cup {p}
        /\ Goes(p, "over")
     \/ /\ ~Storable(p)
        /\ UNCHANGED stored
        /\ Goes(p, "failing")
  /\ UNCHANGED <<purchase, plan, status, age, attempts, page, check, late, owned>>

\* failCheckout.
FailCheckout(p) ==
  /\ request[p].at = "failing"
  /\ RowFree(p)
  /\ Fails(p)
  /\ Goes(p, "over")
  /\ UNCHANGED <<purchase, plan, page, check, late, owned>>

\* The process dies; what was not committed rolls back.
Die(p) ==
  /\ request[p].at \notin {"idle", "over"}
  /\ Goes(p, "over")
  /\ UNCHANGED <<purchase, plan, rowVars, page, check, late, owned>>

-----------------------------------------------------------------------------
(* At Chapa: only a page whose URL was handed out can be paid; a cancelled  *)
(* one can still be paid, and Chapa sends a webhook, perhaps many, or none. *)

Pay(p) ==
  /\ p \in stored /\ page[p] \in {"open", "cancelled"}
  /\ page' = [page EXCEPT ![p] = "paid"]
  /\ UNCHANGED <<purchase, plan, request, rowVars, check, late, owned>>

Cancel(p) ==
  /\ p \in stored /\ page[p] = "open"
  /\ page' = [page EXCEPT ![p] = "cancelled"]
  /\ UNCHANGED <<purchase, plan, request, rowVars, check, late, owned>>

-----------------------------------------------------------------------------
(* Asking Chapa: handleWebhook, reconcile, sweepPendingPayments and         *)
(* expireAbandonedCheckouts load a row, verify it and apply the answer.     *)

Checks(c, p, by) ==
  /\ check[c].at = "idle"
  /\ check' = [check EXCEPT ![c] = [at |-> "verify", payment |-> p, by |-> by, answer |-> "none"]]
  /\ UNCHANGED <<purchase, plan, request, rowVars, page, late, owned>>

\* A webhook is about any row that is not settled; reconcile is about fewer
\* (pending, or failed with a page) and does the same.
BeginWebhook(c, p) ==
  /\ status[p] \in {"pending", "failed"}
  /\ Checks(c, p, "webhook")

MSweepable(p) == ByChapa(p) /\ age[p] <= 2 /\ status[p] \in {"pending", "failed"}
Sweepable(p) ==
  /\ ByChapa(p) /\ age[p] <= 2 /\ attempts[p] < MaxAttempts
  /\ status[p] = "pending" \/ (status[p] = "failed" /\ p \in stored)
BeginSweep(p) == Sweepable(p) /\ Checks(Sweep, p, "sweep")

Abandoned(p) == ByChapa(p) /\ age[p] = 3 /\ status[p] = "pending"
BeginExpiry(p) == Abandoned(p) /\ Checks(Sweep, p, "expiry")

\* What Chapa says; a paid page may come without an amount, which settles
\* nothing.
Answers(p) == CASE page[p] = "paid" -> {"paid", "unclear"}
                [] page[p] = "cancelled" -> {"failed"}
                [] OTHER -> {"pending"}
\* The sweep stamps each answer on the row.
Verify(c, answer) ==
  LET p == check[c].payment IN
  /\ check[c].at = "verify"
  /\ answer \in Answers(p)
  /\ check' = [check EXCEPT ![c] = [at |-> "apply", payment |-> p, by |-> check[c].by, answer |-> answer]]
  /\ attempts' = [attempts EXCEPT ![p] = IF check[c].by = "sweep" THEN attempts[p] + 1 ELSE attempts[p]]
  /\ UNCHANGED <<purchase, plan, request, status, stored, age, page, late, owned>>

\* Chapa cannot be asked: the webhook is answered 200 and not sent again, the
\* job stops.  Or the process dies.
Unverified(c) ==
  /\ check[c].at # "idle"
  /\ check' = [check EXCEPT ![c] = Resting]
  /\ UNCHANGED <<purchase, plan, request, rowVars, page, late, owned>>

\* applyVerification; the expiry fails what is not paid.
MFailing(c) == check[c].answer = "failed" \/ check[c].by = "expiry"
Failing(c) == check[c].answer = "failed" \/ (check[c].by = "expiry" /\ check[c].answer = "pending")
Apply(c) ==
  LET p == check[c].payment IN
  /\ check[c].at = "apply"
  /\ \/ check[c].answer = "paid" /\ MayLock(p) /\ (Confirms(p) \/ (~Claimable(p) /\ Stays))
     \/ check[c].answer # "paid" /\ Failing(c) /\ RowFree(p) /\ Fails(p) /\ UNCHANGED late
     \/ check[c].answer # "paid" /\ ~Failing(c) /\ Stays
  /\ check' = [check EXCEPT ![c] = Resting]
  /\ UNCHANGED <<purchase, plan, request, page, owned>>

-----------------------------------------------------------------------------
(* After the commit.  How PaymentConfirmed gets to enrollment is Access's;   *)
(* here it takes some time.                                                 *)

Granted(p) ==
  /\ status[p] = "confirmed"
  /\ owned' = owned \cup {purchase[p]}
  /\ UNCHANGED <<purchase, plan, request, rowVars, page, check, late>>

\* Time passes; requests do not last five minutes.  Where no query asks for the
\* age of a row any more, it stays as it is.
AgeMatters(p) ==
  \/ status[p] = "pending" /\ (ByChapa(p) \/ age[p] < 2)
  \/ status[p] = "failed" /\ p \in stored /\ age[p] < 3
Elapse(p) ==
  /\ AgeMatters(p) /\ age[p] < MaxAge
  /\ request[p].at = "over"
  /\ age' = [age EXCEPT ![p] = age[p] + 1]
  /\ UNCHANGED <<purchase, plan, request, status, stored, attempts, page, check, late, owned>>

-----------------------------------------------------------------------------
RequestStep(p) ==
  \/ FindOpen(p) \/ Guard(p) \/ Insert(p) \/ LockCoupon(p) \/ OpenCoupon(p)
  \/ Settle(p) \/ CannotPay(p) \/ OpenPage(p) \/ StoreUrl(p) \/ FailCheckout(p)

Next ==
  \/ \E p \in Payments :
       \/ \E u \in Purchases, how \in Plans : Start(p, u, how)
       \/ RequestStep(p) \/ ReplayBank(p) \/ Die(p)
       \/ Pay(p) \/ Cancel(p)
       \/ \E c \in Checkers : BeginWebhook(c, p)
       \/ BeginSweep(p) \/ BeginExpiry(p)
       \/ Granted(p) \/ Elapse(p)
  \/ \E c \in AllCheckers :
       \/ \E answer \in {"paid", "failed", "pending", "unclear"} : Verify(c, answer)
       \/ Unverified(c) \/ Apply(c)

Spec == Init /\ [][Next]_vars

\* Requests go on, the jobs run and get to every row, Chapa answers in the end
\* and with an amount, and time passes.  Nobody has to click, and no webhook
\* has to come.
Concludes(p) == check[Sweep].payment = p /\ check[Sweep].answer # "unclear" /\ Apply(Sweep)
HearsPaid(p) == check[Sweep].payment = p /\ Verify(Sweep, "paid")
JobStep == Apply(Sweep) \/ \E answer \in {"paid", "failed", "pending", "unclear"} : Verify(Sweep, answer)
Fairness ==
  /\ WF_vars(JobStep)
  /\ \A p \in Payments :
       /\ WF_vars(RequestStep(p)) /\ WF_vars(Elapse(p))
       /\ SF_vars(BeginSweep(p)) /\ SF_vars(BeginExpiry(p))
       /\ SF_vars(HearsPaid(p)) /\ SF_vars(Concludes(p))

FairSpec == Spec /\ Fairness

-----------------------------------------------------------------------------
(* Properties                                                              *)

\* Decisions 11 and 12: confirmed uses of the coupon and open checkouts that
\* hold one never exceed max_uses, in all or for one learner, except by
\* payments that were paid after their hold had lapsed or was superseded.
CouponBound ==
  /\ Cardinality(ConfirmedUses) + Cardinality(Holds) <= MaxUses + Cardinality(late)
  /\ \A l \in Learners :
       Cardinality(Of(ConfirmedUses, l)) + Cardinality(Of(Holds, l)) <= MaxPerUser + Cardinality(Of(late, l))

\* What a learner paid is in the platform's hands, what is honoured was paid
\* for, and a purchase is debited from a wallet once, however many requests,
\* webhooks and jobs work on its rows (confirmPayment, guardCoursePurchase).
Promise == INSTANCE Till WITH
  taken <- {p \in Payments : page[p] = "paid" \/ (status[p] = "confirmed" /\ plan[p] \notin {"card", "coupon_card"})},
  honoured <- Confirmed,
  debited <- {<<purchase[p], p>> : p \in {q \in Confirmed : ByWallet(q)}}
ImplementsTill == Promise!Spec

\* A page that was paid while its row was pending and nobody was asking Chapa
\* about it is confirmed in the end, without any webhook: by the sweep while it
\* is recent, by the expiry if it is still pending.  Only a row that a retry of
\* the purchase superseded, and that is old or was checked too often, is left
\* to a webhook or the learner.
Paid(p) == page[p] = "paid" /\ status[p] = "pending" /\ \A c \in AllCheckers : check[c].payment # p
LeftAlone(p) ==
  /\ status[p] = "failed" /\ (age[p] > 2 \/ attempts[p] >= MaxAttempts)
  /\ \E q \in Payments \ {p} : purchase[q] = purchase[p]
Settled(p) == status[p] = "confirmed" \/ LeftAlone(p)
PaidIsConfirmed == \A p \in Payments : Paid(p) ~> Settled(p)
=============================================================================
