----------------------------- MODULE MCProgress -----------------------------
(***************************************************************************)
(* What must happen in the end: jobs are run, a paid page is confirmed, a  *)
(* confirmed payment grants.  One run for the three, on shared registers   *)
(* as in Services; each part with the fairness its module states.          *)
(***************************************************************************)
EXTENDS Naturals

CONSTANTS None

VARIABLES which, v1, v2, v3, v4, v5, v6, v7, v8, v9, v10, v11

vars == <<which, v1, v2, v3, v4, v5, v6, v7, v8, v9, v10, v11>>

Buyer == [u \in {"u"} |-> "l"]

Lease == INSTANCE JobLease WITH
  Runs <- {1, 2, 3}, NoRun <- None,
  locked <- v1, holder <- v2, working <- v3, outlived <- v4, recorded <- v5
Grants == INSTANCE Access WITH
  Payments <- {1, 2}, Handlers <- {1, 2}, NoEvent <- None, MaxFaults <- 1,
  payment <- v1, effects <- v2, publishing <- v3, outbox <- v4, bus <- v5, handler <- v6,
  row <- v7, faults <- v8, log <- v9, handled <- v10, ordered <- v11
Buying == INSTANCE Checkout WITH
  Payments <- {"p", "q"}, Purchases <- {"u"}, Learners <- {"l"}, LearnerOf <- Buyer, Plans <- {"card", "coupon_card"},
  Checkers <- {}, Sweep <- "sweep", MaxUses <- 1, MaxPerUser <- 1, MaxAttempts <- 1, MaxAge <- 3,
  purchase <- v1, plan <- v2, request <- v3, status <- v4, stored <- v5, age <- v6,
  attempts <- v7, page <- v8, check <- v9, late <- v10, owned <- v11

ASSUME LeaseValues == Lease!LeaseAssumption
ASSUME GrantsValues == Grants!AccessAssumption

\* The registers from the n-th on are not used, and stay as they are.
Off11 == v11 = None
Off10 == v10 = None /\ Off11
Off9 == v9 = None /\ Off10
Off8 == v8 = None /\ Off9
Off7 == v7 = None /\ Off8
Off6 == v6 = None /\ Off7
Same11 == UNCHANGED v11
Same10 == UNCHANGED v10 /\ Same11
Same9 == UNCHANGED v9 /\ Same10
Same8 == UNCHANGED v8 /\ Same9
Same7 == UNCHANGED v7 /\ Same8
Same6 == UNCHANGED v6 /\ Same7

LeaseInit == which = "Lease" /\ Lease!Init /\ Off6
InLease(A) == which = "Lease" /\ A /\ Same6 /\ UNCHANGED which
LeaseStep == which = "Lease" /\ Lease!Next /\ Same6 /\ UNCHANGED which
GrantsInit == which = "Grants" /\ Grants!Init
InGrants(A) == which = "Grants" /\ A /\ UNCHANGED which
GrantsStep == which = "Grants" /\ Grants!Next /\ UNCHANGED which
BuyingInit == which = "Buying" /\ Buying!Init
InBuying(A) == which = "Buying" /\ A /\ UNCHANGED which
BuyingStep == which = "Buying" /\ Buying!Next /\ UNCHANGED which

Init ==
  \/ LeaseInit \/ GrantsInit \/ BuyingInit

Next ==
  \/ LeaseStep \/ GrantsStep \/ BuyingStep

Fairness ==
  /\ SF_vars(InLease(\E r \in {1, 2, 3} : Lease!Start(r)))
  /\ WF_vars(InLease(Lease!Expire))
  /\ \A r \in {1, 2, 3} : WF_vars(InLease(Lease!Finish(r)))
  /\ \A p \in {1, 2} :
       /\ WF_vars(InGrants(Grants!Reload(p))) /\ WF_vars(InGrants(Grants!Publish(p)))
       /\ WF_vars(InGrants(\E h \in {1, 2} : Grants!ReadGrant(h, Grants!Granting(p))))
  /\ \A h \in {1, 2} : WF_vars(InGrants(Grants!SaveGrant(h)))
  /\ WF_vars(InBuying(Buying!JobStep))
  /\ WF_vars(InBuying(Buying!RequestStep("p"))) /\ WF_vars(InBuying(Buying!RequestStep("q")))
  /\ WF_vars(InBuying(Buying!Elapse("p")))
  /\ SF_vars(InBuying(Buying!BeginSweep("p"))) /\ SF_vars(InBuying(Buying!BeginExpiry("p")))
  /\ SF_vars(InBuying(Buying!HearsPaid("p")))
  /\ SF_vars(InBuying(Buying!Concludes("p")))

Spec == Init /\ [][Next]_vars /\ Fairness

\* The properties of the parts, stated and explained in their modules.
\* A job goes on being run, whatever runs crash (startJob, JobRunner).
JobKeepsRunning == []<>(which = "Lease" => Lease!Running)

\* A page that was paid is confirmed without any webhook (sweepPendingPayments,
\* expireAbandonedCheckouts); q is another checkout of the purchase, which may
\* supersede it.
PaidIsConfirmed == (which = "Buying" /\ Buying!Paid("p")) ~> (which = "Buying" /\ Buying!Settled("p"))

\* A confirmed payment grants, whatever is lost (completePendingEffects).
ConfirmedIsGranted ==
  \A p \in {1, 2} : (which = "Grants" /\ Grants!Confirmed(p)) ~> (which = "Grants" /\ Grants!Honoured(p))
=============================================================================
