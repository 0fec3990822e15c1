------------------------------- MODULE Escrow -------------------------------
(***************************************************************************)
(* What the financial service promises about the money of one purchase,    *)
(* with no table, lock or transaction in sight.  A purchase that was paid  *)
(* is held by the platform until it either goes back to the learner or on  *)
(* to the educator, never both; and the wallet credits it earned can be    *)
(* spent only when the purchase stands for good.                           *)
(***************************************************************************)
CONSTANT Payments

VARIABLES
  fate,       \* fate[p]: where the money of payment p is
  spendable   \* the payments whose credits are in somebody's balance

vars == <<fate, spendable>>

Fates == {"unpaid", "held", "returned", "paid_out"}

Init ==
  /\ fate = [p \in Payments |-> "unpaid"]
  /\ spendable = {}

Buy(p) ==
  /\ fate[p] = "unpaid"
  /\ fate' = [fate EXCEPT ![p] = "held"]
  /\ UNCHANGED spendable

\* The money goes back, and the credits of the purchase with it.
Return(p) ==
  /\ fate[p] = "held"
  /\ p \notin spendable
  /\ fate' = [fate EXCEPT ![p] = "returned"]
  /\ UNCHANGED spendable

\* One payout takes the money of several purchases.
PayOut(S) ==
  /\ \A p \in S : fate[p] = "held"
  /\ fate' = [p \in Payments |-> IF p \in S THEN "paid_out" ELSE fate[p]]
  /\ UNCHANGED spendable

Release(S) ==
  /\ \A p \in S : fate[p] \in {"held", "paid_out"}
  /\ spendable' = spendable \cup S
  /\ UNCHANGED fate

Next ==
  \/ \E p \in Payments : Buy(p) \/ Return(p)
  \/ \E S \in SUBSET Payments : PayOut(S) \/ Release(S)

Spec == Init /\ [][Next]_vars
=============================================================================
