----------------------------- MODULE MCCheckout -----------------------------
(* Instances of Checkout: a purchase of ann and one of ben, of one course.  *)
(* Exchanging the two with their learners changes nothing.                  *)
EXTENDS Checkout, TLC

CONSTANTS u1, u2, ann, ben

LearnersOf == (u1 :> ann) @@ (u2 :> ben)
Exchange == (u1 :> u2) @@ (u2 :> u1) @@ (ann :> ben) @@ (ben :> ann)
Symmetry == Permutations(Payments) \cup {Exchange}
=============================================================================
