---------------------------- MODULE MCSettlement ----------------------------
(* Instances of Settlement: p1 and p2 are duplicates of one purchase.       *)
EXTENDS Settlement, TLC

CONSTANTS p1, p2, u1

TwoDuplicates == (p1 :> u1) @@ (p2 :> u1)
BothLarge == {{p1, p2}}
Symmetry == Permutations({p1, p2}) \cup Permutations(Payouts) \cup Permutations(Sessions)
=============================================================================
