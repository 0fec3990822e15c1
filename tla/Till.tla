-------------------------------- MODULE Till --------------------------------
(***************************************************************************)
(* What checkout promises about money: what is honoured was paid for, a    *)
(* wallet is debited together with the purchase it pays, once per          *)
(* purchase, and neither is taken back here (refunds are Escrow's).        *)
(***************************************************************************)
CONSTANTS Payments, Purchases

VARIABLES
  taken,     \* payments whose price the platform has
  honoured,  \* payments confirmed
  debited    \* wallet debits: the purchase, and the payment that debited

vars == <<taken, honoured, debited>>

Init == taken = {} /\ honoured = {} /\ debited = {}

\* The gateway takes the money; what it took may be honoured later.
Take(p) ==
  /\ taken' = taken \cup {p}
  /\ UNCHANGED <<honoured, debited>>

Honour(p) ==
  /\ p \in taken
  /\ honoured' = honoured \cup {p}
  /\ UNCHANGED <<taken, debited>>

\* Nothing to take, or the bank took it: both at once.
Grant(p) ==
  /\ taken' = taken \cup {p}
  /\ honoured' = honoured \cup {p}
  /\ UNCHANGED debited

Debit(p, u) ==
  /\ \A q \in Payments : <<u, q>> \notin debited
  /\ taken' = taken \cup {p}
  /\ honoured' = honoured \cup {p}
  /\ debited' = debited \cup {<<u, p>>}

Next == \E p \in Payments :
  \/ Take(p) \/ Honour(p) \/ Grant(p)
  \/ \E u \in Purchases : Debit(p, u)

Spec == Init /\ [][Next]_vars
=============================================================================
