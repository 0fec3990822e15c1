--------------------------------- MODULE Wallet ---------------------------------
(***************************************************************************)
(* growth.service.ts: the balance of one learner.  It is a column of its   *)
(* own, changed beside the rows of wallet_transactions by transactions     *)
(* that overlap: a purchase debits, a top-up credits, and a look at the    *)
(* wallet or a debit releases the credits that have matured.  Postgres     *)
(* keeps the rows a transaction wrote locked until it ends; a statement    *)
(* that meets such a row waits, and then sees what was committed.  Which   *)
(* credits a refund voids is in Settlement.                                *)
(***************************************************************************)
EXTENDS Integers, FiniteSets

CONSTANTS
  Credits,    \* cashback and rewards, one unit each
  Topups,     \* one unit each
  Purchases,
  Price,
  Sessions,   \* transactions at a time
  None

WalletAssumption ==
  /\ Price \in Nat
  /\ None \notin Topups \cup Purchases
  /\ Topups \cap Purchases = {}
  /\ IsFiniteSet(Credits) /\ IsFiniteSet(Topups) /\ IsFiniteSet(Purchases)

VARIABLES
  balance,  \* wallets.balance_etb
  credit,   \* the row of each credit: none, pending, matured, available
  topped,   \* top-ups with a row
  spent,    \* purchases with a row
  tx        \* per session: the step, the purchase or top-up, the credits it has released, whether it
            \* has the wallet's row, and what it adds

vars == <<balance, credit, topped, spent, tx>>

NoTx == [at |-> "idle", for |-> None, released |-> {}, holds |-> FALSE, delta |-> 0]
Steps == {"idle", "insert", "release", "add", "credit", "debit", "commit"}

TypeOK ==
  /\ balance \in Int
  /\ credit \in [Credits -> {"none", "pending", "matured", "available"}]
  /\ topped \subseteq Topups /\ spent \subseteq Purchases
  /\ tx \in [Sessions -> [at : Steps, for : Topups \cup Purchases \cup {None}, released : SUBSET Credits, holds : BOOLEAN, delta : Int]]

Init ==
  /\ balance = 0
  /\ credit = [c \in Credits |-> "none"]
  /\ topped = {} /\ spent = {}
  /\ tx = [s \in Sessions |-> NoTx]

rows == <<balance, credit, topped, spent>>
Others(s) == Sessions \ {s}

\* creditWith with a pending credit, in the savepoint of a confirmation.
Earn(c) ==
  /\ credit[c] = "none"
  /\ credit' = [credit EXCEPT ![c] = "pending"]
  /\ UNCHANGED <<balance, topped, spent, tx>>

\* available_at passes.
Mature(c) ==
  /\ credit[c] = "pending"
  /\ credit' = [credit EXCEPT ![c] = "matured"]
  /\ UNCHANGED <<balance, topped, spent, tx>>

\* wallet() begins with releaseMatured, a debit or a top-up with its own row.
Begin(s, x) ==
  /\ tx[s] = NoTx
  /\ tx' = [tx EXCEPT ![s].at = IF x = None THEN "release" ELSE "insert", ![s].for = x]
  /\ UNCHANGED rows

\* ON CONFLICT DO NOTHING: waits for an insert of the same reference that is not
\* committed, and does nothing more when there is a row.
Conflicts(s) == tx[s].for \in topped \cup spent
Insert(s) ==
  /\ tx[s].at = "insert"
  /\ \A o \in Others(s) : tx[o].for # tx[s].for \/ tx[o].at \in {"idle", "insert"}
  /\ tx' = [tx EXCEPT ![s] = IF Conflicts(s) THEN NoTx
                             ELSE [@ EXCEPT !.at = IF tx[s].for \in Topups THEN "credit" ELSE "release"]]
  /\ UNCHANGED rows

\* releaseMatured's UPDATE: the rows it changes are locked, and their sum is to
\* be added to the balance.
Matured == {c \in Credits : credit[c] = "matured"}
MUnlocked(s) == TRUE
Unlocked(s) == \A o \in Others(s) : Matured \cap tx[o].released = {}
AfterRelease(s) == IF tx[s].for = None THEN "commit" ELSE "debit"
Release(s) ==
  /\ tx[s].at = "release"
  /\ Unlocked(s)
  /\ tx' = [tx EXCEPT ![s].at = IF Matured = {} THEN AfterRelease(s) ELSE "add", ![s].released = Matured]
  /\ UNCHANGED rows

\* The statements on the wallet's row.
WalletFree(s) == \A o \in Others(s) : ~tx[o].holds
Written(s, step, delta) == [at |-> step, for |-> tx[s].for, released |-> tx[s].released, holds |-> TRUE, delta |-> delta]
Add(s) ==
  /\ tx[s].at = "add" /\ WalletFree(s)
  /\ tx' = [tx EXCEPT ![s] = Written(s, AfterRelease(s), Cardinality(tx[s].released))]
  /\ UNCHANGED rows

Credit(s) ==
  /\ tx[s].at = "credit" /\ WalletFree(s)
  /\ tx' = [tx EXCEPT ![s] = Written(s, "commit", 1)]
  /\ UNCHANGED rows

\* The check and the debit are one UPDATE; when it finds too little, all of the
\* transaction is rolled back.
Covers(s) == balance + tx[s].delta >= Price
Debit(s) ==
  /\ tx[s].at = "debit" /\ WalletFree(s)
  /\ tx' = [tx EXCEPT ![s] = IF Covers(s) THEN Written(s, "commit", tx[s].delta - Price) ELSE NoTx]
  /\ UNCHANGED rows

Commit(s) ==
  /\ tx[s].at = "commit"
  /\ balance' = balance + tx[s].delta
  /\ credit' = [c \in Credits |-> IF c \in tx[s].released THEN "available" ELSE credit[c]]
  /\ topped' = topped \cup ({tx[s].for} \cap Topups)
  /\ spent' = spent \cup ({tx[s].for} \cap Purchases)
  /\ tx' = [tx EXCEPT ![s] = NoTx]

\* Another step of the confirmation fails, the process or the connection dies.
Rollback(s) ==
  /\ tx[s].at # "idle"
  /\ tx' = [tx EXCEPT ![s] = NoTx]
  /\ UNCHANGED rows

Next ==
  \/ \E c \in Credits : Earn(c) \/ Mature(c)
  \/ \E s \in Sessions :
       \/ \E x \in Topups \cup Purchases \cup {None} : Begin(s, x)
       \/ Insert(s) \/ Release(s) \/ Add(s) \/ Credit(s) \/ Debit(s) \/ Commit(s) \/ Rollback(s)

Spec == Init /\ [][Next]_vars

-----------------------------------------------------------------------------
(* Properties                                                              *)

\* The balance is the sum of the rows and never below zero, whatever debits,
\* top-ups, releases, replays and rollbacks overlap (creditWith, debitWith,
\* releaseMatured).
Released == {c \in Credits : credit[c] = "available"}
WalletAddsUp ==
  /\ balance >= 0
  /\ balance = Cardinality(Released) + Cardinality(topped) - Price * Cardinality(spent)
=============================================================================
