-------------------------- MODULE FinancialProofs --------------------------
(***************************************************************************)
(* Proofs about two parts of the financial service: Wallet, for any        *)
(* credits, top-ups, purchases, prices and any number of overlapping       *)
(* transactions, and Sponsorship, for any payers, emails and seats.        *)
(***************************************************************************)
EXTENDS Integers, FiniteSetTheorems, TLAPS

CONSTANTS None, Credits, Topups, Purchases, Price, Sessions, Payers, Emails, Recipient, Seats

VARIABLES
  balance, credit, topped, spent, tx,
  kind, row, call, payment, effect, done, told, account, seat, assign, crossed

Purse == INSTANCE Wallet
Gift == INSTANCE Sponsorship

\* Purse's finite sets and their sizes are those of the library's theorems.
LEMMA PurseSets == \A S : (Purse!IsFiniteSet(S) <=> IsFiniteSet(S)) /\ Purse!Cardinality(S) = Cardinality(S)
BY DEF Purse!IsFiniteSet, IsFiniteSet, Purse!Cardinality, Cardinality

\* Gift's finite sets and their sizes are those of the library's theorems.
LEMMA GiftSets == \A S : (Gift!IsFiniteSet(S) <=> IsFiniteSet(S)) /\ Gift!Cardinality(S) = Cardinality(S)
BY DEF Gift!IsFiniteSet, IsFiniteSet, Gift!Cardinality, Cardinality

-----------------------------------------------------------------------------
(* The wallet: the inductive invariant                                     *)

Inserted(s) == tx[s].at \notin {"idle", "insert"}

\* What a transaction that has not committed adds to the balance is what its
\* rows say; it is not zero only while the transaction has the wallet's row.
DeltaIsOfRows(s) ==
  /\ tx[s].at \in {"idle", "insert", "release", "credit"} => ~tx[s].holds /\ tx[s].released = {}
  /\ tx[s].at = "idle" => tx[s] = Purse!NoTx
  /\ tx[s].at = "credit" => tx[s].for \in Topups
  /\ tx[s].at \in {"release", "add", "debit"} => tx[s].for \notin Topups
  /\ tx[s].at = "add" => ~tx[s].holds
  /\ tx[s].at = "debit" => tx[s].for \in Purchases /\ tx[s].delta = Cardinality(tx[s].released)
  /\ tx[s].at = "commit" =>
       tx[s].delta = Cardinality(tx[s].released) + (IF tx[s].for \in Topups THEN 1 ELSE 0)
                       - (IF tx[s].for \in Purchases THEN Price ELSE 0)
  /\ tx[s].holds => balance + tx[s].delta >= 0
  /\ ~tx[s].holds => tx[s].delta = 0
  /\ ~tx[s].holds /\ tx[s].at \in {"debit", "commit"} => tx[s].released = {}

\* Released credits are matured, and a reference with an open row has none yet.
RowsAreOpen(s) ==
  /\ tx[s].released \subseteq Purse!Matured
  /\ Inserted(s) => tx[s].for \notin topped \cup spent

\* Two transactions never have the wallet's row, a credit or a reference at once.
Apart(s, o) ==
  /\ ~(tx[s].holds /\ tx[o].holds)
  /\ tx[s].released \cap tx[o].released = {}
  /\ Inserted(s) /\ Inserted(o) /\ tx[s].for # None => tx[s].for # tx[o].for

PurseInv ==
  /\ Purse!TypeOK
  /\ Purse!WalletAddsUp
  /\ \A s \in Sessions : DeltaIsOfRows(s) /\ RowsAreOpen(s)
  /\ \A s, o \in Sessions : s # o => Apart(s, o)

TxType == [at : Purse!Steps, for : Topups \cup Purchases \cup {None}, released : SUBSET Credits, holds : BOOLEAN, delta : Int]

-----------------------------------------------------------------------------
(* Lemmas                                                                  *)

\* The numbers of credits, top-ups and purchases are numbers.
LEMMA Counts ==
  ASSUME Purse!WalletAssumption, Purse!TypeOK
  PROVE  /\ IsFiniteSet(Purse!Released) /\ Cardinality(Purse!Released) \in Nat
         /\ IsFiniteSet(topped) /\ Cardinality(topped) \in Nat
         /\ IsFiniteSet(spent) /\ Cardinality(spent) \in Nat
         /\ Price \in Nat
         /\ \A s \in Sessions : IsFiniteSet(tx[s].released) /\ Cardinality(tx[s].released) \in Nat
<1>1. Purse!Released \subseteq Credits /\ topped \subseteq Topups /\ spent \subseteq Purchases
  BY DEF Purse!Released, Purse!TypeOK
<1>2. \A s \in Sessions : tx[s].released \subseteq Credits
  BY DEF Purse!TypeOK
<1> QED BY <1>1, <1>2, FS_Subset, FS_CardinalityType, PurseSets DEF Purse!WalletAssumption

\* A step of one transaction that commits nothing: the others see no change.
LEMMA LocalStep ==
  ASSUME PurseInv, NEW s \in Sessions, NEW t \in TxType,
         UNCHANGED Purse!rows, tx' = [tx EXCEPT ![s] = t],
         DeltaIsOfRows(s)', RowsAreOpen(s)',
         \A o \in Sessions \ {s} : Apart(s, o)'
  PROVE  PurseInv'
<1> USE DEF PurseInv
<1>1. Purse!TypeOK'
  BY DEF Purse!TypeOK, TxType, Purse!rows
<1>2. Purse!WalletAddsUp'
  BY DEF Purse!WalletAddsUp, Purse!Released, Purse!rows
<1>3. \A o \in Sessions \ {s} : tx'[o] = tx[o]
  BY DEF Purse!TypeOK
<1>4. \A o \in Sessions \ {s} : DeltaIsOfRows(o)' /\ RowsAreOpen(o)'
  BY <1>3 DEF DeltaIsOfRows, RowsAreOpen, Inserted, Purse!Matured, Purse!rows
<1>5. ASSUME NEW o \in Sessions, NEW q \in Sessions, o # q PROVE Apart(o, q)'
  <2>1. CASE o # s /\ q # s
    BY <1>3, <1>5, <2>1 DEF Apart, Inserted
  <2>2. CASE o = s
    BY <1>5, <2>2
  <2>3. CASE q = s
    <3>1. Apart(s, o)'
      BY <1>5, <2>3
    <3> QED BY <3>1, <2>3 DEF Apart
  <2> QED BY <2>1, <2>2, <2>3
<1> QED BY <1>1, <1>2, <1>4, <1>5

LEMMA PurseInitInv ==
  ASSUME Purse!WalletAssumption, Purse!Init PROVE PurseInv
<1>1. Purse!TypeOK
  BY DEF Purse!Init, Purse!TypeOK, Purse!NoTx, Purse!Steps
<1>2. Purse!Released = {}
  BY DEF Purse!Init, Purse!Released
<1>3. Purse!WalletAddsUp
  BY <1>2, FS_EmptySet, PurseSets DEF Purse!Init, Purse!WalletAddsUp, Purse!WalletAssumption
<1>4. \A s \in Sessions : DeltaIsOfRows(s) /\ RowsAreOpen(s)
  BY DEF Purse!Init, DeltaIsOfRows, RowsAreOpen, Inserted, Purse!NoTx
<1>5. \A s, o \in Sessions : Apart(s, o)
  BY DEF Purse!Init, Apart, Inserted, Purse!NoTx
<1> QED BY <1>1, <1>3, <1>4, <1>5 DEF PurseInv

-----------------------------------------------------------------------------
(* The steps that commit nothing                                           *)

LEMMA RollbackInv ==
  ASSUME Purse!WalletAssumption, PurseInv, NEW s \in Sessions, Purse!Rollback(s) PROVE PurseInv'
<1>1. Purse!NoTx \in TxType /\ tx' = [tx EXCEPT ![s] = Purse!NoTx] /\ tx'[s] = Purse!NoTx /\ UNCHANGED Purse!rows
  BY DEF Purse!Rollback, Purse!NoTx, TxType, Purse!Steps, PurseInv, Purse!TypeOK
<1>2. DeltaIsOfRows(s)' /\ RowsAreOpen(s)'
  BY <1>1 DEF DeltaIsOfRows, RowsAreOpen, Inserted, Purse!NoTx
<1>3. \A o \in Sessions \ {s} : Apart(s, o)'
  BY <1>1 DEF Apart, Inserted, Purse!NoTx
<1> QED BY <1>1, <1>2, <1>3, LocalStep

LEMMA BeginInv ==
  ASSUME Purse!WalletAssumption, PurseInv, NEW s \in Sessions, NEW x \in Topups \cup Purchases \cup {None}, Purse!Begin(s, x) PROVE PurseInv'
<1> DEFINE t == [tx[s] EXCEPT !.at = IF x = None THEN "release" ELSE "insert", !.for = x]
<1>1. t \in TxType /\ tx' = [tx EXCEPT ![s] = t] /\ tx'[s] = t /\ UNCHANGED Purse!rows /\ tx[s] = Purse!NoTx
  BY DEF Purse!Begin, Purse!NoTx, TxType, Purse!Steps, PurseInv, Purse!TypeOK
<1>2. DeltaIsOfRows(s)'
  BY <1>1 DEF DeltaIsOfRows, Purse!NoTx, Purse!WalletAssumption
<1>3. RowsAreOpen(s)'
  BY <1>1 DEF RowsAreOpen, Inserted, Purse!NoTx, Purse!WalletAssumption, PurseInv, Purse!TypeOK, Purse!rows
<1>4. \A o \in Sessions \ {s} : Apart(s, o)'
  BY <1>1 DEF Apart, Inserted, Purse!NoTx
<1> HIDE DEF t
<1> QED BY <1>1, <1>2, <1>3, <1>4, LocalStep

LEMMA InsertInv ==
  ASSUME Purse!WalletAssumption, PurseInv, NEW s \in Sessions, Purse!Insert(s) PROVE PurseInv'
<1> DEFINE t == IF Purse!Conflicts(s) THEN Purse!NoTx ELSE [tx[s] EXCEPT !.at = IF tx[s].for \in Topups THEN "credit" ELSE "release"]
<1>1. t \in TxType /\ tx' = [tx EXCEPT ![s] = t] /\ tx'[s] = t /\ UNCHANGED Purse!rows
  BY DEF Purse!Insert, Purse!NoTx, TxType, Purse!Steps, PurseInv, Purse!TypeOK
<1>2. CASE Purse!Conflicts(s)
  <2>1. DeltaIsOfRows(s)' /\ RowsAreOpen(s)'
    BY <1>1, <1>2 DEF DeltaIsOfRows, RowsAreOpen, Inserted, Purse!NoTx
  <2>2. \A o \in Sessions \ {s} : Apart(s, o)'
    BY <1>1, <1>2 DEF Apart, Inserted, Purse!NoTx
  <2> HIDE DEF t
  <2> QED BY <1>1, <2>1, <2>2, LocalStep
<1>3. CASE ~Purse!Conflicts(s)
  <2>1. DeltaIsOfRows(s)'
    BY <1>1, <1>3 DEF DeltaIsOfRows, PurseInv, Purse!Insert, Purse!TypeOK
  <2>2. RowsAreOpen(s)'
    BY <1>1, <1>3 DEF RowsAreOpen, Inserted, Purse!Conflicts, Purse!Matured, Purse!rows, Purse!Insert, PurseInv, DeltaIsOfRows, Purse!TypeOK
  \* The insert waited for everybody else with this reference.
  <2>3. ASSUME NEW o \in Sessions \ {s} PROVE Apart(s, o)'
    <3>1. tx'[o] = tx[o] /\ tx'[s].holds = FALSE /\ tx'[s].released = {} /\ tx'[s].for = tx[s].for
      BY <1>1, <1>3, <2>1 DEF PurseInv, Purse!TypeOK, Purse!Insert, DeltaIsOfRows
    <3>2. tx[o].for # tx[s].for \/ tx[o].at \in {"idle", "insert"}
      BY DEF Purse!Insert, Purse!Others
    <3> QED BY <3>1, <3>2 DEF Apart, Inserted
  <2> HIDE DEF t
  <2> QED BY <1>1, <2>1, <2>2, <2>3, LocalStep
<1> QED BY <1>2, <1>3

LEMMA ReleaseInv ==
  ASSUME Purse!WalletAssumption, PurseInv, NEW s \in Sessions, Purse!Release(s) PROVE PurseInv'
<1> DEFINE t == [tx[s] EXCEPT !.at = IF Purse!Matured = {} THEN Purse!AfterRelease(s) ELSE "add", !.released = Purse!Matured]
<1>1. t \in TxType /\ tx' = [tx EXCEPT ![s] = t] /\ tx'[s] = t /\ UNCHANGED Purse!rows /\ tx[s].at = "release"
  BY DEF Purse!Release, TxType, Purse!Steps, PurseInv, Purse!TypeOK, Purse!AfterRelease, Purse!Matured
<1>2. ~tx[s].holds /\ tx[s].delta = 0 /\ tx[s].for \notin Topups
  BY <1>1 DEF PurseInv, DeltaIsOfRows
<1>3. Cardinality({}) = 0
  BY FS_EmptySet
<1>4. DeltaIsOfRows(s)'
  <2>1. tx'[s].holds = FALSE /\ tx'[s].delta = 0 /\ tx'[s].released = Purse!Matured /\ tx'[s].for = tx[s].for
    BY <1>1, <1>2 DEF TxType, PurseInv, Purse!TypeOK
  <2>2. CASE Purse!Matured # {}
    <3>1. tx'[s].at = "add"
      BY <1>1, <2>2 DEF TxType, PurseInv, Purse!TypeOK
    <3> QED BY <1>2, <2>1, <3>1 DEF DeltaIsOfRows
  <2>3. CASE Purse!Matured = {}
    <3>1. tx'[s].at = Purse!AfterRelease(s)
      BY <1>1, <2>3 DEF TxType, PurseInv, Purse!TypeOK
    <3>2. CASE tx[s].for = None
      <4>1. tx'[s].at = "commit" /\ tx[s].for \notin Purchases
        BY <3>1, <3>2 DEF Purse!AfterRelease, Purse!WalletAssumption
      <4> QED BY <1>2, <1>3, <2>1, <2>3, <4>1 DEF DeltaIsOfRows
    <3>3. CASE tx[s].for # None
      <4>1. tx'[s].at = "debit" /\ tx[s].for \in Purchases
        BY <1>2, <3>1, <3>3 DEF Purse!AfterRelease, PurseInv, Purse!TypeOK
      <4> QED BY <1>2, <1>3, <2>1, <2>3, <4>1 DEF DeltaIsOfRows
    <3> QED BY <3>2, <3>3
  <2> QED BY <2>2, <2>3
<1>5. RowsAreOpen(s)'
  BY <1>1 DEF RowsAreOpen, Inserted, Purse!Matured, Purse!rows, PurseInv
<1>6. ASSUME NEW o \in Sessions \ {s} PROVE Apart(s, o)'
  <2>1. tx'[o] = tx[o] /\ tx'[s].for = tx[s].for /\ tx'[s].holds = tx[s].holds /\ Apart(s, o)
    BY <1>1 DEF PurseInv, Purse!TypeOK
  <2>2. Purse!Matured \cap tx[o].released = {}
    BY DEF Purse!Release, Purse!Unlocked, Purse!Others
  <2> QED BY <1>1, <2>1, <2>2 DEF Apart, Inserted
<1> HIDE DEF t
<1> QED BY <1>1, <1>4, <1>5, <1>6, LocalStep

LEMMA AddInv ==
  ASSUME Purse!WalletAssumption, PurseInv, NEW s \in Sessions, Purse!Add(s) PROVE PurseInv'
<1> DEFINE t == Purse!Written(s, Purse!AfterRelease(s), Cardinality(tx[s].released))
<1>1. Cardinality(tx[s].released) \in Nat /\ Price \in Nat
  BY Counts DEF PurseInv
<1>2. t \in TxType /\ tx' = [tx EXCEPT ![s] = t] /\ tx'[s] = t /\ UNCHANGED Purse!rows /\ tx[s].at = "add"
  <2>1. tx[s] \in TxType /\ tx \in [Sessions -> TxType]
    BY DEF TxType, PurseInv, Purse!TypeOK
  <2>2. t \in TxType
    BY <1>1, <2>1 DEF TxType, Purse!Steps, Purse!AfterRelease, Purse!Written
  <2>3. tx' = [tx EXCEPT ![s] = t]
    BY PurseSets DEF Purse!Add
  <2>4. UNCHANGED Purse!rows /\ tx[s].at = "add"
    BY DEF Purse!Add
  <2> HIDE DEF t
  <2> QED BY <2>1, <2>2, <2>3, <2>4
<1>3. /\ tx'[s].at = Purse!AfterRelease(s) /\ tx'[s].holds = TRUE /\ tx'[s].delta = Cardinality(tx[s].released)
      /\ tx'[s].released = tx[s].released /\ tx'[s].for = tx[s].for
      /\ tx[s].for \notin Topups /\ balance \in Int /\ balance >= 0 /\ balance' = balance
  BY <1>2 DEF Purse!Written, PurseInv, Purse!TypeOK, DeltaIsOfRows, Purse!WalletAddsUp, Purse!rows
<1>4. DeltaIsOfRows(s)'
  <2>1. CASE tx[s].for = None
    <3>1. tx'[s].at = "commit" /\ tx[s].for \notin Purchases
      BY <1>3, <2>1 DEF Purse!AfterRelease, Purse!WalletAssumption
    <3> QED BY <1>1, <1>3, <3>1 DEF DeltaIsOfRows
  <2>2. CASE tx[s].for # None
    <3>1. tx'[s].at = "debit" /\ tx[s].for \in Purchases
      BY <1>3, <2>2 DEF Purse!AfterRelease, PurseInv, Purse!TypeOK
    <3> QED BY <1>1, <1>3, <3>1 DEF DeltaIsOfRows
  <2> QED BY <2>1, <2>2
<1>5. RowsAreOpen(s)'
  BY <1>2, <1>3 DEF RowsAreOpen, Inserted, Purse!Matured, Purse!rows, PurseInv
<1>6. ASSUME NEW o \in Sessions \ {s} PROVE Apart(s, o)'
  <2>1. tx'[o] = tx[o] /\ Apart(s, o) /\ ~tx[o].holds
    BY <1>2 DEF PurseInv, Purse!TypeOK, Purse!Add, Purse!WalletFree, Purse!Others
  <2> QED BY <1>2, <1>3, <2>1 DEF Apart, Inserted
<1> HIDE DEF t
<1> QED BY <1>2, <1>4, <1>5, <1>6, LocalStep

LEMMA CreditInv ==
  ASSUME Purse!WalletAssumption, PurseInv, NEW s \in Sessions, Purse!Credit(s) PROVE PurseInv'
<1> DEFINE t == Purse!Written(s, "commit", 1)
<1>1. Cardinality({}) = 0
  BY FS_EmptySet
<1>2. t \in TxType /\ tx' = [tx EXCEPT ![s] = t] /\ tx'[s] = t /\ UNCHANGED Purse!rows /\ tx[s].at = "credit"
  <2>1. tx[s] \in TxType /\ tx \in [Sessions -> TxType]
    BY DEF TxType, PurseInv, Purse!TypeOK
  <2>2. t \in TxType
    BY <2>1 DEF TxType, Purse!Steps, Purse!AfterRelease, Purse!Written
  <2>3. tx' = [tx EXCEPT ![s] = t]
    BY DEF Purse!Credit
  <2>4. UNCHANGED Purse!rows /\ tx[s].at = "credit"
    BY DEF Purse!Credit
  <2> HIDE DEF t
  <2> QED BY <2>1, <2>2, <2>3, <2>4
<1>3. /\ tx'[s].at = "commit" /\ tx'[s].holds = TRUE /\ tx'[s].delta = 1
      /\ tx'[s].released = {} /\ tx[s].released = {} /\ tx'[s].for = tx[s].for
      /\ tx[s].for \in Topups /\ tx[s].for \notin Purchases
      /\ balance \in Int /\ balance >= 0 /\ balance' = balance
  BY <1>2 DEF Purse!Written, PurseInv, Purse!TypeOK, DeltaIsOfRows, Purse!WalletAddsUp, Purse!rows, Purse!WalletAssumption
<1>4. DeltaIsOfRows(s)'
  BY <1>1, <1>3 DEF DeltaIsOfRows
<1>5. RowsAreOpen(s)'
  BY <1>2, <1>3 DEF RowsAreOpen, Inserted, Purse!rows, PurseInv
<1>6. ASSUME NEW o \in Sessions \ {s} PROVE Apart(s, o)'
  <2>1. tx'[o] = tx[o] /\ Apart(s, o) /\ ~tx[o].holds
    BY <1>2 DEF PurseInv, Purse!TypeOK, Purse!Credit, Purse!WalletFree, Purse!Others
  <2> QED BY <1>2, <1>3, <2>1 DEF Apart, Inserted
<1> HIDE DEF t
<1> QED BY <1>2, <1>4, <1>5, <1>6, LocalStep

LEMMA DebitInv ==
  ASSUME Purse!WalletAssumption, PurseInv, NEW s \in Sessions, Purse!Debit(s) PROVE PurseInv'
<1>1. CASE ~Purse!Covers(s)
  <2>1. Purse!Rollback(s)
    BY <1>1 DEF Purse!Debit, Purse!Rollback
  <2> QED BY <2>1, RollbackInv
<1>2. CASE Purse!Covers(s)
  <2> DEFINE t == Purse!Written(s, "commit", tx[s].delta - Price)
  <2>1. Cardinality(tx[s].released) \in Nat /\ Price \in Nat
    BY Counts DEF PurseInv
  <2>2. t \in TxType /\ tx' = [tx EXCEPT ![s] = t] /\ tx'[s] = t /\ UNCHANGED Purse!rows /\ tx[s].at = "debit"
    <3>1. tx[s] \in TxType /\ tx \in [Sessions -> TxType]
      BY DEF TxType, PurseInv, Purse!TypeOK
    <3>2. t \in TxType
      BY <2>1, <3>1 DEF TxType, Purse!Steps, Purse!AfterRelease, Purse!Written
    <3>3. tx' = [tx EXCEPT ![s] = t]
      BY <1>2 DEF Purse!Debit
    <3>4. UNCHANGED Purse!rows /\ tx[s].at = "debit"
      BY DEF Purse!Debit
    <3> HIDE DEF t
    <3> QED BY <3>1, <3>2, <3>3, <3>4
  <2>3. /\ tx'[s].at = "commit" /\ tx'[s].holds = TRUE /\ tx'[s].delta = Cardinality(tx[s].released) - Price
        /\ tx'[s].released = tx[s].released /\ tx'[s].for = tx[s].for
        /\ tx[s].for \in Purchases /\ tx[s].for \notin Topups /\ tx[s].delta = Cardinality(tx[s].released)
        /\ balance \in Int /\ balance' = balance
    BY <2>2 DEF Purse!Written, PurseInv, Purse!TypeOK, DeltaIsOfRows, Purse!rows, Purse!WalletAssumption
  <2>4. balance + (Cardinality(tx[s].released) - Price) >= 0
    BY <1>2, <2>1, <2>3 DEF Purse!Covers
  <2>5. DeltaIsOfRows(s)'
    BY <2>1, <2>3, <2>4 DEF DeltaIsOfRows
  <2>6. RowsAreOpen(s)'
    BY <2>2, <2>3 DEF RowsAreOpen, Inserted, Purse!Matured, Purse!rows, PurseInv
  <2>7. ASSUME NEW o \in Sessions \ {s} PROVE Apart(s, o)'
    <3>1. tx'[o] = tx[o] /\ Apart(s, o) /\ ~tx[o].holds
      BY <2>2 DEF PurseInv, Purse!TypeOK, Purse!Debit, Purse!WalletFree, Purse!Others
    <3> QED BY <2>2, <2>3, <3>1 DEF Apart, Inserted
  <2> HIDE DEF t
  <2> QED BY <2>2, <2>5, <2>6, <2>7, LocalStep
<1> QED BY <1>1, <1>2

-----------------------------------------------------------------------------
(* The steps that change rows                                              *)

\* A credit is earned or matures: no row a transaction has released.
LEMMA CreditRowInv ==
  ASSUME Purse!WalletAssumption, PurseInv, NEW c \in Credits, Purse!Earn(c) \/ Purse!Mature(c) PROVE PurseInv'
<1>1. /\ credit[c] \in {"none", "pending"} /\ credit' \in [Credits -> {"none", "pending", "matured", "available"}]
      /\ UNCHANGED <<balance, topped, spent, tx>>
      /\ \A d \in Credits : (credit'[d] = "available") = (credit[d] = "available")
      /\ \A d \in Credits : credit[d] = "matured" => credit'[d] = "matured"
  BY DEF Purse!Earn, Purse!Mature, PurseInv, Purse!TypeOK
<1>2. Purse!TypeOK'
  BY <1>1 DEF PurseInv, Purse!TypeOK
<1>3. Purse!Released' = Purse!Released
  BY <1>1 DEF Purse!Released
<1>4. Purse!WalletAddsUp'
  BY <1>1, <1>3 DEF PurseInv, Purse!WalletAddsUp
<1>5. Purse!Matured \subseteq Purse!Matured'
  BY <1>1 DEF Purse!Matured
<1>6. \A s \in Sessions : DeltaIsOfRows(s)' /\ RowsAreOpen(s)'
  BY <1>1, <1>5 DEF PurseInv, DeltaIsOfRows, RowsAreOpen, Inserted
<1>7. \A s, o \in Sessions : s # o => Apart(s, o)'
  BY <1>1 DEF PurseInv, Apart, Inserted
<1> QED BY <1>2, <1>4, <1>6, <1>7 DEF PurseInv

\* Commit adds to the balance what it adds to the rows.
LEMMA CommitInv ==
  ASSUME Purse!WalletAssumption, PurseInv, NEW s \in Sessions, Purse!Commit(s) PROVE PurseInv'
<1> DEFINE R == tx[s].released
           x == tx[s].for
           d == tx[s].delta
           top == IF x \in Topups THEN 1 ELSE 0
           pur == IF x \in Purchases THEN 1 ELSE 0
<1>1. /\ tx[s].at = "commit" /\ balance' = balance + d /\ tx' = [tx EXCEPT ![s] = Purse!NoTx]
      /\ credit' = [c \in Credits |-> IF c \in R THEN "available" ELSE credit[c]]
      /\ topped' = topped \cup ({x} \cap Topups) /\ spent' = spent \cup ({x} \cap Purchases)
  BY DEF Purse!Commit
<1>2. /\ tx'[s] = Purse!NoTx /\ \A o \in Sessions \ {s} : tx'[o] = tx[o]
      /\ R \in SUBSET Credits /\ x \in Topups \cup Purchases \cup {None} /\ d \in Int /\ balance \in Int
      /\ tx[s].holds \in BOOLEAN
  BY <1>1 DEF PurseInv, Purse!TypeOK
<1>3. /\ Cardinality(Purse!Released) \in Nat /\ IsFiniteSet(Purse!Released) /\ Cardinality(R) \in Nat /\ IsFiniteSet(R)
      /\ Cardinality(topped) \in Nat /\ IsFiniteSet(topped) /\ Cardinality(spent) \in Nat /\ IsFiniteSet(spent) /\ Price \in Nat
  BY Counts DEF PurseInv
<1>4. R \subseteq Purse!Matured /\ x \notin topped \cup spent
  BY <1>1 DEF PurseInv, RowsAreOpen, Inserted
<1>5. Purse!Released' = Purse!Released \cup R /\ Purse!Released \cap R = {}
  BY <1>1, <1>2, <1>4 DEF Purse!Released, Purse!Matured
<1>6. Cardinality(Purse!Released') = Cardinality(Purse!Released) + Cardinality(R)
  <2>1. Cardinality(Purse!Released \cap R) = 0
    BY <1>5, FS_EmptySet
  <2>2. Cardinality(Purse!Released \cup R) = Cardinality(Purse!Released) + Cardinality(R) - Cardinality(Purse!Released \cap R)
    BY <1>3, FS_Union
  <2>3. Cardinality(Purse!Released \cup R) = Cardinality(Purse!Released) + Cardinality(R)
    <3> HIDE DEF R
    <3> QED BY <1>3, <2>1, <2>2
  <2> QED BY <1>5, <2>3
<1>7. Cardinality(topped') = Cardinality(topped) + top
  <2>1. CASE x \in Topups
    <3>1. topped' = topped \cup {x}
      BY <1>1, <2>1
    <3> QED BY <1>3, <1>4, <2>1, <3>1, FS_AddElement
  <2>2. CASE x \notin Topups
    <3>1. topped' = topped
      BY <1>1, <2>2
    <3> QED BY <1>3, <2>2, <3>1
  <2> QED BY <2>1, <2>2
<1>8. Cardinality(spent') = Cardinality(spent) + pur
  <2>1. CASE x \in Purchases
    <3>1. spent' = spent \cup {x}
      BY <1>1, <2>1
    <3> QED BY <1>3, <1>4, <2>1, <3>1, FS_AddElement
  <2>2. CASE x \notin Purchases
    <3>1. spent' = spent
      BY <1>1, <2>2
    <3> QED BY <1>3, <2>2, <3>1
  <2> QED BY <2>1, <2>2
<1>9. /\ d = Cardinality(R) + top - (IF x \in Purchases THEN Price ELSE 0)
      /\ balance + d >= 0
  <2>1. balance >= 0
    BY DEF PurseInv, Purse!WalletAddsUp
  <2>2. (tx[s].holds => balance + d >= 0) /\ (~tx[s].holds => d = 0)
    BY DEF PurseInv, DeltaIsOfRows
  <2>3. d = Cardinality(R) + top - (IF x \in Purchases THEN Price ELSE 0)
    BY <1>1 DEF PurseInv, DeltaIsOfRows
  <2> HIDE DEF d, R, top, x
  <2> QED BY <1>2, <2>1, <2>2, <2>3
<1>10. Purse!WalletAddsUp'
  <2>1. balance = Cardinality(Purse!Released) + Cardinality(topped) - Price * Cardinality(spent)
    BY PurseSets DEF PurseInv, Purse!WalletAddsUp
  <2>2. Price * (Cardinality(spent) + pur) = Price * Cardinality(spent) + (IF x \in Purchases THEN Price ELSE 0)
    <3>1. Price * (Cardinality(spent) + 1) = Price * Cardinality(spent) + Price
      BY <1>3
    <3> QED BY <1>3, <3>1
  <2>3. Price * Cardinality(spent) \in Int /\ top \in Nat
    BY <1>3
  <2>4. balance' = Cardinality(Purse!Released') + Cardinality(topped') - Price * Cardinality(spent')
    <3> DEFINE cost == IF x \in Purchases THEN Price ELSE 0
               total == Price * Cardinality(spent)
    <3>1. Price * Cardinality(spent') = total + cost /\ total \in Int /\ cost \in Nat
      BY <1>3, <1>8, <2>2, <2>3
    <3>2. balance = Cardinality(Purse!Released) + Cardinality(topped) - total /\ d = Cardinality(R) + top - cost
      BY <1>9, <2>1
    <3> HIDE DEF cost, total, d, top, R
    <3> QED BY <1>1, <1>2, <1>3, <1>6, <1>7, <2>3, <3>1, <3>2
  <2> QED BY <1>1, <1>9, <2>4, PurseSets DEF Purse!WalletAddsUp
<1>11. Purse!TypeOK'
  <2>1. tx' \in [Sessions -> TxType]
    BY <1>1 DEF PurseInv, Purse!TypeOK, TxType, Purse!NoTx, Purse!Steps
  <2>2. credit' \in [Credits -> {"none", "pending", "matured", "available"}]
    BY <1>1 DEF PurseInv, Purse!TypeOK
  <2>3. topped' \subseteq Topups /\ spent' \subseteq Purchases /\ balance' \in Int
    BY <1>1, <1>2 DEF PurseInv, Purse!TypeOK
  <2> QED BY <2>1, <2>2, <2>3 DEF Purse!TypeOK, TxType
\* Another transaction has other credits and another reference, and when it has
\* the wallet's row this one adds nothing.
<1>12. ASSUME NEW o \in Sessions \ {s} PROVE DeltaIsOfRows(o)' /\ RowsAreOpen(o)'
  <2>1. Apart(s, o) /\ DeltaIsOfRows(o) /\ RowsAreOpen(o) /\ tx'[o] = tx[o]
    BY <1>2 DEF PurseInv
  <2>2. tx[o].holds => balance' = balance
    <3>1. tx[o].holds => d = 0
      BY <2>1 DEF PurseInv, DeltaIsOfRows, Apart
    <3> HIDE DEF d
    <3> QED BY <1>1, <1>2, <3>1
  <2>3. DeltaIsOfRows(o)'
    BY <2>1, <2>2 DEF DeltaIsOfRows
  <2>4. tx[o].released \subseteq Purse!Matured'
    BY <1>1, <2>1 DEF RowsAreOpen, Apart, Purse!Matured
  <2>5. Inserted(o) => tx[o].for \notin topped' \cup spent'
    <3>1. x = None => topped' = topped /\ spent' = spent
      BY <1>1 DEF Purse!WalletAssumption
    <3>2. Inserted(o) /\ x # None => tx[o].for # x
      BY <1>1, <2>1 DEF Apart, Inserted
    <3> QED BY <1>1, <2>1, <3>1, <3>2 DEF RowsAreOpen
  <2> QED BY <2>1, <2>3, <2>4, <2>5 DEF RowsAreOpen, Inserted
<1>13. DeltaIsOfRows(s)' /\ RowsAreOpen(s)'
  BY <1>2 DEF DeltaIsOfRows, RowsAreOpen, Inserted, Purse!NoTx
<1>14. ASSUME NEW o \in Sessions, NEW q \in Sessions, o # q PROVE Apart(o, q)'
  BY <1>2, <1>14 DEF PurseInv, Apart, Inserted, Purse!NoTx
<1> QED BY <1>10, <1>11, <1>12, <1>13, <1>14 DEF PurseInv

-----------------------------------------------------------------------------
(* The theorems                                                            *)

LEMMA PurseNextInv ==
  ASSUME Purse!WalletAssumption, PurseInv, [Purse!Next]_Purse!vars PROVE PurseInv'
<1>1. CASE \E c \in Credits : Purse!Earn(c) \/ Purse!Mature(c)
  BY <1>1, CreditRowInv
<1>2. ASSUME NEW s \in Sessions, NEW x \in Topups \cup Purchases \cup {None}, Purse!Begin(s, x) PROVE PurseInv'
  BY <1>2, BeginInv
<1>3. ASSUME NEW s \in Sessions,
             Purse!Insert(s) \/ Purse!Release(s) \/ Purse!Add(s) \/ Purse!Credit(s) \/ Purse!Debit(s) \/ Purse!Commit(s) \/ Purse!Rollback(s)
      PROVE  PurseInv'
  BY <1>3, InsertInv, ReleaseInv, AddInv, CreditInv, DebitInv, CommitInv, RollbackInv
<1>4. CASE UNCHANGED Purse!vars
  BY <1>4 DEF Purse!vars, PurseInv, Purse!TypeOK, Purse!WalletAddsUp, Purse!Released, DeltaIsOfRows, RowsAreOpen, Apart, Inserted, Purse!Matured
<1> QED BY <1>1, <1>2, <1>3, <1>4 DEF Purse!Next

\* The tables and the transactions keep their types.
THEOREM PurseTypeCorrect ==
  ASSUME Purse!WalletAssumption PROVE Purse!Spec => []Purse!TypeOK
<1>1. Purse!Init => PurseInv
  BY PurseInitInv
<1>2. PurseInv /\ [Purse!Next]_Purse!vars => PurseInv'
  BY PurseNextInv
<1>3. PurseInv => Purse!TypeOK
  BY DEF PurseInv
<1> QED BY <1>1, <1>2, <1>3, PTL DEF Purse!Spec

\* The balance of the wallet is the sum of its rows and never below zero, for
\* any number of overlapping debits, top-ups, releases, replays and rollbacks
\* (creditWith, debitWith, releaseMatured).
THEOREM BalanceAddsUp ==
  ASSUME Purse!WalletAssumption PROVE Purse!Spec => []Purse!WalletAddsUp
<1>1. Purse!Init => PurseInv
  BY PurseInitInv
<1>2. PurseInv /\ [Purse!Next]_Purse!vars => PurseInv'
  BY PurseNextInv
<1>3. PurseInv => Purse!WalletAddsUp
  BY DEF PurseInv
<1> QED BY <1>1, <1>2, <1>3, PTL DEF Purse!Spec

-----------------------------------------------------------------------------
(* The inductive invariant                                                 *)

Idle(p) == call[p] = "idle" /\ payment[p] = "none"

\* A payer at work on a checkout has none yet, or one whose URL nobody has.
CallFits(p) ==
  /\ call[p] \in {"open", "checkout", "undo"} => payment[p] = "none"
  /\ call[p] = "attach" => payment[p] = "opened"
  /\ effect[p].at # "idle" => payment[p] = "confirmed"

\* A gift has one payer; where there is no row nobody has paid, and a row is
\* deleted only by the payer whose checkout was refused.
OnePayer ==
  /\ row.status \in {"none", "deleted"} => \A p \in Payers : Idle(p)
  /\ kind = "gift" => \A p, q \in Payers : p # q => Idle(p) \/ Idle(q)
  /\ row.status = "deleted" => kind = "gift"
  /\ kind = "bulk" => row.status = "none"

\* What a handler has read still tells it what it may write and publish.
HandlerFits(p) ==
  /\ effect[p].at \in {"look", "write"} /\ effect[p].same /\ ~crossed /\ row.status \notin Gift!Settled => row.sponsor = p
  /\ effect[p].at = "reread" => row.status \in Gift!Settled
  /\ effect[p].at = "publish" =>
       /\ effect[p].status \in Gift!Settled /\ row.status \in Gift!Settled
       /\ row.status = effect[p].status \/ row.status \in told

RowType == [status : Gift!Statuses, sponsor : Payers \cup {None}, payment : Payers \cup {None}, known : BOOLEAN]
EffectType == [at : {"idle", "look", "write", "reread", "publish"}, same : BOOLEAN, found : BOOLEAN, status : Gift!Statuses]

GiftInv ==
  /\ Gift!TypeOK
  /\ OnePayer
  /\ \A p \in Payers : CallFits(p) /\ HandlerFits(p)
  /\ Gift!SponsorPaid
  /\ Gift!PaidIsSettled
  /\ Gift!SeatsBounded

-----------------------------------------------------------------------------
(* Each step keeps it                                                      *)

\* What two steps of a handler write is the record of a handler.
LEMMA EffectUpdate ==
  ASSUME NEW e \in EffectType
  PROVE  /\ \A found \in BOOLEAN : [e EXCEPT !.at = "write", !.found = found] \in EffectType
         /\ \A status \in Gift!Statuses : [e EXCEPT !.at = "publish", !.status = status] \in EffectType
BY DEF EffectType

LEMMA CreateGiftInv ==
  ASSUME Gift!SponsorshipAssumption, GiftInv, NEW p \in Payers, Gift!CreateGift(p) PROVE GiftInv'
<1> USE DEF GiftInv, Gift!CreateGift, Gift!SponsorshipAssumption, Gift!To, Gift!Crosses, Gift!Goes, Gift!request, Gift!handling, Gift!bulk, Gift!Undoable, Gift!Attachable, Gift!NoEffect, Gift!SponsorOf
<1>1. Gift!TypeOK'
  BY DEF Gift!TypeOK, Gift!Statuses, Gift!Settled, Gift!Open
<1>2. OnePayer'
  BY DEF Gift!TypeOK, OnePayer, Idle, CallFits, Gift!Settled, Gift!Open
<1>3. \A q \in Payers : CallFits(q)'
  BY DEF Gift!TypeOK, CallFits, OnePayer, Idle
<1>4. \A q \in Payers : HandlerFits(q)'
  BY DEF Gift!TypeOK, HandlerFits, CallFits, OnePayer, Idle, Gift!Settled, Gift!Open
<1>5. Gift!SponsorPaid'
  BY DEF Gift!TypeOK, Gift!SponsorPaid, HandlerFits, CallFits, OnePayer, Idle, Gift!Settled, Gift!Open
<1>6. Gift!PaidIsSettled'
  BY DEF Gift!TypeOK, Gift!PaidIsSettled, HandlerFits, CallFits, OnePayer, Gift!Settled, Gift!Open
<1>7. Gift!SeatsBounded'
  BY DEF Gift!SeatsBounded, Gift!Taken
<1> QED BY <1>1, <1>2, <1>3, <1>4, <1>5, <1>6, <1>7

LEMMA OpenRequestInv ==
  ASSUME Gift!SponsorshipAssumption, GiftInv, NEW p \in Payers, Gift!OpenRequest(p) PROVE GiftInv'
<1> USE DEF GiftInv, Gift!OpenRequest, Gift!SponsorshipAssumption, Gift!To, Gift!Crosses, Gift!Goes, Gift!request, Gift!handling, Gift!bulk, Gift!Undoable, Gift!Attachable, Gift!NoEffect, Gift!SponsorOf
<1>1. Gift!TypeOK'
  BY DEF Gift!TypeOK, Gift!Statuses, Gift!Settled, Gift!Open
<1>2. OnePayer'
  BY DEF Gift!TypeOK, OnePayer, Idle, CallFits, Gift!Settled, Gift!Open
<1>3. \A q \in Payers : CallFits(q)'
  BY DEF Gift!TypeOK, CallFits, OnePayer, Idle
<1>4. \A q \in Payers : HandlerFits(q)'
  BY DEF Gift!TypeOK, HandlerFits, CallFits, OnePayer, Idle, Gift!Settled, Gift!Open
<1>5. Gift!SponsorPaid'
  BY DEF Gift!TypeOK, Gift!SponsorPaid, HandlerFits, CallFits, OnePayer, Idle, Gift!Settled, Gift!Open
<1>6. Gift!PaidIsSettled'
  BY DEF Gift!TypeOK, Gift!PaidIsSettled, HandlerFits, CallFits, OnePayer, Gift!Settled, Gift!Open
<1>7. Gift!SeatsBounded'
  BY DEF Gift!SeatsBounded, Gift!Taken
<1> QED BY <1>1, <1>2, <1>3, <1>4, <1>5, <1>6, <1>7

LEMMA CancelRequestInv ==
  ASSUME Gift!SponsorshipAssumption, GiftInv, NEW p \in Payers, Gift!CancelRequest(p) PROVE GiftInv'
<1> USE DEF GiftInv, Gift!CancelRequest, Gift!SponsorshipAssumption, Gift!To, Gift!Crosses, Gift!Goes, Gift!request, Gift!handling, Gift!bulk, Gift!Undoable, Gift!Attachable, Gift!NoEffect, Gift!SponsorOf
<1>1. Gift!TypeOK'
  BY DEF Gift!TypeOK, Gift!Statuses, Gift!Settled, Gift!Open
<1>2. OnePayer'
  BY DEF Gift!TypeOK, OnePayer, Idle, CallFits, Gift!Settled, Gift!Open
<1>3. \A q \in Payers : CallFits(q)'
  BY DEF Gift!TypeOK, CallFits, OnePayer, Idle
<1>4. \A q \in Payers : HandlerFits(q)'
  BY DEF Gift!TypeOK, HandlerFits, CallFits, OnePayer, Idle, Gift!Settled, Gift!Open
<1>5. Gift!SponsorPaid'
  BY DEF Gift!TypeOK, Gift!SponsorPaid, HandlerFits, CallFits, OnePayer, Idle, Gift!Settled, Gift!Open
<1>6. Gift!PaidIsSettled'
  BY DEF Gift!TypeOK, Gift!PaidIsSettled, HandlerFits, CallFits, OnePayer, Gift!Settled, Gift!Open
<1>7. Gift!SeatsBounded'
  BY DEF Gift!SeatsBounded, Gift!Taken
<1> QED BY <1>1, <1>2, <1>3, <1>4, <1>5, <1>6, <1>7

LEMMA TakeRequestInv ==
  ASSUME Gift!SponsorshipAssumption, GiftInv, NEW p \in Payers, Gift!TakeRequest(p) PROVE GiftInv'
<1> USE DEF GiftInv, Gift!TakeRequest, Gift!SponsorshipAssumption, Gift!To, Gift!Crosses, Gift!Goes, Gift!request, Gift!handling, Gift!bulk, Gift!Undoable, Gift!Attachable, Gift!NoEffect, Gift!SponsorOf
<1>0. /\ row' \in RowType /\ call' \in [Payers -> {"idle", "open", "checkout", "undo", "attach"}]
      /\ \/ row' = row /\ crossed' = crossed /\ row.status \notin Gift!Open
         \/ row.status \in Gift!Open /\ row'.status = "pending_payment" /\ row'.sponsor = p /\ Gift!Crosses(p)
      /\ \A q \in Payers \ {p} : call'[q] = call[q]
      /\ payment[p] = "none" /\ payment' = payment /\ call'[p] \in {"idle", "checkout"}
  <2>1. CASE row.status \in Gift!Open /\ row' = [row EXCEPT !.status = "pending_payment", !.sponsor = p] /\ call' = [call EXCEPT ![p] = "checkout"]
    BY <2>1 DEF Gift!TypeOK, CallFits, RowType, Gift!Statuses, Gift!Open
  <2>2. CASE row.status \notin Gift!Open /\ row' = row /\ call' = [call EXCEPT ![p] = "idle"]
    BY <2>2 DEF Gift!TypeOK, CallFits, RowType, Gift!Statuses, Gift!Open
  <2> QED BY <2>1, <2>2
<1>1. Gift!TypeOK'
  BY <1>0 DEF Gift!TypeOK, RowType, EffectType, Gift!Statuses, Gift!Settled, Gift!Open
<1>2. OnePayer'
  BY <1>0 DEF Gift!TypeOK, OnePayer, Idle, CallFits, Gift!Settled, Gift!Open
<1>3. \A q \in Payers : CallFits(q)'
  BY <1>0 DEF Gift!TypeOK, CallFits, OnePayer, Idle
<1>4. \A q \in Payers : HandlerFits(q)'
  BY <1>0 DEF Gift!TypeOK, HandlerFits, CallFits, OnePayer, Idle, Gift!Settled, Gift!Open
<1>5. Gift!SponsorPaid'
  BY <1>0 DEF Gift!TypeOK, Gift!SponsorPaid, HandlerFits, CallFits, OnePayer, Idle, Gift!Settled, Gift!Open
<1>6. Gift!PaidIsSettled'
  BY <1>0 DEF Gift!TypeOK, Gift!PaidIsSettled, HandlerFits, CallFits, OnePayer, Gift!Settled, Gift!Open
<1>7. Gift!SeatsBounded'
  BY DEF Gift!SeatsBounded, Gift!Taken
<1> QED BY <1>1, <1>2, <1>3, <1>4, <1>5, <1>6, <1>7

LEMMA OpenSessionInv ==
  ASSUME Gift!SponsorshipAssumption, GiftInv, NEW p \in Payers, Gift!OpenSession(p) PROVE GiftInv'
<1> USE DEF GiftInv, Gift!OpenSession, Gift!SponsorshipAssumption, Gift!To, Gift!Crosses, Gift!Goes, Gift!request, Gift!handling, Gift!bulk, Gift!Undoable, Gift!Attachable, Gift!NoEffect, Gift!SponsorOf
<1>0. /\ call' \in [Payers -> {"idle", "open", "checkout", "undo", "attach"}]
      /\ payment' \in [Payers -> {"none", "opened", "linked", "confirmed"}]
  BY DEF Gift!TypeOK
<1>1. Gift!TypeOK'
  BY <1>0 DEF Gift!TypeOK, Gift!Statuses, Gift!Settled, Gift!Open
<1>2. OnePayer'
  BY <1>0 DEF Gift!TypeOK, OnePayer, Idle, CallFits, Gift!Settled, Gift!Open
<1>3. \A q \in Payers : CallFits(q)'
  BY <1>0 DEF Gift!TypeOK, CallFits, OnePayer, Idle
<1>4. \A q \in Payers : HandlerFits(q)'
  BY <1>0 DEF Gift!TypeOK, HandlerFits, CallFits, OnePayer, Idle, Gift!Settled, Gift!Open
<1>5. Gift!SponsorPaid'
  BY <1>0 DEF Gift!TypeOK, Gift!SponsorPaid, HandlerFits, CallFits, OnePayer, Idle, Gift!Settled, Gift!Open
<1>6. Gift!PaidIsSettled'
  BY <1>0 DEF Gift!TypeOK, Gift!PaidIsSettled, HandlerFits, CallFits, OnePayer, Gift!Settled, Gift!Open
<1>7. Gift!SeatsBounded'
  BY DEF Gift!SeatsBounded, Gift!Taken
<1> QED BY <1>1, <1>2, <1>3, <1>4, <1>5, <1>6, <1>7

LEMMA UndoInv ==
  ASSUME Gift!SponsorshipAssumption, GiftInv, NEW p \in Payers, Gift!Undo(p) PROVE GiftInv'
<1> USE DEF GiftInv, Gift!Undo, Gift!SponsorshipAssumption, Gift!To, Gift!Crosses, Gift!Goes, Gift!request, Gift!handling, Gift!bulk, Gift!Undoable, Gift!Attachable, Gift!NoEffect, Gift!SponsorOf
<1>0. /\ row' \in RowType /\ call' = [call EXCEPT ![p] = "idle"] /\ payment' = payment
      /\ payment[p] = "none"
      /\ \/ row' = row
         \/ /\ row.status = "pending_payment" /\ row'.sponsor = None
            /\ \/ kind = "gift" /\ row'.status = "deleted"
               \/ row.sponsor = p /\ row'.status = "requested"
  <2>1. CASE kind = "gift" /\ row.status = "pending_payment" /\ row' = [row EXCEPT !.status = "deleted", !.sponsor = None]
    BY <2>1 DEF Gift!TypeOK, CallFits, RowType, Gift!Statuses, Gift!Open
  <2>2. CASE kind # "gift" /\ row.status = "pending_payment" /\ row' = [row EXCEPT !.status = "requested", !.sponsor = None]
    BY <2>2 DEF Gift!TypeOK, CallFits, RowType, Gift!Statuses, Gift!Open, OnePayer, Idle
  <2>3. CASE row' = row
    BY <2>3 DEF Gift!TypeOK, CallFits, RowType
  <2> QED BY <2>1, <2>2, <2>3
<1>1. Gift!TypeOK'
  BY <1>0 DEF Gift!TypeOK, RowType, EffectType, Gift!Statuses, Gift!Settled, Gift!Open
<1>2. OnePayer'
  BY <1>0 DEF Gift!TypeOK, OnePayer, Idle, CallFits, Gift!Settled, Gift!Open
<1>3. \A q \in Payers : CallFits(q)'
  BY <1>0 DEF Gift!TypeOK, CallFits, OnePayer, Idle
<1>4. \A q \in Payers : HandlerFits(q)'
  BY <1>0 DEF Gift!TypeOK, HandlerFits, CallFits, OnePayer, Idle, Gift!Settled, Gift!Open
<1>5. Gift!SponsorPaid'
  BY <1>0 DEF Gift!TypeOK, Gift!SponsorPaid, HandlerFits, CallFits, OnePayer, Idle, Gift!Settled, Gift!Open
<1>6. Gift!PaidIsSettled'
  BY <1>0 DEF Gift!TypeOK, Gift!PaidIsSettled, HandlerFits, CallFits, OnePayer, Gift!Settled, Gift!Open
<1>7. Gift!SeatsBounded'
  BY DEF Gift!SeatsBounded, Gift!Taken
<1> QED BY <1>1, <1>2, <1>3, <1>4, <1>5, <1>6, <1>7

LEMMA AttachInv ==
  ASSUME Gift!SponsorshipAssumption, GiftInv, NEW p \in Payers, Gift!Attach(p) PROVE GiftInv'
<1> USE DEF GiftInv, Gift!Attach, Gift!SponsorshipAssumption, Gift!To, Gift!Crosses, Gift!Goes, Gift!request, Gift!handling, Gift!bulk, Gift!Undoable, Gift!Attachable, Gift!NoEffect, Gift!SponsorOf
<1>0. /\ row' \in RowType /\ call' = [call EXCEPT ![p] = "idle"] /\ payment[p] = "opened"
      /\ payment' = payment \/ payment' = [payment EXCEPT ![p] = "linked"]
      /\ \/ row' = row /\ crossed' = crossed
         \/ row.status \in Gift!Open /\ row'.status = "pending_payment" /\ row'.sponsor = p /\ Gift!Crosses(p)
  <2>1. CASE row.status \in Gift!Open /\ row' = [row EXCEPT !.status = "pending_payment", !.sponsor = p, !.payment = p] /\ Gift!Crosses(p)
    BY <2>1 DEF Gift!TypeOK, CallFits, RowType, Gift!Statuses, Gift!Open
  <2>2. CASE row' = row /\ crossed' = crossed
    BY <2>2 DEF Gift!TypeOK, CallFits, RowType
  <2> QED BY <2>1, <2>2 DEF Gift!Open
<1>1. Gift!TypeOK'
  BY <1>0 DEF Gift!TypeOK, RowType, EffectType, Gift!Statuses, Gift!Settled, Gift!Open
<1>2. OnePayer'
  BY <1>0 DEF Gift!TypeOK, OnePayer, Idle, CallFits, Gift!Settled, Gift!Open
<1>3. \A q \in Payers : CallFits(q)'
  BY <1>0 DEF Gift!TypeOK, CallFits, OnePayer, Idle
<1>4. \A q \in Payers : HandlerFits(q)'
  BY <1>0 DEF Gift!TypeOK, HandlerFits, CallFits, OnePayer, Idle, Gift!Settled, Gift!Open
<1>5. Gift!SponsorPaid'
  BY <1>0 DEF Gift!TypeOK, Gift!SponsorPaid, HandlerFits, CallFits, OnePayer, Idle, Gift!Settled, Gift!Open
<1>6. Gift!PaidIsSettled'
  BY <1>0 DEF Gift!TypeOK, Gift!PaidIsSettled, HandlerFits, CallFits, OnePayer, Gift!Settled, Gift!Open
<1>7. Gift!SeatsBounded'
  BY DEF Gift!SeatsBounded, Gift!Taken
<1> QED BY <1>1, <1>2, <1>3, <1>4, <1>5, <1>6, <1>7

LEMMA PaidInv ==
  ASSUME Gift!SponsorshipAssumption, GiftInv, NEW p \in Payers, Gift!Paid(p) PROVE GiftInv'
<1> USE DEF GiftInv, Gift!Paid, Gift!SponsorshipAssumption, Gift!To, Gift!Crosses, Gift!Goes, Gift!request, Gift!handling, Gift!bulk, Gift!Undoable, Gift!Attachable, Gift!NoEffect, Gift!SponsorOf
<1>1. Gift!TypeOK'
  BY DEF Gift!TypeOK, Gift!Statuses, Gift!Settled, Gift!Open
<1>2. OnePayer'
  BY DEF Gift!TypeOK, OnePayer, Idle, CallFits, Gift!Settled, Gift!Open
<1>3. \A q \in Payers : CallFits(q)'
  BY DEF Gift!TypeOK, CallFits, OnePayer, Idle
<1>4. \A q \in Payers : HandlerFits(q)'
  BY DEF Gift!TypeOK, HandlerFits, CallFits, OnePayer, Idle, Gift!Settled, Gift!Open
<1>5. Gift!SponsorPaid'
  BY DEF Gift!TypeOK, Gift!SponsorPaid, HandlerFits, CallFits, OnePayer, Idle, Gift!Settled, Gift!Open
<1>6. Gift!PaidIsSettled'
  BY DEF Gift!TypeOK, Gift!PaidIsSettled, HandlerFits, CallFits, OnePayer, Gift!Settled, Gift!Open
<1>7. Gift!SeatsBounded'
  BY DEF Gift!SeatsBounded, Gift!Taken
<1> QED BY <1>1, <1>2, <1>3, <1>4, <1>5, <1>6, <1>7

LEMMA ReadRowInv ==
  ASSUME Gift!SponsorshipAssumption, GiftInv, NEW p \in Payers, Gift!ReadRow(p) PROVE GiftInv'
<1> USE DEF GiftInv, Gift!ReadRow, Gift!SponsorshipAssumption, Gift!To, Gift!Crosses, Gift!Goes, Gift!request, Gift!handling, Gift!bulk, Gift!Undoable, Gift!Attachable, Gift!NoEffect, Gift!SponsorOf
<1>1. Gift!TypeOK'
  BY DEF Gift!TypeOK, Gift!Statuses, Gift!Settled, Gift!Open
<1>2. OnePayer'
  BY DEF Gift!TypeOK, OnePayer, Idle, CallFits, Gift!Settled, Gift!Open
<1>3. \A q \in Payers : CallFits(q)'
  BY DEF Gift!TypeOK, CallFits, OnePayer, Idle
<1>4. \A q \in Payers : HandlerFits(q)'
  BY DEF Gift!TypeOK, HandlerFits, CallFits, OnePayer, Idle, Gift!Settled, Gift!Open
<1>5. Gift!SponsorPaid'
  BY DEF Gift!TypeOK, Gift!SponsorPaid, HandlerFits, CallFits, OnePayer, Idle, Gift!Settled, Gift!Open
<1>6. Gift!PaidIsSettled'
  BY DEF Gift!TypeOK, Gift!PaidIsSettled, HandlerFits, CallFits, OnePayer, Gift!Settled, Gift!Open
<1>7. Gift!SeatsBounded'
  BY DEF Gift!SeatsBounded, Gift!Taken
<1> QED BY <1>1, <1>2, <1>3, <1>4, <1>5, <1>6, <1>7

LEMMA LookUpInv ==
  ASSUME Gift!SponsorshipAssumption, GiftInv, NEW p \in Payers, Gift!LookUp(p) PROVE GiftInv'
<1> USE DEF GiftInv, Gift!LookUp, Gift!SponsorshipAssumption, Gift!To, Gift!Crosses, Gift!Goes, Gift!request, Gift!handling, Gift!bulk, Gift!Undoable, Gift!Attachable, Gift!NoEffect, Gift!SponsorOf
<1>0. effect' \in [Payers -> EffectType]
  <2>1. PICK found \in BOOLEAN : effect' = [effect EXCEPT ![p] = [effect[p] EXCEPT !.at = "write", !.found = found]]
    OBVIOUS
  <2>2. [effect[p] EXCEPT !.at = "write", !.found = found] \in EffectType
    <3>1. effect[p] \in EffectType
      BY DEF Gift!TypeOK, EffectType
    <3> QED BY <3>1, EffectUpdate
  <2> QED BY <2>1, <2>2 DEF Gift!TypeOK, EffectType
<1>1. Gift!TypeOK'
  BY <1>0 DEF Gift!TypeOK, RowType, EffectType, Gift!Statuses, Gift!Settled, Gift!Open
<1>2. OnePayer'
  BY <1>0 DEF Gift!TypeOK, OnePayer, Idle, CallFits, Gift!Settled, Gift!Open
<1>3. \A q \in Payers : CallFits(q)'
  BY <1>0 DEF Gift!TypeOK, CallFits, OnePayer, Idle
<1>4. \A q \in Payers : HandlerFits(q)'
  BY <1>0 DEF Gift!TypeOK, HandlerFits, CallFits, OnePayer, Idle, Gift!Settled, Gift!Open
<1>5. Gift!SponsorPaid'
  BY <1>0 DEF Gift!TypeOK, Gift!SponsorPaid, HandlerFits, CallFits, OnePayer, Idle, Gift!Settled, Gift!Open
<1>6. Gift!PaidIsSettled'
  BY <1>0 DEF Gift!TypeOK, Gift!PaidIsSettled, HandlerFits, CallFits, OnePayer, Gift!Settled, Gift!Open
<1>7. Gift!SeatsBounded'
  BY DEF Gift!SeatsBounded, Gift!Taken
<1> QED BY <1>1, <1>2, <1>3, <1>4, <1>5, <1>6, <1>7

LEMMA SettleInv ==
  ASSUME Gift!SponsorshipAssumption, GiftInv, NEW p \in Payers, Gift!Settle(p) PROVE GiftInv'
<1> USE DEF GiftInv, Gift!Settle, Gift!SponsorshipAssumption, Gift!To, Gift!Crosses, Gift!Goes, Gift!request, Gift!handling, Gift!bulk, Gift!Undoable, Gift!Attachable, Gift!NoEffect, Gift!SponsorOf
<1>1. Gift!TypeOK'
  BY DEF Gift!TypeOK, Gift!Statuses, Gift!Settled, Gift!Open
<1>2. OnePayer'
  BY DEF Gift!TypeOK, OnePayer, Idle, CallFits, Gift!Settled, Gift!Open
<1>3. \A q \in Payers : CallFits(q)'
  BY DEF Gift!TypeOK, CallFits, OnePayer, Idle
<1>4. \A q \in Payers : HandlerFits(q)'
  BY DEF Gift!TypeOK, HandlerFits, CallFits, OnePayer, Idle, Gift!Settled, Gift!Open
<1>5. Gift!SponsorPaid'
  BY DEF Gift!TypeOK, Gift!SponsorPaid, HandlerFits, CallFits, OnePayer, Idle, Gift!Settled, Gift!Open
<1>6. Gift!PaidIsSettled'
  BY DEF Gift!TypeOK, Gift!PaidIsSettled, HandlerFits, CallFits, OnePayer, Gift!Settled, Gift!Open
<1>7. Gift!SeatsBounded'
  BY DEF Gift!SeatsBounded, Gift!Taken
<1> QED BY <1>1, <1>2, <1>3, <1>4, <1>5, <1>6, <1>7

LEMMA RereadInv ==
  ASSUME Gift!SponsorshipAssumption, GiftInv, NEW p \in Payers, Gift!Reread(p) PROVE GiftInv'
<1> USE DEF GiftInv, Gift!Reread, Gift!SponsorshipAssumption, Gift!To, Gift!Crosses, Gift!Goes, Gift!request, Gift!handling, Gift!bulk, Gift!Undoable, Gift!Attachable, Gift!NoEffect, Gift!SponsorOf
<1>0. effect' \in [Payers -> EffectType]
  <2>1. [effect[p] EXCEPT !.at = "publish", !.status = row.status] \in EffectType
    <3>1. effect[p] \in EffectType /\ row.status \in Gift!Statuses
      BY DEF Gift!TypeOK, EffectType
    <3> QED BY <3>1, EffectUpdate
  <2> QED BY <2>1 DEF Gift!TypeOK, EffectType
<1>1. Gift!TypeOK'
  BY <1>0 DEF Gift!TypeOK, RowType, EffectType, Gift!Statuses, Gift!Settled, Gift!Open
<1>2. OnePayer'
  BY <1>0 DEF Gift!TypeOK, OnePayer, Idle, CallFits, Gift!Settled, Gift!Open
<1>3. \A q \in Payers : CallFits(q)'
  BY <1>0 DEF Gift!TypeOK, CallFits, OnePayer, Idle
<1>4. \A q \in Payers : HandlerFits(q)'
  BY <1>0 DEF Gift!TypeOK, HandlerFits, CallFits, OnePayer, Idle, Gift!Settled, Gift!Open
<1>5. Gift!SponsorPaid'
  BY <1>0 DEF Gift!TypeOK, Gift!SponsorPaid, HandlerFits, CallFits, OnePayer, Idle, Gift!Settled, Gift!Open
<1>6. Gift!PaidIsSettled'
  BY <1>0 DEF Gift!TypeOK, Gift!PaidIsSettled, HandlerFits, CallFits, OnePayer, Gift!Settled, Gift!Open
<1>7. Gift!SeatsBounded'
  BY DEF Gift!SeatsBounded, Gift!Taken
<1> QED BY <1>1, <1>2, <1>3, <1>4, <1>5, <1>6, <1>7

LEMMA PublishInv ==
  ASSUME Gift!SponsorshipAssumption, GiftInv, NEW p \in Payers, Gift!Publish(p) PROVE GiftInv'
<1> USE DEF GiftInv, Gift!Publish, Gift!SponsorshipAssumption, Gift!To, Gift!Crosses, Gift!Goes, Gift!request, Gift!handling, Gift!bulk, Gift!Undoable, Gift!Attachable, Gift!NoEffect, Gift!SponsorOf
<1>1. Gift!TypeOK'
  BY DEF Gift!TypeOK, Gift!Statuses, Gift!Settled, Gift!Open
<1>2. OnePayer'
  BY DEF Gift!TypeOK, OnePayer, Idle, CallFits, Gift!Settled, Gift!Open
<1>3. \A q \in Payers : CallFits(q)'
  BY DEF Gift!TypeOK, CallFits, OnePayer, Idle
<1>4. \A q \in Payers : HandlerFits(q)'
  BY DEF Gift!TypeOK, HandlerFits, CallFits, OnePayer, Idle, Gift!Settled, Gift!Open
<1>5. Gift!SponsorPaid'
  BY DEF Gift!TypeOK, Gift!SponsorPaid, HandlerFits, CallFits, OnePayer, Idle, Gift!Settled, Gift!Open
<1>6. Gift!PaidIsSettled'
  BY DEF Gift!TypeOK, Gift!PaidIsSettled, HandlerFits, CallFits, OnePayer, Gift!Settled, Gift!Open
<1>7. Gift!SeatsBounded'
  BY DEF Gift!SeatsBounded, Gift!Taken
<1> QED BY <1>1, <1>2, <1>3, <1>4, <1>5, <1>6, <1>7

LEMMA EffectFailsInv ==
  ASSUME Gift!SponsorshipAssumption, GiftInv, NEW p \in Payers, Gift!EffectFails(p) PROVE GiftInv'
<1> USE DEF GiftInv, Gift!EffectFails, Gift!SponsorshipAssumption, Gift!To, Gift!Crosses, Gift!Goes, Gift!request, Gift!handling, Gift!bulk, Gift!Undoable, Gift!Attachable, Gift!NoEffect, Gift!SponsorOf
<1>1. Gift!TypeOK'
  BY DEF Gift!TypeOK, Gift!Statuses, Gift!Settled, Gift!Open
<1>2. OnePayer'
  BY DEF Gift!TypeOK, OnePayer, Idle, CallFits, Gift!Settled, Gift!Open
<1>3. \A q \in Payers : CallFits(q)'
  BY DEF Gift!TypeOK, CallFits, OnePayer, Idle
<1>4. \A q \in Payers : HandlerFits(q)'
  BY DEF Gift!TypeOK, HandlerFits, CallFits, OnePayer, Idle, Gift!Settled, Gift!Open
<1>5. Gift!SponsorPaid'
  BY DEF Gift!TypeOK, Gift!SponsorPaid, HandlerFits, CallFits, OnePayer, Idle, Gift!Settled, Gift!Open
<1>6. Gift!PaidIsSettled'
  BY DEF Gift!TypeOK, Gift!PaidIsSettled, HandlerFits, CallFits, OnePayer, Gift!Settled, Gift!Open
<1>7. Gift!SeatsBounded'
  BY DEF Gift!SeatsBounded, Gift!Taken
<1> QED BY <1>1, <1>2, <1>3, <1>4, <1>5, <1>6, <1>7

\* People, their accounts and the seats of a bulk order.
LEMMA PeopleInv ==
  ASSUME Gift!SponsorshipAssumption, GiftInv, NEW e \in Emails, Gift!Register(e) \/ Gift!Claim(e) PROVE GiftInv'
<1> USE DEF GiftInv, Gift!Register, Gift!Claim, Gift!request, Gift!handling, Gift!bulk
<1>0. /\ row' \in RowType /\ UNCHANGED <<kind, call, payment, effect, done, crossed>>
      /\ \/ row' = row /\ told' = told
         \/ /\ row.status = "pending_claim" /\ row'.status = "granted" /\ row'.sponsor = row.sponsor
            /\ told' = told \cup {"granted"}
  <2>1. CASE row' = row /\ told' = told /\ UNCHANGED <<kind, call, payment, effect, done, crossed>>
    BY <2>1 DEF Gift!TypeOK, RowType
  <2>2. CASE /\ row.status = "pending_claim" /\ row' = [row EXCEPT !.status = "granted", !.known = TRUE]
             /\ told' = told \cup {"granted"} /\ UNCHANGED <<kind, call, payment, effect, done, crossed>>
    BY <2>2 DEF Gift!TypeOK, RowType, Gift!Statuses, Gift!Settled
  <2> QED BY <2>1, <2>2
<1>1. Gift!TypeOK'
  <2>1. account' \subseteq Emails /\ seat' \in [Emails -> Gift!Settled \cup {"none"}] /\ UNCHANGED assign
    BY DEF Gift!TypeOK, Gift!Settled
  <2> QED BY <1>0, <2>1 DEF Gift!TypeOK, RowType, Gift!Settled
<1>2. OnePayer'
  BY <1>0 DEF Gift!TypeOK, OnePayer, Idle
<1>3. \A q \in Payers : CallFits(q)'
  BY <1>0 DEF Gift!TypeOK, CallFits
<1>4. \A q \in Payers : HandlerFits(q)'
  BY <1>0 DEF Gift!TypeOK, HandlerFits, Gift!Settled
<1>5. Gift!SponsorPaid'
  BY <1>0 DEF Gift!TypeOK, Gift!SponsorPaid, Gift!Settled
<1>6. Gift!PaidIsSettled'
  BY <1>0 DEF Gift!TypeOK, Gift!PaidIsSettled, Gift!Settled
<1>7. Gift!SeatsBounded'
  <2>1. Gift!Taken' = Gift!Taken
    BY DEF Gift!TypeOK, Gift!Taken
  <2> QED BY <2>1 DEF Gift!SeatsBounded
<1> QED BY <1>1, <1>2, <1>3, <1>4, <1>5, <1>6, <1>7

\* The recount under the lock of the order: what is inserted fits.
LEMMA SeatsInv ==
  ASSUME Gift!SponsorshipAssumption, GiftInv, NEW p \in Payers,
         (\E S \in SUBSET Emails : Gift!AssignSeats(p, S)) \/ Gift!LookUpSeats(p) \/ Gift!InsertSeats(p)
  PROVE  GiftInv'
<1> USE DEF GiftInv, Gift!AssignSeats, Gift!LookUpSeats, Gift!InsertSeats, Gift!request, Gift!handling
<1>1. Gift!TypeOK'
  <2> DEFINE AssignType == [at : {"idle", "look", "lock"}, emails : SUBSET Emails, found : SUBSET Emails]
  <2>1. seat' \in [Emails -> Gift!Settled \cup {"none"}]
    <3>1. CASE seat' = seat
      BY <3>1 DEF Gift!TypeOK, Gift!Settled
    <3>2. CASE Gift!InsertSeats(p) /\ Gift!Fits(assign[p].emails \ Gift!Taken)
      BY <3>2 DEF Gift!TypeOK, Gift!Settled
    <3> QED BY <3>1, <3>2
  <2>2. ASSUME NEW S \in SUBSET Emails, Gift!AssignSeats(p, S) PROVE assign' \in [Payers -> AssignType]
    BY <2>2 DEF Gift!TypeOK
  <2>3. CASE Gift!LookUpSeats(p)
    <3>1. \A a \in AssignType : [a EXCEPT !.at = "lock", !.found = a.emails \cap account] \in AssignType
      OBVIOUS
    <3>2. assign[p] \in AssignType
      BY DEF Gift!TypeOK
    <3>3. assign' = [assign EXCEPT ![p] = [assign[p] EXCEPT !.at = "lock", !.found = assign[p].emails \cap account]]
      BY <2>3
    <3>4. assign' \in [Payers -> AssignType]
      BY <3>1, <3>2, <3>3 DEF Gift!TypeOK
    <3> QED BY <2>1, <2>3, <3>4 DEF Gift!TypeOK
  <2>4. CASE Gift!InsertSeats(p)
    BY <2>1, <2>4 DEF Gift!TypeOK, Gift!NoCall
  <2> QED BY <2>1, <2>2, <2>3, <2>4 DEF Gift!TypeOK
<1>2. UNCHANGED <<kind, Gift!request, Gift!handling, account, crossed>>
  OBVIOUS
<1>3. OnePayer' /\ Gift!SponsorPaid' /\ Gift!PaidIsSettled' /\ \A q \in Payers : CallFits(q)' /\ HandlerFits(q)'
  BY <1>2 DEF OnePayer, Idle, CallFits, HandlerFits, Gift!SponsorPaid, Gift!PaidIsSettled
<1>4. Gift!SeatsBounded'
  <2>1. CASE seat' = seat
    BY <2>1 DEF Gift!SeatsBounded, Gift!Taken
  <2>2. CASE seat' # seat
    <3> DEFINE fresh == assign[p].emails \ Gift!Taken
    <3>1. /\ Gift!Fits(fresh)
          /\ seat' = [e \in Emails |-> IF e \in fresh THEN (IF e \in assign[p].found THEN "granted" ELSE "pending_claim") ELSE seat[e]]
      BY <2>2
    <3>2. fresh \subseteq Emails
      BY DEF Gift!TypeOK
    <3>3. Gift!Taken' = fresh \cup Gift!Taken
      BY <3>1, <3>2 DEF Gift!Taken
    <3> QED BY <3>1, <3>3 DEF Gift!Fits, Gift!SeatsBounded
  <2> QED BY <2>1, <2>2
<1> QED BY <1>1, <1>3, <1>4

-----------------------------------------------------------------------------
(* The theorems                                                            *)

LEMMA GiftInitInv ==
  ASSUME Gift!SponsorshipAssumption, Gift!Init PROVE GiftInv
<1> USE DEF Gift!Init, GiftInv, Gift!SponsorshipAssumption
<1>1. Gift!TypeOK
  BY DEF Gift!TypeOK, Gift!Statuses, Gift!Settled, Gift!Open, Gift!NoEffect, Gift!NoCall
<1>2. OnePayer /\ \A p \in Payers : CallFits(p) /\ HandlerFits(p)
  BY DEF OnePayer, Idle, CallFits, HandlerFits, Gift!NoEffect, Gift!Settled
<1>3. Gift!SponsorPaid /\ Gift!PaidIsSettled
  BY DEF Gift!SponsorPaid, Gift!PaidIsSettled, Gift!Settled
<1>4. Gift!SeatsBounded
  <2>1. Gift!Taken = {}
    BY DEF Gift!Taken
  <2> QED BY <2>1, FS_EmptySet, GiftSets DEF Gift!SeatsBounded
<1> QED BY <1>1, <1>2, <1>3, <1>4

LEMMA GiftNextInv ==
  ASSUME Gift!SponsorshipAssumption, GiftInv, [Gift!Next]_Gift!vars PROVE GiftInv'
<1>1. ASSUME NEW p \in Payers,
             \/ Gift!CreateGift(p) \/ Gift!OpenRequest(p) \/ Gift!CancelRequest(p) \/ Gift!TakeRequest(p)
             \/ Gift!OpenSession(p) \/ Gift!Undo(p) \/ Gift!Attach(p) \/ Gift!Paid(p)
      PROVE  GiftInv'
  BY <1>1, CreateGiftInv, OpenRequestInv, CancelRequestInv, TakeRequestInv, OpenSessionInv, UndoInv, AttachInv, PaidInv
<1>2. ASSUME NEW p \in Payers,
             Gift!ReadRow(p) \/ Gift!LookUp(p) \/ Gift!Settle(p) \/ Gift!Reread(p) \/ Gift!Publish(p) \/ Gift!EffectFails(p)
      PROVE  GiftInv'
  BY <1>2, ReadRowInv, LookUpInv, SettleInv, RereadInv, PublishInv, EffectFailsInv
<1>3. ASSUME NEW p \in Payers,
             (\E S \in SUBSET Emails : Gift!AssignSeats(p, S)) \/ Gift!LookUpSeats(p) \/ Gift!InsertSeats(p)
      PROVE  GiftInv'
  BY <1>3, SeatsInv
<1>4. ASSUME NEW e \in Emails, Gift!Register(e) \/ Gift!Claim(e) PROVE GiftInv'
  BY <1>4, PeopleInv
<1>5. CASE UNCHANGED Gift!vars
  BY <1>5 DEF Gift!vars, Gift!request, Gift!handling, Gift!bulk, GiftInv, Gift!TypeOK, OnePayer, Idle, CallFits, HandlerFits, Gift!SponsorPaid, Gift!PaidIsSettled, Gift!SeatsBounded, Gift!Taken
<1> QED BY <1>1, <1>2, <1>3, <1>4, <1>5 DEF Gift!Next

\* The row, the checkouts, the handlers and the seats keep their types.
THEOREM GiftTypeCorrect ==
  ASSUME Gift!SponsorshipAssumption PROVE Gift!Spec => []Gift!TypeOK
<1>1. Gift!Init => GiftInv
  BY GiftInitInv
<1>2. GiftInv /\ [Gift!Next]_Gift!vars => GiftInv'
  BY GiftNextInv
<1>3. GiftInv => Gift!TypeOK
  BY DEF GiftInv
<1> QED BY <1>1, <1>2, <1>3, PTL DEF Gift!Spec

\* The sponsor of a settled gift or request has paid, for any number of payers
\* with a checkout open at once, unless one took the row between the read and
\* the write of a handler (payRequest, onSponsoredPaymentConfirmed).
THEOREM SponsorHasPaid ==
  ASSUME Gift!SponsorshipAssumption PROVE Gift!Spec => []Gift!SponsorPaid
<1>1. Gift!Init => GiftInv
  BY GiftInitInv
<1>2. GiftInv /\ [Gift!Next]_Gift!vars => GiftInv'
  BY GiftNextInv
<1>3. GiftInv => Gift!SponsorPaid
  BY DEF GiftInv
<1> QED BY <1>1, <1>2, <1>3, PTL DEF Gift!Spec

\* Once the effects of a payment are complete its row is settled for good and
\* the recipient has been told (checkoutOrUndo, attach, the re-run of effects).
THEOREM PaidHasSponsored ==
  ASSUME Gift!SponsorshipAssumption PROVE Gift!Spec => []Gift!PaidIsSettled
<1>1. Gift!Init => GiftInv
  BY GiftInitInv
<1>2. GiftInv /\ [Gift!Next]_Gift!vars => GiftInv'
  BY GiftNextInv
<1>3. GiftInv => Gift!PaidIsSettled
  BY DEF GiftInv
<1> QED BY <1>1, <1>2, <1>3, PTL DEF Gift!Spec

\* No two assignments hand out more seats than were bought (assignSeats).
THEOREM SeatsNeverOversold ==
  ASSUME Gift!SponsorshipAssumption PROVE Gift!Spec => []Gift!SeatsBounded
<1>1. Gift!Init => GiftInv
  BY GiftInitInv
<1>2. GiftInv /\ [Gift!Next]_Gift!vars => GiftInv'
  BY GiftNextInv
<1>3. GiftInv => Gift!SeatsBounded
  BY DEF GiftInv
<1> QED BY <1>1, <1>2, <1>3, PTL DEF Gift!Spec
=============================================================================
