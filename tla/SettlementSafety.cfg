SPECIFICATION Spec
CONSTANTS
  p1 = p1
  p2 = p2
  u1 = u1
  Payments = {p1, p2}
  Purchases = {u1}
  PurchaseOf <- TwoDuplicates
  Payouts = {o1, o2}
  Runs = {r1}
  LargeSets <- BothLarge
  None = None
  Sessions = {s1, s2}
  Flags = {f1}
SYMMETRY Symmetry
INVARIANTS
  PayoutsCoverStandingPurchases
  RefundUndoesPurchase
  LastRefundRevokes
  LargeNeedsAdmin
  TypeOK
PROPERTY
  ImplementsEscrow
CHECK_DEADLOCK FALSE
