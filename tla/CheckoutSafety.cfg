SPECIFICATION Spec
CONSTANTS
  u1 = u1
  u2 = u2
  ann = ann
  ben = ben
  Payments = {p1, p2}
  Purchases = {u1, u2}
  Learners = {ann, ben}
  LearnerOf <- LearnersOf
  Plans = {"card", "coupon_card", "coupon_free", "wallet", "coupon_wallet", "bank"}
  Checkers = {c1}
  Sweep = s
  MaxUses = 1
  MaxPerUser = 1
  MaxAttempts = 1
  MaxAge = 3
SYMMETRY Symmetry
INVARIANTS
  TypeOK
  CouponBound
PROPERTY
  ImplementsTill
CHECK_DEADLOCK FALSE
