SPECIFICATION Spec
CONSTANTS
  l1 = l1
  l2 = l2
  FirstVersion <- TwoLessons
  Versions <- OneRemoved
  Requests = {t1}
  Milestones <- Half
  None = None
INVARIANT
  RevokedStaysOut
CHECK_DEADLOCK FALSE
