SPECIFICATION Spec
CONSTANTS
  l1 = l1
  l2 = l2
  FirstVersion <- TwoLessons
  Versions <- OneRemoved
  Requests = {t1, t2}
  Milestones <- Half
  None = None
INVARIANT
  CompletedOnce
CHECK_DEADLOCK FALSE
