SPECIFICATION FairSpec
CONSTANTS
  l1 = l1
  l2 = l2
  FirstVersion <- TwoLessons
  Versions <- OneRemoved
  Requests = {t1, t2}
  Milestones <- Half
  None = None
INVARIANTS
  TypeOK
  CompletionIsEarned
PROPERTY
  FinishedIsCompleted
CHECK_DEADLOCK FALSE
