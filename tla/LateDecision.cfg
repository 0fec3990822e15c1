SPECIFICATION Spec
CONSTANTS
  Changes = {1}
  Submissions = {1, 2}
  MaxRevisions = 0
  MaxEvents = 2
  MaxFaults = 0
  Starts <- Drafts
PROPERTY
  LateDecisionIgnored
CHECK_DEADLOCK FALSE
