SPECIFICATION Spec
CONSTANT
  None = None
PROPERTIES
  JobKeepsRunning
  PaidIsConfirmed
  ConfirmedIsGranted
CHECK_DEADLOCK FALSE
