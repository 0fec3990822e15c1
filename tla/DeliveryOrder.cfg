SPECIFICATION Spec
CONSTANTS
  Events = {e1, e2, e3}
  HandlerCount = 1
  MaxAttempts = 1
  Slots = {}
  MaxFaults = 2
  None = None
INVARIANTS
  OlderFirst
  OneSender
SYMMETRY EventSymmetry
CHECK_DEADLOCK FALSE
