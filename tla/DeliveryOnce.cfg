SPECIFICATION FairSpec
CONSTANTS
  Events = {e1}
  HandlerCount = 2
  MaxAttempts = 2
  Slots = {c1, c2}
  MaxFaults = 2
  None = None
INVARIANT
  TypeOK
PROPERTIES
  ImplementsEffectOnce
  CommittedIsHandled
CHECK_DEADLOCK FALSE
