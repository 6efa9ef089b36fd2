CONSTANTS
  Procs = {p1, p2}
  None = None
  Connected = Connected
  MaxAttempts = 1
  MaxPushes = 2
  OneAtATime = FALSE
SYMMETRY Symmetry
SPECIFICATION Spec
INVARIANTS TypeOK NoDecisionLost DeliveredWasWritten
PROPERTIES ImplementsLifecycle
CHECK_DEADLOCK FALSE
