CONSTANTS
  Procs = {p1, p2}
  None = None
  Connected = Connected
  MaxAttempts = 1
  MaxPushes = 2
  OneAtATime = FALSE
SPECIFICATION Spec
INVARIANT DecisionStaysInItsSession
