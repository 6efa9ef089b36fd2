CONSTANTS
  Procs = {p1, p2}
  None = None
  Connected = Connected
  MaxAttempts = 2
  MaxPushes = 1
  OneAtATime = TRUE
SPECIFICATION FairSpec
PROPERTIES DecidedAgentProceeds
CHECK_DEADLOCK FALSE
