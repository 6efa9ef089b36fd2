CONSTANTS
  Clis = {c1, c2}
  MaxPrompts = 2
  MaxRequests = 2
SPECIFICATION FairSpec
INVARIANTS TypeOK ResponseNeverBlocks
PROPERTIES HandlerEnds
CHECK_DEADLOCK FALSE
