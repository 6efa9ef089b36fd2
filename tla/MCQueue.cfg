SPECIFICATION Spec
CONSTANTS
  Processes = {p1, p2}
  Events = {e1, e2, e3}
  DiskFills = TRUE
SYMMETRY Symmetry
INVARIANTS QueuedIsKept RemovedStaysOut
