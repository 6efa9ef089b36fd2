CONSTANTS
  s1 = s1
  s2 = s2
  Sessions = {s1, s2}
  Plans <- TwoRuns
SPECIFICATION Spec
INVARIANTS HistoryClosed UndisturbedIsKept
CHECK_DEADLOCK FALSE
