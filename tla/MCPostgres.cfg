CONSTANTS
  Handlers = {h1, h2}
  Workers = {w}
  Sessions = {s1, s2}
  Approvals = {a1, a2}
  Keys = {k1}
  NoKey = NoKey
  Decisions = {"approve"}
  Verdicts = {"", "policy_reject"}
  MaxAttempts = 2
SYMMETRY Symmetry
SPECIFICATION Spec
INVARIANTS TypeOK PendingCountExact KeyNamesOneApproval RowsTellOneStory ReplayTellsTheDecision NoLockCycle
PROPERTIES ImplementsLifecycle
CHECK_DEADLOCK FALSE
