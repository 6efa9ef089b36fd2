CONSTANTS
  d1 = d1
  d2 = d2
  t1 = t1
  t2 = t2
  Devices = {d1, d2}
  Tenants = {t1, t2}
  TenantOf <- MCTenantOf
  Sessions = {s1, s2}
  Approvals = {a1, a2}
  Keys = {k1}
  NoKey = NoKey
  Requests <- LowRisk
  Decisions = {"approve"}
  SessionReports = {"completed"}
  Rules <- NoRules
  MaxAttempts = 2
SYMMETRY Symmetry
SPECIFICATION Spec
INVARIANTS TypeOK PendingCountExact DeliveryCoherent KeyNamesOneApproval ReplayTellsTheDecision AuditTellsTheOutcome
PROPERTIES ImplementsLifecycle
CHECK_DEADLOCK FALSE
