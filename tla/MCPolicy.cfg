CONSTANTS
  d1 = d1
  d2 = d2
  t1 = t1
  t2 = t2
  Devices = {d1, d2}
  Tenants = {t1, t2}
  TenantOf <- MCTenantOf
  Sessions = {s1, s2}
  Approvals = {a1}
  Keys = {k1}
  NoKey = NoKey
  Requests <- BothRisks
  Decisions = {"policy_approve"}
  SessionReports = {}
  Rules <- MCRules
  MaxAttempts = 2
SPECIFICATION FairSpec
INVARIANTS PolicyStaysInBounds
PROPERTIES ManualRulePrevails EveryApprovalSettles
CHECK_DEADLOCK FALSE
