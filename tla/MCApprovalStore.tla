---------------------------- MODULE MCApprovalStore ----------------------------
(* Small instances of ApprovalStore for TLC. *)
EXTENDS ApprovalStore, TLC

CONSTANTS d1, d2, t1, t2

MCTenantOf == (d1 :> t1) @@ (d2 :> t2)
OneTenant == (d1 :> t1)

Request(risk) == [cliType |-> "codex", eventType |-> "permission_request",
                  riskLevel |-> risk, patterns |-> {"rm -rf"}]
LowRisk == {Request("low")}
BothRisks == {Request("low"), Request("high")}

Rule(tenant, priority, createdAt, risk, pattern, decision) ==
  [tenant |-> tenant, priority |-> priority, createdAt |-> createdAt, enabled |-> TRUE,
   cliType |-> AnyValue, eventType |-> AnyValue, riskLevel |-> risk, commandPattern |-> pattern,
   decision |-> decision]

\* An approval by pattern, passed over for a high risk; a rejection and a manual
\* rule that tie behind it; a blanket approval behind both; a rule of another tenant.
MCRules ==
  { Rule(t1, 40, 0, AnyValue, "rm -rf", "auto_approve"),
    Rule(t1, 50, 1, "high", "rm -rf", "auto_reject"),
    Rule(t1, 50, 1, AnyValue, AnyValue, "manual"),
    Rule(t1, 100, 0, AnyValue, AnyValue, "auto_approve"),
    Rule(t2, 10, 0, AnyValue, AnyValue, "auto_reject") }

NoRules == {}

Symmetry == Permutations(Approvals) \cup Permutations(Sessions) \cup Permutations(Keys)
================================================================================
