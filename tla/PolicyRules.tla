------------------------------ MODULE PolicyRules ------------------------------
(***************************************************************************)
(* The policy engine of the server: which rule of a tenant decides a new   *)
(* approval, and how.  It is the pure part of memoryStore.CreateApproval   *)
(* (policyRuleMatches, applyPolicyDecision and the loop over the sorted    *)
(* rules); ApprovalStore uses it inside its CreateApproval action.         *)
(*                                                                         *)
(* A rule is a record [tenant, priority, createdAt, enabled, cliType,      *)
(* eventType, riskLevel, commandPattern, decision] as buildPolicyRule      *)
(* leaves it.  The item a rule is matched against is a record [cliType,    *)
(* eventType, riskLevel, patterns], where patterns is the set of command   *)
(* patterns that occur in the prompt or in its context.                    *)
(***************************************************************************)
EXTENDS Integers

\* The empty filter of a rule: it restricts nothing.
AnyValue == ""

\* The decision of an approval that nobody has decided.
NoDecision == ""

RuleDecisions == {"manual", "auto_reject", "auto_approve"}

GuardedRisks == {"high", "critical"}

\* The conditions a rule puts on an item: enabled, the three exact filters,
\* and the pattern looked for in the text.
PolicyRuleMatches(rule, item) ==
  /\ rule.enabled
  /\ \A f \in {"cliType", "eventType", "riskLevel"} : rule[f] \in {AnyValue, item[f]}
  /\ rule.commandPattern \in {AnyValue} \cup item.patterns

\* What applyPolicyDecision writes into decision_type; NoDecision when it
\* returns the item unchanged.
PolicyVerdict(rule, item) ==
  CASE rule.decision = "auto_reject" -> "policy_reject"
    [] rule.decision = "auto_approve" /\ item.riskLevel \notin GuardedRisks
         -> "policy_approve"
    [] OTHER -> NoDecision

\* Variant: manual rules are passed over like any rule that decides nothing.
StoppingRulesThatDecide(rules, item) ==
  { r \in rules : PolicyRuleMatches(r, item) /\ PolicyVerdict(r, item) # NoDecision }

\* The loop stops at a rule that decides the item and at a manual rule; an
\* auto_approve rule that the risk level disarms is passed over.
StoppingRules(rules, item) ==
  { r \in rules : /\ PolicyRuleMatches(r, item)
                  /\ \/ PolicyVerdict(r, item) # NoDecision
                     \/ r.decision = "manual" }

\* The order of sort.Slice.  Creation times have a resolution of one second:
\* equal priorities and times leave the order open.
SortsBefore(r, o) ==
  \/ r.priority < o.priority
  \/ r.priority = o.priority /\ r.createdAt < o.createdAt

\* The decisions the loop may reach; more than one only when rules tie.
PolicyDecisions(rules, item) ==
  LET stops == StoppingRules(rules, item)
      first == { r \in stops : \A o \in stops : ~ SortsBefore(o, r) }
  IN  IF stops = {} THEN {NoDecision}
                    ELSE { PolicyVerdict(r, item) : r \in first }
================================================================================
