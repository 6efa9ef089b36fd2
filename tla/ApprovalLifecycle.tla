--------------------------- MODULE ApprovalLifecycle ---------------------------
(***************************************************************************)
(* What the approval platform promises about an approval, with no store,   *)
(* no delivery and no clock: it is raised once for one session, it is      *)
(* decided at most once, the decision and its author never change, and it  *)
(* ends in one of three ways that are final.  A worker may move several    *)
(* approvals at once.  ApprovalStore implements this specification.        *)
(***************************************************************************)
CONSTANTS Approvals,     \* the identifiers an approval may get
          Sessions,      \* the CLI sessions that raise approvals
          DecisionTypes, \* the decisions an approval may get, "" for none
          Actors         \* who may decide, "" for nobody

VARIABLE ledger       \* what is known of each approval raised so far

NoDecision == ""

Entry == [owner: Sessions, phase: {"open", "decided", "done", "failed", "withdrawn"},
          decision: DecisionTypes, by: Actors]

Init == ledger = << >>

\* An approval is raised; a policy may decide it in the same step.
Raise(a) ==
  /\ a \notin DOMAIN ledger
  /\ DOMAIN ledger' = DOMAIN ledger \cup {a}
  /\ \A x \in DOMAIN ledger : ledger'[x] = ledger[x]
  /\ ledger'[a] \in Entry
  /\ \/ ledger'[a].phase = "open" /\ ledger'[a].decision = NoDecision
     \/ ledger'[a].phase = "decided" /\ ledger'[a].decision # NoDecision

\* Every approval of S moves from phase "from" to phase "to", keeping its owner.
Move(S, from, to) ==
  /\ S # {}
  /\ \A a \in S : a \in DOMAIN ledger /\ ledger[a].phase = from
  /\ DOMAIN ledger' = DOMAIN ledger
  /\ \A a \in DOMAIN ledger \ S : ledger'[a] = ledger[a]
  /\ \A a \in S : /\ ledger'[a] \in Entry
                  /\ ledger'[a].owner = ledger[a].owner
                  /\ ledger'[a].phase = to

KeepsDecision(S) ==
  \A a \in S : /\ ledger'[a].decision = ledger[a].decision
               /\ ledger'[a].by = ledger[a].by

\* A user, the policy or the timeout decides.
Decide(S) ==
  /\ Move(S, "open", "decided")
  /\ \A a \in S : ledger'[a].decision # NoDecision

\* The decision reached the CLI, or never will.
Close(S) ==
  /\ \E to \in {"done", "failed"} : Move(S, "decided", to)
  /\ KeepsDecision(S)

\* The user of the device answered the CLI directly.
Withdraw(a) == Move({a}, "open", "withdrawn")

Next ==
  \/ \E S \in SUBSET Approvals : Decide(S) \/ Close(S)
  \/ \E a \in Approvals : Raise(a) \/ Withdraw(a)

Spec == Init /\ [][Next]_ledger
================================================================================
