----------------------------- MODULE ApprovalStore -----------------------------
(***************************************************************************)
(* The part of the server's store that runs approvals (memoryStore in      *)
(* src/server/cmd/server/main.go): CLI sessions, approvals, the replies    *)
(* kept for repeated decisions, the policy rules, and the two scans of the *)
(* worker.  Every operation holds the store's mutex from start to end, so  *)
(* each is one action; a call that returns an error changes nothing and is *)
(* a stuttering step.                                                      *)
(*                                                                         *)
(* Go maps are functions whose domain is the set of keys present.  A       *)
(* random UUID is a fresh identifier; the delivery id that Submit, Expire  *)
(* or a policy draws is the pair of the approval and deliveryNo, the count *)
(* of draws so far (0: no delivery id yet).  Time is abstracted to two     *)
(* sets: the approvals whose ExpiresAt has passed, and those whose last    *)
(* delivery is older than the ack timeout.  Prompt texts, summaries and    *)
(* timestamps are left out, and so is approvalNotifications, a map that is *)
(* written and never read.                                                 *)
(***************************************************************************)
EXTENDS PolicyRules, FiniteSets

CONSTANTS
  Devices,        \* registered devices
  Tenants,        \* tenants the devices belong to
  TenantOf,       \* the tenant of each device
  Sessions,       \* identifiers a CLI session may get
  Approvals,      \* identifiers an approval may get
  Keys, NoKey,    \* idempotency keys, and the empty one
  Requests,       \* what a request says of its prompt: [cliType, eventType, riskLevel, patterns]
  Decisions,      \* the decision types users submit
  SessionReports, \* the statuses agents report for their sessions
  Rules,          \* the policy rules administrators may add
  MaxAttempts     \* GATEPILOT_DELIVERY_MAX_ATTEMPTS

SessionStatuses == {"running", "waiting_approval", "completed", "failed", "closed", "lost"}

ASSUME StoreAssumption ==
  /\ TenantOf \in [Devices -> Tenants]
  /\ NoKey \notin Keys
  /\ NoDecision \notin Decisions
  /\ SessionReports \subseteq SessionStatuses
  /\ MaxAttempts \in Nat \ {0}

VARIABLES
  sessions,    \* session id -> [device, status, ended, pending]
  approvals,   \* approval id -> its record
  replays,     \* <<approval, key>> -> the reply to the decision submitted with that key
  policyRules, \* the rules added so far
  disabled,    \* the devices an administrator has disabled
  expired,     \* approvals whose ExpiresAt has passed
  ackDue,      \* approvals whose last delivery is older than the ack timeout
  auditLogs    \* how often the worker has logged each action for each approval

vars == <<sessions, approvals, replays, policyRules, disabled, expired, ackDue, auditLogs>>

ApprovalStatuses ==
  {"waiting_decision", "delivering", "delivered", "delivery_failed", "cancelled_by_local_input"}

\* What decision_type may hold: the users' own choices and what the server writes.
DecisionTypes ==
  Decisions \cup {NoDecision, "reject", "policy_reject", "policy_approve", "local_input"}

Actors == {"", "user", "policy", "system", "local"}

Session == [device: Devices, status: SessionStatuses, ended: BOOLEAN, pending: Nat]

Approval ==
  [session: Sessions, key: Keys \cup {NoKey}, request: Requests,
   status: ApprovalStatuses, decision: DecisionTypes, actor: Actors,
   deliveryNo: Nat, deliveryStatus: {"pending", "sent", "acked", "failed", "cancelled"},
   attempts: 0 .. MaxAttempts]

AuditActions == {"approval.timeout_reject", "delivery.retry_exhausted"}

\* A Go map with key x set to v.
Put(f, x, v) == [y \in DOMAIN f \cup {x} |-> IF y = x THEN v ELSE f[y]]

\* An approval that still counts in its session's PendingApprovals.
Live(a) == approvals[a].status \in {"waiting_decision", "delivering"}

LiveOf(s) == { a \in DOMAIN approvals : approvals[a].session = s /\ Live(a) }

TenantOfSession(s) == TenantOf[sessions[s].device]

IsTerminalSessionStatus(status) == status \in {"completed", "failed", "closed", "lost"}

Init ==
  /\ sessions = << >>
  /\ approvals = << >>
  /\ replays = << >>
  /\ policyRules = {}
  /\ disabled = {}
  /\ expired = {}
  /\ ackDue = {}
  /\ auditLogs = [action \in AuditActions |-> [a \in Approvals |-> 0]]

--------------------------------------------------------------------------------
(* Devices, sessions and policy rules. *)

\* Nothing enables a device again.
DisableDevice(d) ==
  /\ disabled' = disabled \cup {d}
  /\ UNCHANGED <<sessions, approvals, replays, policyRules, expired, ackDue, auditLogs>>

CreateSession(s, d) ==
  /\ s \notin DOMAIN sessions
  /\ d \notin disabled
  /\ sessions' = Put(sessions, s, [device |-> d, status |-> "running",
                                   ended |-> FALSE, pending |-> 0])
  /\ UNCHANGED <<approvals, replays, policyRules, disabled, expired, ackDue, auditLogs>>

\* The agent reports a status.  Any status may follow any other; EndedAt is
\* set by the first terminal one and kept.
UpdateSession(s, status) ==
  /\ s \in DOMAIN sessions
  /\ sessions' = [sessions EXCEPT
       ![s].status = status,
       ![s].ended = @ \/ IsTerminalSessionStatus(status)]
  /\ UNCHANGED <<approvals, replays, policyRules, disabled, expired, ackDue, auditLogs>>

\* Rules are never edited nor removed.  CreatedAt never runs backwards.
CreatePolicyRule(rule) ==
  /\ rule \notin policyRules
  /\ \A r \in policyRules : r.createdAt <= rule.createdAt
  /\ policyRules' = policyRules \cup {rule}
  /\ UNCHANGED <<sessions, approvals, replays, disabled, expired, ackDue, auditLogs>>

--------------------------------------------------------------------------------
(* The life of an approval. *)

\* Variant: the rules of every tenant are loaded.
TenantRulesOfAll(tenant) == policyRules

TenantRules(tenant) == { r \in policyRules : r.tenant = tenant }

NewApproval(s, key, request) ==
  [session |-> s, key |-> key, request |-> request, status |-> "waiting_decision",
   decision |-> NoDecision, actor |-> "", deliveryNo |-> 0,
   deliveryStatus |-> "pending", attempts |-> 0]

\* Variant: the first sending is not counted.
DispatchUncounted(item, decision, actor) ==
  [item EXCEPT !.status = "delivering", !.decision = decision, !.actor = actor,
               !.deliveryNo = @ + 1, !.deliveryStatus = "sent"]

\* An approval is decided: it gets a delivery id and counts as sent once.
Dispatch(item, decision, actor) ==
  [session |-> item.session, key |-> item.key, request |-> item.request,
   status |-> "delivering", decision |-> decision, actor |-> actor,
   deliveryNo |-> item.deliveryNo + 1, deliveryStatus |-> "sent", attempts |-> 1]

\* The record a new approval is stored with, after the policy rules.
ApplyPolicy(item, decision) ==
  IF decision = NoDecision THEN item ELSE Dispatch(item, decision, "policy")

\* Variant: only the session's own approvals are searched for the key.
KeyTakenInSession(s, key) ==
  \E e \in DOMAIN approvals : approvals[e].key = key /\ approvals[e].session = s

\* The approval of a tenant that an idempotency key already names.
KeyTaken(s, key) ==
  \E e \in DOMAIN approvals :
    /\ approvals[e].key = key
    /\ TenantOfSession(approvals[e].session) = TenantOfSession(s)

\* The session is marked waiting whatever its status was.
CreateApproval(a, s, key, request) ==
  /\ a \notin DOMAIN approvals
  /\ s \in DOMAIN sessions
  /\ key # NoKey => ~ KeyTaken(s, key)
  /\ \E decision \in PolicyDecisions(TenantRules(TenantOfSession(s)), request) :
       approvals' = Put(approvals, a, ApplyPolicy(NewApproval(s, key, request), decision))
  /\ sessions' = [sessions EXCEPT ![s].status = "waiting_approval", ![s].pending = @ + 1]
  /\ UNCHANGED <<replays, policyRules, disabled, expired, ackDue, auditLogs>>

\* Variant: an approval under way can be decided or taken over too.
AwaitsDecisionOrAck(a) == a \in DOMAIN approvals /\ Live(a)

AwaitsDecision(a) == a \in DOMAIN approvals /\ approvals[a].status = "waiting_decision"

\* A decision is accepted while the approval waits, even after ExpiresAt.  A
\* key seen before answers from replays and changes nothing.
SubmitApprovalDecision(a, key, decision) ==
  /\ key # NoKey
  /\ <<a, key>> \notin DOMAIN replays
  /\ AwaitsDecision(a)
  /\ LET item == Dispatch(approvals[a], decision, "user") IN
       /\ approvals' = [approvals EXCEPT ![a] = item]
       /\ replays' = Put(replays, <<a, key>>, [signature |-> decision, item |-> item])
       /\ sessions' = [sessions EXCEPT ![item.session].status = "waiting_approval"]
  /\ UNCHANGED <<policyRules, disabled, expired, ackDue, auditLogs>>

\* Variant: one approval is counted off, however many are over.
ReleasePendingOnce(item, n) == [item EXCEPT !.pending = IF @ > 0 THEN @ - 1 ELSE 0]

\* n of a session's approvals are over.
ReleasePending(item, n) ==
  [item EXCEPT !.pending = IF @ > n THEN @ - n ELSE 0]

\* After an ack or a takeover a session that has not ended runs again.
ResumeSession(item) ==
  IF IsTerminalSessionStatus(item.status) THEN item ELSE [item EXCEPT !.status = "running"]

AckResults == {"written", "accepted", "write_failed"}

AckWritten(result) == result \in {"written", "accepted"}

\* The agent's ack names an approval, a session and a delivery id.  An ack of
\* an approval already delivered is answered and changes nothing.
AckApprovalDecision(a, s, deliveryNo, result) ==
  /\ a \in DOMAIN approvals
  /\ approvals[a].status = "delivering"
  /\ approvals[a].session = s
  /\ approvals[a].deliveryNo = deliveryNo
  /\ approvals' = [approvals EXCEPT
       ![a].status = IF AckWritten(result) THEN "delivered" ELSE "delivery_failed",
       ![a].deliveryStatus = IF AckWritten(result) THEN "acked" ELSE "failed"]
  /\ sessions' = [sessions EXCEPT ![s] = ReleasePending(ResumeSession(@), 1)]
  /\ ackDue' = ackDue \ {a}
  /\ UNCHANGED <<replays, policyRules, disabled, expired, auditLogs>>

\* The agent reports that the CLI was answered locally.
SupersedeApproval(a) ==
  /\ AwaitsDecision(a)
  /\ approvals' = [approvals EXCEPT
       ![a].status = "cancelled_by_local_input", ![a].deliveryStatus = "cancelled",
       ![a].decision = "local_input", ![a].actor = "local"]
  /\ sessions' = [sessions EXCEPT
       ![approvals[a].session] = ReleasePending(ResumeSession(@), 1)]
  /\ UNCHANGED <<replays, policyRules, disabled, expired, ackDue, auditLogs>>

--------------------------------------------------------------------------------
(* The clock and the scans of the worker. *)

ExpiryPasses(a) ==
  /\ AwaitsDecision(a)
  /\ a \notin expired
  /\ expired' = expired \cup {a}
  /\ UNCHANGED <<sessions, approvals, replays, policyRules, disabled, ackDue, auditLogs>>

AckTimeoutPasses(a) ==
  /\ a \in DOMAIN approvals /\ approvals[a].status = "delivering"
  /\ a \notin ackDue
  /\ ackDue' = ackDue \cup {a}
  /\ UNCHANGED <<sessions, approvals, replays, policyRules, disabled, expired, auditLogs>>

Log(action, S) ==
  auditLogs' = [auditLogs EXCEPT ![action] =
                  [a \in Approvals |-> @[a] + (IF a \in S THEN 1 ELSE 0)]]

\* Variant: the scan looks at ExpiresAt alone.
ExpirableApprovalsByClock == { a \in DOMAIN approvals : a \in expired /\ Live(a) }

ExpirableApprovals == { a \in DOMAIN approvals : a \in expired /\ AwaitsDecision(a) }

\* Every expired approval that still waits is rejected in one scan.
ExpireApprovals ==
  LET due == ExpirableApprovals IN
    /\ due # {}
    /\ approvals' = [a \in DOMAIN approvals |->
         IF a \in due THEN Dispatch(approvals[a], "reject", "system") ELSE approvals[a]]
    /\ sessions' = [s \in DOMAIN sessions |->
         IF \E a \in due : approvals[a].session = s
           THEN [sessions[s] EXCEPT !.status = "waiting_approval"] ELSE sessions[s]]
    /\ Log("approval.timeout_reject", due)
    /\ UNCHANGED <<replays, policyRules, disabled, expired, ackDue>>

\* Variant: the scan skips deliveries that have used up their attempts.
OverdueDeliveriesBelowLimit ==
  { a \in DOMAIN approvals : /\ approvals[a].status = "delivering"
                             /\ approvals[a].attempts < MaxAttempts
                             /\ a \in ackDue }

OverdueDeliveries ==
  { a \in DOMAIN approvals : /\ approvals[a].status = "delivering"
                             /\ approvals[a].deliveryStatus = "sent"
                             /\ a \in ackDue }

\* Variants: the limit is passed by one attempt, or missed by one.
ExhaustedDeliveriesLate == { a \in OverdueDeliveries : approvals[a].attempts > MaxAttempts }
ExhaustedDeliveriesEarly == { a \in OverdueDeliveries : approvals[a].attempts + 1 >= MaxAttempts }

ExhaustedDeliveries == { a \in OverdueDeliveries : approvals[a].attempts >= MaxAttempts }

\* Every overdue delivery is sent again or, at the limit, given up; then its
\* session runs again whatever its status was.
RetryDeliveries ==
  LET failed == ExhaustedDeliveries
      failedOf(s) == { a \in failed : approvals[a].session = s }
  IN
    /\ OverdueDeliveries # {}
    /\ approvals' = [a \in DOMAIN approvals |->
         CASE a \in failed ->
                [approvals[a] EXCEPT !.status = "delivery_failed", !.deliveryStatus = "failed"]
           [] a \in OverdueDeliveries \ failed ->
                [approvals[a] EXCEPT !.attempts = @ + 1]
           [] OTHER -> approvals[a]]
    /\ sessions' = [s \in DOMAIN sessions |->
         IF failedOf(s) = {} THEN sessions[s]
           ELSE [ReleasePending(sessions[s], Cardinality(failedOf(s)))
                   EXCEPT !.status = "running"]]
    /\ Log("delivery.retry_exhausted", failed)
    /\ ackDue' = ackDue \ OverdueDeliveries
    /\ UNCHANGED <<replays, policyRules, disabled, expired>>

--------------------------------------------------------------------------------

\* Acks carry the delivery number of any sending; none beyond 1 is ever drawn
\* (DeliveryCoherent).
AgentNext ==
  \/ \E s \in Sessions, d \in Devices : CreateSession(s, d)
  \/ \E s \in Sessions, status \in SessionReports : UpdateSession(s, status)
  \/ \E a \in Approvals, s \in Sessions, key \in Keys \cup {NoKey}, request \in Requests :
       CreateApproval(a, s, key, request)
  \/ \E a \in Approvals, s \in Sessions, n \in 0 .. 1, result \in AckResults :
       AckApprovalDecision(a, s, n, result)
  \/ \E a \in Approvals : SupersedeApproval(a)

UserNext ==
  \/ \E d \in Devices : DisableDevice(d)
  \/ \E rule \in Rules : CreatePolicyRule(rule)
  \/ \E a \in Approvals, key \in Keys, decision \in Decisions :
       SubmitApprovalDecision(a, key, decision)

ClockNext == \E a \in Approvals : ExpiryPasses(a) \/ AckTimeoutPasses(a)

WorkerNext == ExpireApprovals \/ RetryDeliveries

Next == AgentNext \/ UserNext \/ ClockNext \/ WorkerNext

Spec == Init /\ [][Next]_vars

\* The worker goroutine runs on a ticker (GATEPILOT_WORKER_INTERVAL_SECONDS > 0)
\* and time passes; agents, users and administrators owe the system nothing.
FairSpec ==
  /\ Spec
  /\ WF_vars(ExpireApprovals) /\ WF_vars(RetryDeliveries)
  /\ \A a \in Approvals : WF_vars(ExpiryPasses(a)) /\ WF_vars(AckTimeoutPasses(a))
--------------------------------------------------------------------------------
(* Properties. *)

\* Every variable has the shape of the Go type it stands for, and every
\* approval, reply and scan mark refers to an entry that exists.
TypeOK ==
  /\ DOMAIN sessions \subseteq Sessions /\ sessions \in [DOMAIN sessions -> Session]
  /\ DOMAIN approvals \subseteq Approvals /\ approvals \in [DOMAIN approvals -> Approval]
  /\ \A a \in DOMAIN approvals : approvals[a].session \in DOMAIN sessions
  /\ DOMAIN replays \subseteq (DOMAIN approvals) \X Keys
  /\ replays \in [DOMAIN replays -> [signature : Decisions, item : Approval]]
  /\ policyRules \subseteq Rules
  /\ disabled \subseteq Devices
  /\ expired \subseteq DOMAIN approvals
  /\ ackDue \subseteq DOMAIN approvals
  /\ auditLogs \in [AuditActions -> [Approvals -> Nat]]

\* The counter PendingApprovals of a session, kept by increments in
\* CreateApproval and decrements in the ack, the takeover and the retry scan,
\* is the number of its approvals that are waiting or being delivered.
PendingCountExact ==
  \A s \in DOMAIN sessions : sessions[s].pending = Cardinality(LiveOf(s))

\* The status of an approval, the status of its delivery, its delivery id, its
\* attempts and its author, written by six operations, always tell one story:
\* no approval is sent without a decision, and none is decided twice.
DeliveryCoherent ==
  \A a \in DOMAIN approvals : LET item == approvals[a] IN
    /\ item.status \in {"waiting_decision", "cancelled_by_local_input"} <=> item.deliveryNo = 0
    /\ item.deliveryNo \in {0, 1}
    /\ item.attempts > 0 <=> item.deliveryNo = 1
    /\ item.actor = "" <=> item.status = "waiting_decision"
    /\ item.actor = "" <=> item.decision = NoDecision
    /\ item.deliveryStatus =
         CASE item.status = "waiting_decision" -> "pending"
           [] item.status = "delivering" -> "sent"
           [] item.status = "delivered" -> "acked"
           [] item.status = "delivery_failed" -> "failed"
           [] item.status = "cancelled_by_local_input" -> "cancelled"

\* An agent that retries CreateApproval with the key of an earlier call, from
\* any session of the tenant, never raises a second approval.
KeyNamesOneApproval ==
  \A a, b \in DOMAIN approvals :
    /\ a # b
    /\ approvals[a].key # NoKey
    /\ TenantOfSession(approvals[a].session) = TenantOfSession(approvals[b].session)
    => approvals[a].key # approvals[b].key

\* The reply a repeated SubmitApprovalDecision gets is the decision in force:
\* the approval was decided by that user's call and by no other, whatever has
\* happened to its delivery since.
ReplayTellsTheDecision ==
  \A a \in DOMAIN approvals, key \in Keys :
    <<a, key>> \in DOMAIN replays =>
      /\ approvals[a].actor = "user"
      /\ approvals[a].decision = replays[<<a, key>>].signature
      /\ approvals[a].deliveryNo = replays[<<a, key>>].item.deliveryNo
      /\ \A other \in Keys : <<a, other>> \in DOMAIN replays => other = key

\* Whatever the policy decided is backed by an enabled rule of the approval's own
\* tenant, and the policy never approves a high or critical risk.
PolicyStaysInBounds ==
  \A a \in DOMAIN approvals : approvals[a].actor = "policy" =>
    \E r \in policyRules :
      /\ r.tenant = TenantOfSession(approvals[a].session)
      /\ PolicyRuleMatches(r, approvals[a].request)
      /\ \/ approvals[a].decision = "policy_reject" /\ r.decision = "auto_reject"
         \/ /\ approvals[a].decision = "policy_approve" /\ r.decision = "auto_approve"
            /\ approvals[a].request.riskLevel \notin GuardedRisks

\* The worker logs a timeout once for the approvals it rejected and never for
\* another; it logs exhaustion at most once, for a failed delivery that used up
\* every attempt.
AuditTellsTheOutcome ==
  \A a \in DOMAIN approvals :
    /\ auditLogs["approval.timeout_reject"][a] =
         (IF approvals[a].actor = "system" THEN 1 ELSE 0)
    /\ auditLogs["delivery.retry_exhausted"][a] <= 1
    /\ auditLogs["delivery.retry_exhausted"][a] = 1 =>
         approvals[a].status = "delivery_failed" /\ approvals[a].attempts = MaxAttempts

\* What the policy decides is the verdict of a rule that no manual rule for the
\* same approval precedes: a manual rule keeps the approval for a human against
\* every automatic rule that sorts after it.
ManualRulePrevails ==
  [][\A a \in DOMAIN approvals' \ DOMAIN approvals :
       LET item == approvals'[a]
           rules == { r \in TenantRules(TenantOfSession(item.session)) :
                        PolicyRuleMatches(r, item.request) }
       IN  item.actor = "policy" =>
             \E r \in rules : /\ PolicyVerdict(r, item.request) = item.decision
                              /\ ~ \E m \in rules : m.decision = "manual" /\ SortsBefore(m, r)]_vars

\* The store seen as the abstract life of its approvals.
PhaseOf(status) ==
  CASE status = "waiting_decision" -> "open"
    [] status = "delivering" -> "decided"
    [] status = "delivered" -> "done"
    [] status = "delivery_failed" -> "failed"
    [] status = "cancelled_by_local_input" -> "withdrawn"

Ledger ==
  [a \in DOMAIN approvals |->
     [owner |-> approvals[a].session, phase |-> PhaseOf(approvals[a].status),
      decision |-> approvals[a].decision, by |-> approvals[a].actor]]

Lifecycle == INSTANCE ApprovalLifecycle WITH ledger <- Ledger

\* The store implements the abstract specification: every operation moves every
\* approval along its life or leaves it alone; a decision never changes.
ImplementsLifecycle == Lifecycle!Spec

Settled(a) == approvals[a].status \in {"delivered", "delivery_failed", "cancelled_by_local_input"}

\* With the worker running, no approval stays undecided or undelivered for ever,
\* even if no user decides, the agent is gone and no ack arrives.
EveryApprovalSettles ==
  \A a \in Approvals : a \in DOMAIN approvals ~> (a \in DOMAIN approvals /\ Settled(a))

--------------------------------------------------------------------------------
(* What the documents say and the code does not keep: TLC refutes each. *)

\* docs/14-state-transition-table.md:123: when a decision is written, a session that
\* waits goes on waiting as long as another of its approvals awaits a decision.
\* ResumeSession looks at no other approval.
WaitsWhileAnotherWaits ==
  [][\A a, b \in DOMAIN approvals :
       /\ approvals[a].status = "delivering" /\ approvals'[a].status = "delivered"
       /\ approvals[b].session = approvals[a].session
       /\ approvals'[b].status = "waiting_decision"
       => sessions'[approvals[a].session].status = sessions[approvals[a].session].status]_vars
================================================================================
