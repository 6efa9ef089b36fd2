-------------------------- MODULE ApprovalStoreProofs --------------------------
(***************************************************************************)
(* Theorems about ApprovalStore, for every set of devices, sessions,       *)
(* approvals, keys and rules and every attempt limit.  First the types and *)
(* the counter of each session.  Then the decisions the store keeps:       *)
(* status, delivery, author and attempts of an approval tell one story,    *)
(* replies and audit entries agree with it, no two approvals of a tenant   *)
(* share a key, and the policy decides within its bounds; all rest on the  *)
(* five things a step may do to an approval.  At last, that the store      *)
(* implements the abstract life of an approval: every operation maps,      *)
(* through Ledger, to one step of ApprovalLifecycle or leaves the ledger   *)
(* alone.                                                                  *)
(***************************************************************************)
EXTENDS ApprovalStore, FiniteSetTheorems, TLAPS

--------------------------------------------------------------------------------
(* What the helpers of the model return. *)

\* Deciding an approval keeps it well formed.
LEMMA DispatchType ==
  ASSUME NEW item \in Approval, NEW decision \in DecisionTypes,
         NEW actor \in {"user", "policy", "system"}
  PROVE  /\ Dispatch(item, decision, actor) \in Approval
         /\ Dispatch(item, decision, actor).session = item.session
         /\ Dispatch(item, decision, actor).status = "delivering"
<1>1. /\ 1 \in 0 .. MaxAttempts
      /\ item.deliveryNo + 1 \in Nat
  BY StoreAssumption DEF Approval
<1>2. QED
  BY <1>1 DEF Dispatch, Approval, ApprovalStatuses, Actors

\* The policy engine returns one of its two decisions, or none.
LEMMA PolicyDecisionsType ==
  ASSUME NEW rules, NEW request, NEW decision \in PolicyDecisions(rules, request)
  PROVE  decision \in {NoDecision, "policy_reject", "policy_approve"}
BY DEF PolicyDecisions, PolicyVerdict

\* A new approval is well formed, waits or is being delivered, and belongs to
\* the session that raised it.
LEMMA NewApprovalType ==
  ASSUME NEW s \in Sessions, NEW key \in Keys \cup {NoKey}, NEW request \in Requests,
         NEW rules, NEW decision \in PolicyDecisions(rules, request)
  PROVE  LET item == ApplyPolicy(NewApproval(s, key, request), decision) IN
           /\ item \in Approval
           /\ item.session = s
           /\ item.status \in {"waiting_decision", "delivering"}
<1>1. /\ NewApproval(s, key, request) \in Approval
      /\ NewApproval(s, key, request).session = s
      /\ NewApproval(s, key, request).status = "waiting_decision"
  BY StoreAssumption DEF NewApproval, Approval, ApprovalStatuses, DecisionTypes, Actors
<1>2. decision \in DecisionTypes
  BY PolicyDecisionsType DEF DecisionTypes
<1>3. QED
  BY <1>1, <1>2, DispatchType DEF ApplyPolicy

\* The scans' log entries keep the audit counters natural numbers.
LEMMA LogType ==
  ASSUME auditLogs \in [AuditActions -> [Approvals -> Nat]],
         NEW action \in AuditActions, NEW S, Log(action, S)
  PROVE  auditLogs' \in [AuditActions -> [Approvals -> Nat]]
BY DEF Log

\* Counting off approvals and resuming keep a session well formed.
LEMMA SessionHelpersType ==
  ASSUME NEW item \in Session, NEW n \in Nat
  PROVE  /\ ReleasePending(item, n) \in Session
         /\ ResumeSession(item) \in Session
         /\ ReleasePending(ResumeSession(item), n) \in Session
BY DEF ReleasePending, ResumeSession, Session, SessionStatuses

--------------------------------------------------------------------------------
(* Type correctness. *)

\* Replacing one approval of the map by a well-formed one keeps the map typed.
LEMMA ApprovalsUpdateType ==
  ASSUME TypeOK, NEW a \in DOMAIN approvals, NEW item \in Approval,
         item.session = approvals[a].session,
         approvals' = [approvals EXCEPT ![a] = item]
  PROVE  /\ DOMAIN approvals' = DOMAIN approvals
         /\ approvals' \in [DOMAIN approvals -> Approval]
         /\ approvals'[a] = item
         /\ \A b \in DOMAIN approvals \ {a} : approvals'[b] = approvals[b]
         /\ \A b \in DOMAIN approvals : approvals'[b].session = approvals[b].session
BY DEF TypeOK

\* The same for a session.
LEMMA SessionsUpdateType ==
  ASSUME TypeOK, NEW s \in DOMAIN sessions, NEW item \in Session,
         sessions' = [sessions EXCEPT ![s] = item]
  PROVE  /\ DOMAIN sessions' = DOMAIN sessions
         /\ sessions' \in [DOMAIN sessions -> Session]
         /\ sessions'[s] = item
         /\ \A t \in DOMAIN sessions \ {s} : sessions'[t] = sessions[t]
BY DEF TypeOK

\* A session opened by CreateSession is well formed; nothing else changes.
LEMMA CreateSessionType ==
  ASSUME TypeOK, NEW s \in Sessions, NEW d \in Devices, CreateSession(s, d)
  PROVE  TypeOK'
<1>1. [device |-> d, status |-> "running", ended |-> FALSE, pending |-> 0] \in Session
  BY DEF Session, SessionStatuses
<1>2. /\ DOMAIN sessions' = DOMAIN sessions \cup {s}
      /\ DOMAIN sessions' \subseteq Sessions
      /\ sessions' \in [DOMAIN sessions' -> Session]
  BY <1>1 DEF CreateSession, TypeOK, Put
<1>3. UNCHANGED <<approvals, replays, policyRules, disabled, expired, ackDue, auditLogs>>
  BY DEF CreateSession
<1>4. QED
  BY <1>2, <1>3 DEF TypeOK

\* A reported status, whichever it is, leaves every session well formed.
LEMMA UpdateSessionType ==
  ASSUME TypeOK, NEW s \in Sessions, NEW status \in SessionReports, UpdateSession(s, status)
  PROVE  TypeOK'
<1>1. s \in DOMAIN sessions /\ sessions[s] \in Session /\ status \in SessionStatuses
  BY StoreAssumption DEF UpdateSession, TypeOK
<1>2. [sessions[s] EXCEPT !.status = status,
                          !.ended = @ \/ IsTerminalSessionStatus(status)] \in Session
  BY <1>1 DEF Session
<1>3. /\ DOMAIN sessions' = DOMAIN sessions
      /\ sessions' \in [DOMAIN sessions -> Session]
  BY <1>1, <1>2 DEF UpdateSession, TypeOK
<1>4. UNCHANGED <<approvals, replays, policyRules, disabled, expired, ackDue, auditLogs>>
  BY DEF UpdateSession
<1>5. QED
  BY <1>3, <1>4 DEF TypeOK

\* CreateApproval adds a well-formed approval, decided by a rule or not, to a session
\* that exists.
LEMMA CreateApprovalType ==
  ASSUME TypeOK, NEW a \in Approvals, NEW s \in Sessions, NEW key \in Keys \cup {NoKey},
         NEW request \in Requests, CreateApproval(a, s, key, request)
  PROVE  TypeOK'
<1>1. PICK decision \in PolicyDecisions(TenantRules(TenantOfSession(s)), request) :
        approvals' = Put(approvals, a, ApplyPolicy(NewApproval(s, key, request), decision))
  BY DEF CreateApproval
<1> DEFINE item == ApplyPolicy(NewApproval(s, key, request), decision)
<1>2. item \in Approval /\ item.session = s
  BY NewApprovalType
<1> HIDE DEF item
<1>3. /\ DOMAIN approvals' = DOMAIN approvals \cup {a}
      /\ DOMAIN approvals' \subseteq Approvals
      /\ approvals' \in [DOMAIN approvals' -> Approval]
      /\ approvals'[a] = item
      /\ \A b \in DOMAIN approvals \ {a} : approvals'[b] = approvals[b]
  BY <1>1, <1>2 DEF TypeOK, item, Put
<1>4. /\ s \in DOMAIN sessions /\ sessions[s] \in Session /\ sessions[s].pending + 1 \in Nat
      /\ a \notin DOMAIN approvals
  BY DEF CreateApproval, TypeOK, Session
<1>5. [sessions[s] EXCEPT !.status = "waiting_approval", !.pending = @ + 1] \in Session
  BY <1>4 DEF Session, SessionStatuses
<1>6. /\ DOMAIN sessions' = DOMAIN sessions
      /\ sessions' \in [DOMAIN sessions -> Session]
  BY <1>4, <1>5 DEF CreateApproval, TypeOK
<1>7. \A b \in DOMAIN approvals' : approvals'[b].session \in DOMAIN sessions'
  BY <1>2, <1>3, <1>4, <1>6 DEF TypeOK
<1>8. UNCHANGED <<replays, policyRules, disabled, expired, ackDue, auditLogs>>
  BY DEF CreateApproval
<1>9. QED
  BY <1>3, <1>6, <1>7, <1>8 DEF TypeOK

\* A user's decision, and the reply kept for its repetition, are well formed.
LEMMA SubmitType ==
  ASSUME TypeOK, NEW a \in Approvals, NEW key \in Keys, NEW decision \in Decisions,
         SubmitApprovalDecision(a, key, decision)
  PROVE  TypeOK'
<1> DEFINE item == Dispatch(approvals[a], decision, "user")
           reply == [signature |-> decision, item |-> item]
<1>1. a \in DOMAIN approvals /\ approvals[a] \in Approval
  BY DEF SubmitApprovalDecision, AwaitsDecision, TypeOK
<1>2. /\ item \in Approval /\ item.session = approvals[a].session
      /\ reply \in [signature : Decisions, item : Approval]
  BY <1>1, DispatchType DEF DecisionTypes
<1>3. /\ approvals' = [approvals EXCEPT ![a] = item]
      /\ replays' = Put(replays, <<a, key>>, reply)
      /\ sessions' = [sessions EXCEPT ![item.session].status = "waiting_approval"]
      /\ UNCHANGED <<policyRules, disabled, expired, ackDue, auditLogs>>
  BY DEF SubmitApprovalDecision
<1> HIDE DEF item, reply
<1>4. /\ DOMAIN approvals' = DOMAIN approvals
      /\ approvals' \in [DOMAIN approvals -> Approval]
      /\ \A b \in DOMAIN approvals : approvals'[b].session = approvals[b].session
  BY <1>1, <1>2, <1>3, ApprovalsUpdateType
<1>5. /\ DOMAIN replays' \subseteq (DOMAIN approvals) \X Keys
      /\ replays' \in [DOMAIN replays' -> [signature : Decisions, item : Approval]]
  BY <1>1, <1>2, <1>3 DEF TypeOK, Put
<1>6. /\ DOMAIN sessions' = DOMAIN sessions
      /\ sessions' \in [DOMAIN sessions -> Session]
  BY <1>1, <1>2, <1>3 DEF TypeOK, Session, SessionStatuses
<1>7. QED
  BY <1>3, <1>4, <1>5, <1>6 DEF TypeOK

\* An accepted ack leaves its approval and its session well formed.
LEMMA AckType ==
  ASSUME TypeOK, NEW a \in Approvals, NEW s \in Sessions, NEW n, NEW result,
         AckApprovalDecision(a, s, n, result)
  PROVE  TypeOK'
<1> DEFINE item == [approvals[a] EXCEPT
              !.status = IF AckWritten(result) THEN "delivered" ELSE "delivery_failed",
              !.deliveryStatus = IF AckWritten(result) THEN "acked" ELSE "failed"]
           next == ReleasePending(ResumeSession(sessions[s]), 1)
<1>1. /\ a \in DOMAIN approvals /\ approvals[a] \in Approval
      /\ s \in DOMAIN sessions /\ sessions[s] \in Session
  BY DEF AckApprovalDecision, TypeOK
<1>2. item \in Approval /\ item.session = approvals[a].session
  BY <1>1 DEF Approval, ApprovalStatuses
<1>3. next \in Session
  BY <1>1, SessionHelpersType
<1>4. /\ approvals' = [approvals EXCEPT ![a] = item]
      /\ sessions' = [sessions EXCEPT ![s] = next]
      /\ ackDue' = ackDue \ {a}
      /\ UNCHANGED <<replays, policyRules, disabled, expired, auditLogs>>
  BY DEF AckApprovalDecision
<1> HIDE DEF item, next
<1>5. /\ DOMAIN approvals' = DOMAIN approvals
      /\ approvals' \in [DOMAIN approvals -> Approval]
      /\ \A b \in DOMAIN approvals : approvals'[b].session = approvals[b].session
  BY <1>1, <1>2, <1>4, ApprovalsUpdateType
<1>6. /\ DOMAIN sessions' = DOMAIN sessions
      /\ sessions' \in [DOMAIN sessions -> Session]
  BY <1>1, <1>3, <1>4, SessionsUpdateType
<1>7. QED
  BY <1>4, <1>5, <1>6 DEF TypeOK

\* A takeover by local input leaves its approval and its session well formed.
LEMMA SupersedeType ==
  ASSUME TypeOK, NEW a \in Approvals, SupersedeApproval(a)
  PROVE  TypeOK'
<1> DEFINE item == [approvals[a] EXCEPT
              !.status = "cancelled_by_local_input", !.deliveryStatus = "cancelled",
              !.decision = "local_input", !.actor = "local"]
           s == approvals[a].session
           next == ReleasePending(ResumeSession(sessions[s]), 1)
<1>1. /\ a \in DOMAIN approvals /\ approvals[a] \in Approval
      /\ s \in DOMAIN sessions /\ sessions[s] \in Session
  BY DEF SupersedeApproval, AwaitsDecision, TypeOK
<1>2. item \in Approval /\ item.session = s
  BY <1>1 DEF Approval, ApprovalStatuses, DecisionTypes, Actors
<1>3. next \in Session
  BY <1>1, SessionHelpersType
<1>4. /\ approvals' = [approvals EXCEPT ![a] = item]
      /\ sessions' = [sessions EXCEPT ![s] = next]
      /\ UNCHANGED <<replays, policyRules, disabled, expired, ackDue, auditLogs>>
  BY DEF SupersedeApproval
<1>5. /\ DOMAIN sessions' = DOMAIN sessions
      /\ sessions' \in [DOMAIN sessions -> Session]
  BY <1>1, <1>3, <1>4, SessionsUpdateType
<1> HIDE DEF item, next
<1>6. /\ DOMAIN approvals' = DOMAIN approvals
      /\ approvals' \in [DOMAIN approvals -> Approval]
      /\ \A b \in DOMAIN approvals : approvals'[b].session = approvals[b].session
  BY <1>1, <1>2, <1>4, ApprovalsUpdateType
<1>7. QED
  BY <1>4, <1>5, <1>6 DEF TypeOK

\* The expiry scan, however many approvals it rejects, leaves every map well formed.
LEMMA ExpireType ==
  ASSUME TypeOK, ExpireApprovals
  PROVE  TypeOK'
<1>1. /\ DOMAIN approvals' = DOMAIN approvals
      /\ \A a \in DOMAIN approvals :
           approvals'[a] \in {approvals[a], Dispatch(approvals[a], "reject", "system")}
      /\ approvals' = [a \in DOMAIN approvals |-> approvals'[a]]
  BY DEF ExpireApprovals
<1>2. \A a \in DOMAIN approvals : /\ approvals'[a] \in Approval
                                  /\ approvals'[a].session = approvals[a].session
  <2> SUFFICES ASSUME NEW a \in DOMAIN approvals
               PROVE  /\ approvals'[a] \in Approval
                      /\ approvals'[a].session = approvals[a].session
    OBVIOUS
  <2>1. approvals[a] \in Approval /\ "reject" \in DecisionTypes
    BY DEF TypeOK, DecisionTypes
  <2>2. QED
    BY <1>1, <2>1, DispatchType
<1>3. /\ DOMAIN sessions' = DOMAIN sessions
      /\ sessions' \in [DOMAIN sessions -> Session]
  <2>1. \A s \in DOMAIN sessions :
          [sessions[s] EXCEPT !.status = "waiting_approval"] \in Session
    BY DEF TypeOK, Session, SessionStatuses
  <2>2. QED
    BY <2>1 DEF ExpireApprovals, TypeOK
<1>4. auditLogs' \in [AuditActions -> [Approvals -> Nat]]
  BY LogType DEF ExpireApprovals, TypeOK, AuditActions
<1>5. UNCHANGED <<replays, policyRules, disabled, expired, ackDue>>
  BY DEF ExpireApprovals
<1>6. approvals' \in [DOMAIN approvals -> Approval]
  BY <1>1, <1>2
<1>7. QED
  BY <1>1, <1>2, <1>3, <1>4, <1>5, <1>6 DEF TypeOK

\* What one retry scan does to one approval.
LEMMA RetryStep ==
  ASSUME TypeOK, RetryDeliveries, NEW a \in DOMAIN approvals
  PROVE  /\ DOMAIN approvals' = DOMAIN approvals
         /\ approvals'[a] \in Approval
         /\ approvals'[a].session = approvals[a].session
         /\ a \in ExhaustedDeliveries =>
              approvals[a].status = "delivering" /\ approvals'[a].status = "delivery_failed"
         /\ a \notin ExhaustedDeliveries => approvals'[a].status = approvals[a].status
<1>1. approvals[a] \in Approval
  BY DEF TypeOK
<1>2. DOMAIN approvals' = DOMAIN approvals
  BY DEF RetryDeliveries
<1>3. CASE a \in ExhaustedDeliveries
  <2>1. approvals'[a] =
          [approvals[a] EXCEPT !.status = "delivery_failed", !.deliveryStatus = "failed"]
    BY <1>3 DEF RetryDeliveries
  <2>2. approvals[a].status = "delivering"
    BY <1>3 DEF ExhaustedDeliveries, OverdueDeliveries
  <2>3. QED
    BY <1>1, <1>2, <1>3, <2>1, <2>2 DEF Approval, ApprovalStatuses
<1>4. CASE a \in OverdueDeliveries \ ExhaustedDeliveries
  <2>1. approvals'[a] = [approvals[a] EXCEPT !.attempts = @ + 1]
    BY <1>4 DEF RetryDeliveries
  <2>2. approvals[a].attempts + 1 \in 0 .. MaxAttempts
    BY <1>1, <1>4, StoreAssumption DEF ExhaustedDeliveries, Approval
  <2>3. QED
    BY <1>1, <1>2, <1>4, <2>1, <2>2 DEF Approval
<1>5. CASE a \notin OverdueDeliveries
  <2>1. approvals'[a] = approvals[a] /\ a \notin ExhaustedDeliveries
    BY <1>5 DEF RetryDeliveries, ExhaustedDeliveries
  <2>2. QED
    BY <1>1, <1>2, <2>1
<1>6. QED
  BY <1>3, <1>4, <1>5

\* The retry scan keeps the attempts within the limit and every map well formed.
LEMMA RetryType ==
  ASSUME TypeOK, IsFiniteSet(DOMAIN approvals), RetryDeliveries
  PROVE  TypeOK'
<1>1. /\ DOMAIN approvals' = DOMAIN approvals
      /\ approvals' = [a \in DOMAIN approvals |-> approvals'[a]]
  BY DEF RetryDeliveries
<1>2. \A a \in DOMAIN approvals : /\ approvals'[a] \in Approval
                                  /\ approvals'[a].session = approvals[a].session
  BY RetryStep
<1>3. approvals' \in [DOMAIN approvals -> Approval]
  BY <1>1, <1>2
<1> DEFINE failedOf(s) == { a \in ExhaustedDeliveries : approvals[a].session = s }
<1>4. \A s \in DOMAIN sessions : sessions'[s] \in Session
  <2> SUFFICES ASSUME NEW s \in DOMAIN sessions
               PROVE  sessions'[s] \in Session
    OBVIOUS
  <2>1. Cardinality(failedOf(s)) \in Nat
    BY FS_Subset, FS_CardinalityType, failedOf(s) \in SUBSET DOMAIN approvals
    DEF ExhaustedDeliveries, OverdueDeliveries
  <2>2. sessions[s] \in Session
    BY DEF TypeOK
  <2> DEFINE next == ReleasePending(sessions[s], Cardinality(failedOf(s)))
  <2>3. next \in Session
    BY <2>1, <2>2, SessionHelpersType
  <2>4. sessions'[s] \in {sessions[s], [next EXCEPT !.status = "running"]}
    BY DEF RetryDeliveries
  <2> HIDE DEF next
  <2>5. [next EXCEPT !.status = "running"] \in Session
    BY <2>3 DEF Session, SessionStatuses
  <2>6. QED
    BY <2>2, <2>4, <2>5
<1>5. sessions' = [s \in DOMAIN sessions |-> sessions'[s]]
  BY DEF RetryDeliveries
<1>6. auditLogs' \in [AuditActions -> [Approvals -> Nat]]
  BY LogType DEF RetryDeliveries, TypeOK, AuditActions
<1>7. /\ UNCHANGED <<replays, policyRules, disabled, expired>>
      /\ ackDue' \subseteq ackDue
  BY DEF RetryDeliveries
<1> HIDE DEF failedOf
<1>8. /\ DOMAIN sessions' = DOMAIN sessions
      /\ sessions' \in [DOMAIN sessions -> Session]
  BY <1>4, <1>5
<1>9. QED
  BY <1>1, <1>2, <1>3, <1>6, <1>7, <1>8 DEF TypeOK

\* The approvals in the map are finitely many: only CreateApproval adds one.
LEMMA FiniteApprovalsStep ==
  ASSUME IsFiniteSet(DOMAIN approvals), [Next]_vars
  PROVE  IsFiniteSet(DOMAIN approvals')
<1>1. \/ DOMAIN approvals' = DOMAIN approvals
      \/ \E a \in Approvals : DOMAIN approvals' = DOMAIN approvals \cup {a}
  BY DEF Next, AgentNext, UserNext, ClockNext, WorkerNext, vars, CreateSession, UpdateSession,
     CreateApproval, AckApprovalDecision, SupersedeApproval, DisableDevice, CreatePolicyRule,
     SubmitApprovalDecision, ExpiryPasses, AckTimeoutPasses, ExpireApprovals, RetryDeliveries, Put
<1>2. QED
  BY <1>1, FS_AddElement

\* Every step of the store keeps the types.
LEMMA TypeStep ==
  ASSUME TypeOK, IsFiniteSet(DOMAIN approvals), [Next]_vars
  PROVE  TypeOK'
<1>1. CASE AgentNext
  BY <1>1, CreateSessionType, UpdateSessionType, CreateApprovalType, AckType, SupersedeType
  DEF AgentNext
<1>2. CASE UserNext
  <2>1. CASE \E d \in Devices : DisableDevice(d)
    BY <2>1 DEF DisableDevice, TypeOK
  <2>2. CASE \E rule \in Rules : CreatePolicyRule(rule)
    BY <2>2 DEF CreatePolicyRule, TypeOK
  <2>3. CASE \E a \in Approvals, key \in Keys, decision \in Decisions :
               SubmitApprovalDecision(a, key, decision)
    BY <2>3, SubmitType
  <2>4. QED
    BY <1>2, <2>1, <2>2, <2>3 DEF UserNext
<1>3. CASE ClockNext
  BY <1>3 DEF ClockNext, ExpiryPasses, AckTimeoutPasses, AwaitsDecision, TypeOK
<1>4. CASE WorkerNext
  BY <1>4, ExpireType, RetryType DEF WorkerNext
<1>5. CASE UNCHANGED vars
  BY <1>5 DEF vars, TypeOK
<1>6. QED
  BY <1>1, <1>2, <1>3, <1>4, <1>5 DEF Next

\* The domain of the map of approvals is a finite set, as every Go map's is.
Finite == IsFiniteSet(DOMAIN approvals)

\* The maps of the store keep the types of the Go structs through every
\* operation, and no approval is raised in a session that does not exist.
THEOREM TypeCorrect == Spec => []TypeOK
<1>1. Init => TypeOK /\ Finite
  BY FS_EmptySet DEF Init, TypeOK, Finite, AuditActions
<1>2. TypeOK /\ Finite /\ [Next]_vars => TypeOK' /\ Finite'
  BY TypeStep, FiniteApprovalsStep DEF Finite
<1>3. QED
  BY <1>1, <1>2, PTL DEF Spec

--------------------------------------------------------------------------------
(* The counter PendingApprovals. *)

\* Finitely many approvals count in a session.
LEMMA LiveOfFinite ==
  ASSUME Finite, NEW s
  PROVE  IsFiniteSet(LiveOf(s)) /\ Cardinality(LiveOf(s)) \in Nat
BY FS_Subset, FS_CardinalityType DEF Finite, LiveOf

\* A step that keeps which approvals are live, and every counter, keeps them equal.
LEMMA PendingKept ==
  ASSUME PendingCountExact,
         DOMAIN approvals' = DOMAIN approvals, DOMAIN sessions' = DOMAIN sessions,
         \A a \in DOMAIN approvals : approvals'[a].session = approvals[a].session,
         \A a \in DOMAIN approvals :
           approvals'[a].status \in {"waiting_decision", "delivering"} <=> Live(a),
         \A s \in DOMAIN sessions : sessions'[s].pending = sessions[s].pending
  PROVE  PendingCountExact'
<1>1. \A s \in DOMAIN sessions : LiveOf(s)' = LiveOf(s)
  BY DEF LiveOf, Live
<1>2. QED
  BY <1>1 DEF PendingCountExact

\* A step that ends the live approval a and counts one off in its session keeps
\* the counters exact.
LEMMA PendingReleased ==
  ASSUME TypeOK, Finite, PendingCountExact,
         NEW a \in DOMAIN approvals, NEW s, s = approvals[a].session, Live(a),
         DOMAIN approvals' = DOMAIN approvals, DOMAIN sessions' = DOMAIN sessions,
         approvals'[a].status \notin {"waiting_decision", "delivering"},
         \A b \in DOMAIN approvals \ {a} : approvals'[b] = approvals[b],
         sessions'[s].pending = ReleasePending(ResumeSession(sessions[s]), 1).pending,
         \A t \in DOMAIN sessions \ {s} : sessions'[t] = sessions[t],
         approvals'[a].session = s
  PROVE  PendingCountExact'
<1>1. LiveOf(s)' = LiveOf(s) \ {a} /\ a \in LiveOf(s)
  BY DEF LiveOf, Live
<1>2. \A t \in DOMAIN sessions \ {s} : LiveOf(t)' = LiveOf(t)
  BY DEF LiveOf, Live
<1>3. /\ Cardinality(LiveOf(s)') = Cardinality(LiveOf(s)) - 1
      /\ Cardinality(LiveOf(s)) \in Nat
      /\ Cardinality(LiveOf(s)') \in Nat
  BY <1>1, LiveOfFinite, FS_RemoveElement, FS_CardinalityType
<1>4. /\ s \in DOMAIN sessions /\ sessions[s] \in Session
      /\ sessions[s].pending = Cardinality(LiveOf(s))
  BY DEF TypeOK, PendingCountExact
<1>5. ReleasePending(ResumeSession(sessions[s]), 1).pending = sessions[s].pending - 1
  <2>1. /\ ResumeSession(sessions[s]) \in Session
        /\ ResumeSession(sessions[s]).pending = sessions[s].pending
    BY <1>4 DEF ResumeSession, Session, SessionStatuses
  <2>2. QED
    BY <1>3, <1>4, <2>1 DEF ReleasePending, Session
<1>6. QED
  BY <1>2, <1>3, <1>4, <1>5 DEF PendingCountExact

\* A session starts with no approval and a counter of 0.
LEMMA CreateSessionPending ==
  ASSUME TypeOK, PendingCountExact, NEW s \in Sessions, NEW d \in Devices, CreateSession(s, d)
  PROVE  PendingCountExact'
<1>1. /\ s \notin DOMAIN sessions
      /\ DOMAIN sessions' = DOMAIN sessions \cup {s}
      /\ sessions'[s].pending = 0
      /\ \A t \in DOMAIN sessions : sessions'[t] = sessions[t]
      /\ approvals' = approvals
  BY DEF CreateSession, Put
<1>2. LiveOf(s) = {}
  BY <1>1 DEF LiveOf, TypeOK
<1>3. \A t : LiveOf(t)' = LiveOf(t)
  BY <1>1 DEF LiveOf, Live
<1>4. QED
  BY <1>1, <1>2, <1>3, FS_EmptySet DEF PendingCountExact

\* CreateApproval adds one live approval and one to its session's counter, and
\* whether a rule decided it makes no difference.
LEMMA CreateApprovalPending ==
  ASSUME TypeOK, Finite, PendingCountExact, NEW a \in Approvals, NEW s \in Sessions,
         NEW key \in Keys \cup {NoKey}, NEW request \in Requests,
         CreateApproval(a, s, key, request)
  PROVE  PendingCountExact'
<1>1. PICK decision \in PolicyDecisions(TenantRules(TenantOfSession(s)), request) :
        approvals' = Put(approvals, a, ApplyPolicy(NewApproval(s, key, request), decision))
  BY DEF CreateApproval
<1> DEFINE item == ApplyPolicy(NewApproval(s, key, request), decision)
<1>2. item.session = s /\ item.status \in {"waiting_decision", "delivering"}
  BY NewApprovalType
<1> HIDE DEF item
<1>3. /\ a \notin DOMAIN approvals
      /\ DOMAIN approvals' = DOMAIN approvals \cup {a}
      /\ approvals'[a] = item
      /\ \A b \in DOMAIN approvals : approvals'[b] = approvals[b]
  BY <1>1 DEF CreateApproval, Put, item
<1>4. /\ LiveOf(s)' = LiveOf(s) \cup {a} /\ a \notin LiveOf(s)
      /\ \A t : t # s => LiveOf(t)' = LiveOf(t)
  BY <1>2, <1>3 DEF LiveOf, Live
<1>5. Cardinality(LiveOf(s)') = Cardinality(LiveOf(s)) + 1
  BY <1>4, LiveOfFinite, FS_AddElement
<1>6. /\ DOMAIN sessions' = DOMAIN sessions /\ s \in DOMAIN sessions
      /\ sessions'[s].pending = sessions[s].pending + 1
      /\ \A t \in DOMAIN sessions \ {s} : sessions'[t] = sessions[t]
  BY DEF CreateApproval, TypeOK, Session
<1>7. QED
  BY <1>4, <1>5, <1>6 DEF PendingCountExact

\* A decision takes an approval from waiting to delivering: it still counts.
LEMMA SubmitPending ==
  ASSUME TypeOK, PendingCountExact, NEW a \in Approvals, NEW key \in Keys,
         NEW decision \in Decisions, SubmitApprovalDecision(a, key, decision)
  PROVE  PendingCountExact'
<1> DEFINE item == Dispatch(approvals[a], decision, "user")
<1>1. /\ a \in DOMAIN approvals /\ approvals[a] \in Approval /\ Live(a)
      /\ item.session = approvals[a].session /\ item.status = "delivering"
  BY DEF SubmitApprovalDecision, AwaitsDecision, TypeOK, Dispatch, Live
<1>2. /\ approvals' = [approvals EXCEPT ![a] = item]
      /\ sessions' = [sessions EXCEPT ![item.session].status = "waiting_approval"]
  BY DEF SubmitApprovalDecision
<1> HIDE DEF item
<1>3. \A s \in DOMAIN sessions : sessions'[s].pending = sessions[s].pending
  BY <1>2 DEF TypeOK, Session
<1>4. /\ DOMAIN approvals' = DOMAIN approvals /\ DOMAIN sessions' = DOMAIN sessions
      /\ \A b \in DOMAIN approvals : approvals'[b].session = approvals[b].session
      /\ \A b \in DOMAIN approvals :
           approvals'[b].status \in {"waiting_decision", "delivering"} <=> Live(b)
  BY <1>1, <1>2 DEF Live, TypeOK
<1>5. QED
  BY <1>3, <1>4, PendingKept

\* An accepted ack ends one live approval and counts one off in its session.
LEMMA AckPending ==
  ASSUME TypeOK, Finite, PendingCountExact, NEW a \in Approvals, NEW s \in Sessions, NEW n,
         NEW result, AckApprovalDecision(a, s, n, result)
  PROVE  PendingCountExact'
<1>1. /\ a \in DOMAIN approvals /\ approvals[a] \in Approval /\ Live(a)
      /\ s = approvals[a].session /\ s \in DOMAIN sessions
  BY DEF AckApprovalDecision, TypeOK, Live
<1>2. /\ DOMAIN approvals' = DOMAIN approvals
      /\ approvals'[a].status \in {"delivered", "delivery_failed"}
      /\ approvals'[a].session = s
      /\ \A b \in DOMAIN approvals \ {a} : approvals'[b] = approvals[b]
  BY <1>1 DEF AckApprovalDecision, TypeOK, Approval
<1>3. /\ DOMAIN sessions' = DOMAIN sessions
      /\ sessions'[s] = ReleasePending(ResumeSession(sessions[s]), 1)
      /\ \A t \in DOMAIN sessions \ {s} : sessions'[t] = sessions[t]
  BY <1>1 DEF AckApprovalDecision, TypeOK
<1>4. QED
  BY <1>1, <1>2, <1>3, PendingReleased

\* A takeover ends one live approval and counts one off in its session.
LEMMA SupersedePending ==
  ASSUME TypeOK, Finite, PendingCountExact, NEW a \in Approvals, SupersedeApproval(a)
  PROVE  PendingCountExact'
<1> DEFINE s == approvals[a].session
<1>1. /\ a \in DOMAIN approvals /\ approvals[a] \in Approval /\ Live(a)
      /\ s \in DOMAIN sessions
  BY DEF SupersedeApproval, AwaitsDecision, TypeOK, Live
<1>2. /\ DOMAIN approvals' = DOMAIN approvals
      /\ approvals'[a].status = "cancelled_by_local_input"
      /\ approvals'[a].session = s
      /\ \A b \in DOMAIN approvals \ {a} : approvals'[b] = approvals[b]
  BY <1>1 DEF SupersedeApproval, TypeOK, Approval
<1>3. /\ DOMAIN sessions' = DOMAIN sessions
      /\ sessions'[s] = ReleasePending(ResumeSession(sessions[s]), 1)
      /\ \A t \in DOMAIN sessions \ {s} : sessions'[t] = sessions[t]
  BY <1>1 DEF SupersedeApproval, TypeOK
<1>4. QED
  BY <1>1, <1>2, <1>3, PendingReleased

\* The approvals that the expiry scan rejects still count: they are being delivered.
LEMMA ExpirePending ==
  ASSUME TypeOK, PendingCountExact, ExpireApprovals
  PROVE  PendingCountExact'
<1>1. \A a \in DOMAIN approvals :
        /\ approvals'[a].session = approvals[a].session
        /\ approvals'[a].status \in {"waiting_decision", "delivering"} <=> Live(a)
  BY DEF ExpireApprovals, ExpirableApprovals, AwaitsDecision, Dispatch, Live
<1>2. \A s \in DOMAIN sessions : sessions'[s].pending = sessions[s].pending
  BY DEF ExpireApprovals, TypeOK, Session
<1>3. DOMAIN approvals' = DOMAIN approvals /\ DOMAIN sessions' = DOMAIN sessions
  BY DEF ExpireApprovals
<1>4. QED
  BY <1>1, <1>2, <1>3, PendingKept

\* The retry scan counts off, in each session, as many approvals as it gave up there.
LEMMA RetryPending ==
  ASSUME TypeOK, Finite, PendingCountExact, RetryDeliveries
  PROVE  PendingCountExact'
<1> DEFINE failedOf(s) == { a \in ExhaustedDeliveries : approvals[a].session = s }
<1> SUFFICES ASSUME NEW s \in DOMAIN sessions
             PROVE  sessions'[s].pending = Cardinality(LiveOf(s)')
  BY DEF PendingCountExact, RetryDeliveries
<1>1. LiveOf(s)' = LiveOf(s) \ failedOf(s)
  <2>1. DOMAIN approvals' = DOMAIN approvals
    BY DEF RetryDeliveries
  <2>2. \A a \in DOMAIN approvals :
          approvals'[a].session = s /\ approvals'[a].status \in {"waiting_decision", "delivering"}
            <=> a \in LiveOf(s) /\ a \notin failedOf(s)
    BY RetryStep DEF LiveOf, Live
  <2>3. QED
    BY <2>1, <2>2 DEF LiveOf, Live
<1>2. failedOf(s) \subseteq LiveOf(s)
  BY DEF ExhaustedDeliveries, OverdueDeliveries, LiveOf, Live
<1>3. /\ sessions[s] \in Session
      /\ sessions[s].pending = Cardinality(LiveOf(s))
  BY DEF TypeOK, PendingCountExact
<1>4. CASE failedOf(s) = {}
  <2>1. sessions'[s] = sessions[s]
    BY <1>4 DEF RetryDeliveries
  <2>2. QED
    BY <1>1, <1>3, <1>4, <2>1
<1>5. CASE failedOf(s) # {}
  <2>1. sessions'[s] = [ReleasePending(sessions[s], Cardinality(failedOf(s)))
                          EXCEPT !.status = "running"]
    BY <1>5 DEF RetryDeliveries
  <2>2. /\ IsFiniteSet(LiveOf(s))
        /\ Cardinality(LiveOf(s)) \in Nat
        /\ Cardinality(failedOf(s)) \in Nat
        /\ Cardinality(failedOf(s)) <= Cardinality(LiveOf(s))
    BY <1>2, LiveOfFinite, FS_Subset, FS_CardinalityType
  <2>3. Cardinality(LiveOf(s) \ failedOf(s)) = Cardinality(LiveOf(s)) - Cardinality(failedOf(s))
    BY <1>2, <2>2, FS_Difference, LiveOf(s) \cap failedOf(s) = failedOf(s)
  <2> HIDE DEF failedOf
  <2>4. sessions'[s].pending = Cardinality(LiveOf(s)) - Cardinality(failedOf(s))
    <3> DEFINE next == ReleasePending(sessions[s], Cardinality(failedOf(s)))
    <3>1. next \in Session
      BY <1>3, <2>2, SessionHelpersType
    <3>2. next.pending = Cardinality(LiveOf(s)) - Cardinality(failedOf(s))
      BY <1>3, <2>2 DEF ReleasePending, Session
    <3>3. sessions'[s] = [next EXCEPT !.status = "running"]
      BY <2>1
    <3> HIDE DEF next
    <3>4. QED
      BY <3>1, <3>2, <3>3 DEF Session
  <2>5. QED
    BY <1>1, <2>3, <2>4
<1>6. QED
  BY <1>4, <1>5

\* Every step of the store keeps every counter equal to what it counts.
LEMMA PendingStep ==
  ASSUME TypeOK, Finite, PendingCountExact, [Next]_vars
  PROVE  PendingCountExact'
<1>1. CASE AgentNext
  <2>1. CASE \E s \in Sessions, status \in SessionReports : UpdateSession(s, status)
    <3>1. /\ DOMAIN sessions' = DOMAIN sessions /\ approvals' = approvals
          /\ \A s \in DOMAIN sessions : sessions'[s].pending = sessions[s].pending
      BY <2>1 DEF UpdateSession, TypeOK, Session
    <3>2. QED
      BY <3>1, PendingKept DEF Live
  <2>2. QED
    BY <1>1, <2>1, CreateSessionPending, CreateApprovalPending, AckPending, SupersedePending
    DEF AgentNext
<1>2. CASE \E a \in Approvals, key \in Keys, decision \in Decisions :
             SubmitApprovalDecision(a, key, decision)
  BY <1>2, SubmitPending
<1>3. CASE WorkerNext
  BY <1>3, ExpirePending, RetryPending DEF WorkerNext
<1>4. CASE UNCHANGED <<approvals, sessions>>
  BY <1>4, PendingKept DEF Live
<1>5. QED
  BY <1>1, <1>2, <1>3, <1>4
  DEF Next, UserNext, ClockNext, vars, DisableDevice, CreatePolicyRule, ExpiryPasses,
      AckTimeoutPasses

\* The pending_approval_count of a session, which clients show and the store only
\* ever adds to and subtracts from, is exactly the number of its approvals that
\* wait for a decision or for an ack, whatever the order of the operations.
THEOREM PendingCountCorrect == Spec => []PendingCountExact
<1>1. Init => TypeOK /\ Finite /\ PendingCountExact
  BY FS_EmptySet DEF Init, TypeOK, Finite, AuditActions, PendingCountExact
<1>2. TypeOK /\ Finite /\ PendingCountExact /\ [Next]_vars
        => TypeOK' /\ Finite' /\ PendingCountExact'
  BY TypeStep, FiniteApprovalsStep, PendingStep DEF Finite
<1>3. QED
  BY <1>1, <1>2, PTL DEF Spec

--------------------------------------------------------------------------------
(* What a step may do to an approval. *)

\* It is decided by a user or by the expiry scan, ...
Decides(old, new) ==
  /\ old.status = "waiting_decision"
  /\ \E decision \in DecisionTypes \ {NoDecision}, actor \in {"user", "system"} :
       new = Dispatch(old, decision, actor)

\* acknowledged or given up, ...
Closes(old, new) ==
  /\ old.status = "delivering"
  /\ \/ new = [old EXCEPT !.status = "delivered", !.deliveryStatus = "acked"]
     \/ new = [old EXCEPT !.status = "delivery_failed", !.deliveryStatus = "failed"]

\* sent again, ...
Resends(old, new) ==
  /\ old.status = "delivering" /\ old.attempts < MaxAttempts
  /\ new = [old EXCEPT !.attempts = @ + 1]

\* or taken over by local input.
Withdraws(old, new) ==
  /\ old.status = "waiting_decision"
  /\ new = [old EXCEPT !.status = "cancelled_by_local_input", !.deliveryStatus = "cancelled",
                       !.decision = "local_input", !.actor = "local"]

Moves(old, new) ==
  \/ new = old
  \/ Decides(old, new)
  \/ Closes(old, new)
  \/ Resends(old, new)
  \/ Withdraws(old, new)

\* Replacing the record of one approval leaves the others alone.
LEMMA OneMoves ==
  ASSUME TypeOK, NEW a \in DOMAIN approvals, NEW item,
         approvals' = [approvals EXCEPT ![a] = item], Moves(approvals[a], item)
  PROVE  \A b \in DOMAIN approvals : Moves(approvals[b], approvals'[b])
BY DEF TypeOK, Moves

\* The decision of a user is one of the five moves.
LEMMA SubmitMoves ==
  ASSUME TypeOK, NEW a \in Approvals, NEW key \in Keys, NEW decision \in Decisions,
         SubmitApprovalDecision(a, key, decision)
  PROVE  \A b \in DOMAIN approvals : Moves(approvals[b], approvals'[b])
<1> DEFINE item == Dispatch(approvals[a], decision, "user")
<1>1. a \in DOMAIN approvals /\ approvals[a].status = "waiting_decision"
  BY DEF SubmitApprovalDecision, AwaitsDecision
<1>2. decision \in DecisionTypes \ {NoDecision}
  BY StoreAssumption DEF DecisionTypes
<1>3. Moves(approvals[a], item)
  BY <1>1, <1>2 DEF Moves, Decides
<1>4. approvals' = [approvals EXCEPT ![a] = item]
  BY DEF SubmitApprovalDecision
<1> HIDE DEF item
<1>5. QED
  BY <1>1, <1>3, <1>4, OneMoves

\* So is an ack.
LEMMA AckMoves ==
  ASSUME TypeOK, NEW a \in Approvals, NEW s, NEW n, NEW result,
         AckApprovalDecision(a, s, n, result)
  PROVE  \A b \in DOMAIN approvals : Moves(approvals[b], approvals'[b])
<1> DEFINE item == [approvals[a] EXCEPT
              !.status = IF AckWritten(result) THEN "delivered" ELSE "delivery_failed",
              !.deliveryStatus = IF AckWritten(result) THEN "acked" ELSE "failed"]
<1>1. a \in DOMAIN approvals /\ approvals[a].status = "delivering"
  BY DEF AckApprovalDecision
<1>2. Moves(approvals[a], item)
  BY <1>1 DEF Moves, Closes
<1>3. approvals' = [approvals EXCEPT ![a] = item]
  BY DEF AckApprovalDecision
<1> HIDE DEF item
<1>4. QED
  BY <1>1, <1>2, <1>3, OneMoves

\* And a takeover.
LEMMA SupersedeMoves ==
  ASSUME TypeOK, NEW a \in Approvals, SupersedeApproval(a)
  PROVE  \A b \in DOMAIN approvals : Moves(approvals[b], approvals'[b])
<1> DEFINE item == [approvals[a] EXCEPT
              !.status = "cancelled_by_local_input", !.deliveryStatus = "cancelled",
              !.decision = "local_input", !.actor = "local"]
<1>1. a \in DOMAIN approvals /\ approvals[a].status = "waiting_decision"
  BY DEF SupersedeApproval, AwaitsDecision
<1>2. Moves(approvals[a], item)
  BY <1>1 DEF Moves, Withdraws
<1>3. approvals' = [approvals EXCEPT ![a] = item]
  BY DEF SupersedeApproval
<1> HIDE DEF item
<1>4. QED
  BY <1>1, <1>2, <1>3, OneMoves

\* The scans move each approval on its own.
LEMMA ExpireMoves ==
  ASSUME ExpireApprovals, NEW b \in DOMAIN approvals
  PROVE  Moves(approvals[b], approvals'[b])
<1>1. approvals'[b] = IF b \in ExpirableApprovals THEN Dispatch(approvals[b], "reject", "system")
                                                  ELSE approvals[b]
  BY DEF ExpireApprovals
<1>2. "reject" \in DecisionTypes \ {NoDecision}
  BY DEF DecisionTypes, NoDecision
<1>3. b \in ExpirableApprovals => approvals[b].status = "waiting_decision"
  BY DEF ExpirableApprovals, AwaitsDecision
<1>4. QED
  BY <1>1, <1>2, <1>3 DEF Moves, Decides

\* The retry scan gives up a delivery at the limit of attempts, and sends the others again.
LEMMA RetryMoves ==
  ASSUME TypeOK, RetryDeliveries, NEW b \in DOMAIN approvals
  PROVE  Moves(approvals[b], approvals'[b])
<1>1. CASE b \in ExhaustedDeliveries
  BY <1>1 DEF RetryDeliveries, ExhaustedDeliveries, OverdueDeliveries, Moves, Closes
<1>2. CASE b \in OverdueDeliveries \ ExhaustedDeliveries
  <2>1. approvals[b] \in Approval /\ approvals[b].status = "delivering"
    BY <1>2 DEF TypeOK, OverdueDeliveries
  <2>2. approvals[b].attempts < MaxAttempts
    BY <1>2, <2>1, StoreAssumption DEF ExhaustedDeliveries, Approval
  <2>3. approvals'[b] = [approvals[b] EXCEPT !.attempts = @ + 1]
    BY <1>2 DEF RetryDeliveries
  <2>4. QED
    BY <2>1, <2>2, <2>3 DEF Moves, Resends
<1>3. CASE b \notin OverdueDeliveries
  BY <1>3 DEF RetryDeliveries, ExhaustedDeliveries, Moves
<1>4. QED
  BY <1>1, <1>2, <1>3

\* A new approval gets an entry of its own; the others stay as they are.
LEMMA CreateForm ==
  ASSUME NEW a \in Approvals, NEW s \in Sessions, NEW key \in Keys \cup {NoKey},
         NEW request \in Requests, CreateApproval(a, s, key, request)
  PROVE  /\ a \notin DOMAIN approvals
         /\ DOMAIN approvals' = DOMAIN approvals \cup {a}
         /\ \A b \in DOMAIN approvals : approvals'[b] = approvals[b]
<1>1. PICK decision \in PolicyDecisions(TenantRules(TenantOfSession(s)), request) :
        approvals' = Put(approvals, a, ApplyPolicy(NewApproval(s, key, request), decision))
  BY DEF CreateApproval
<1>2. a \notin DOMAIN approvals
  BY DEF CreateApproval
<1>3. QED
  BY <1>1, <1>2 DEF Put

\* The other steps that change the map of approvals.
LEMMA StepMoves ==
  ASSUME TypeOK, [Next]_vars, NEW a \in DOMAIN approvals
  PROVE  a \in DOMAIN approvals' /\ Moves(approvals[a], approvals'[a])
<1>1. CASE approvals' = approvals
  BY <1>1 DEF Moves
<1>2. CASE \E x \in Approvals, s \in Sessions, key \in Keys \cup {NoKey}, request \in Requests :
             CreateApproval(x, s, key, request)
  BY <1>2, CreateForm DEF Moves
<1>3. CASE \E x \in Approvals, key \in Keys, decision \in Decisions :
             SubmitApprovalDecision(x, key, decision)
  BY <1>3, SubmitMoves DEF SubmitApprovalDecision
<1>4. CASE \E x \in Approvals, s \in Sessions, n \in 0 .. 1, result \in AckResults :
             AckApprovalDecision(x, s, n, result)
  BY <1>4, AckMoves DEF AckApprovalDecision
<1>5. CASE \E x \in Approvals : SupersedeApproval(x)
  BY <1>5, SupersedeMoves DEF SupersedeApproval
<1>6. CASE ExpireApprovals
  BY <1>6, ExpireMoves DEF ExpireApprovals
<1>7. CASE RetryDeliveries
  BY <1>7, RetryMoves DEF RetryDeliveries
<1>8. QED
  BY <1>1, <1>2, <1>3, <1>4, <1>5, <1>6, <1>7
  DEF Next, AgentNext, UserNext, ClockNext, WorkerNext, vars, CreateSession, UpdateSession,
      DisableDevice, CreatePolicyRule, ExpiryPasses, AckTimeoutPasses

--------------------------------------------------------------------------------
(* One story for status, delivery, author and attempts. *)

\* What DeliveryCoherent says of one approval.
Coherent(item) ==
  /\ item.status \in {"waiting_decision", "cancelled_by_local_input"} <=> item.deliveryNo = 0
  /\ item.deliveryNo \in {0, 1}
  /\ item.attempts > 0 <=> item.deliveryNo = 1
  /\ item.actor = "" <=> item.status = "waiting_decision"
  /\ item.actor = "" <=> item.decision = NoDecision
  /\ item.deliveryStatus =
       CASE item.status = "waiting_decision" -> "pending"
         [] item.status = "delivering" -> "sent"
         [] item.status = "delivered" -> "acked"
         [] item.status = "delivery_failed" -> "failed"
         [] item.status = "cancelled_by_local_input" -> "cancelled"

\* DeliveryCoherent says Coherent of every approval.
LEMMA CoherentAll == DeliveryCoherent <=> \A a \in DOMAIN approvals : Coherent(approvals[a])
BY DEF DeliveryCoherent, Coherent

\* A new approval is coherent, and so is the first decision about one.
LEMMA NewCoherent ==
  ASSUME NEW s, NEW key, NEW request
  PROVE  Coherent(NewApproval(s, key, request))
BY DEF NewApproval, Coherent, NoDecision

\* Whoever decides an approval for the first time, the result is coherent.
LEMMA DispatchCoherent ==
  ASSUME NEW item \in Approval, item.deliveryNo = 0,
         NEW decision \in DecisionTypes \ {NoDecision}, NEW actor \in {"user", "policy", "system"}
  PROVE  Coherent(Dispatch(item, decision, actor))
<1> DEFINE new == Dispatch(item, decision, actor)
<1>1. new \in Approval /\ new.status = "delivering"
  BY DispatchType
<1>2. new.decision = decision /\ new.actor = actor /\ new.deliveryStatus = "sent"
  BY DEF Dispatch
<1>3. new.deliveryNo = item.deliveryNo + 1 /\ new.attempts = 1
  BY DEF Dispatch
<1> HIDE DEF new
<1>4. new.deliveryNo = 1 /\ new.attempts > 0
  BY <1>1, <1>3 DEF Approval
<1>5. new.deliveryStatus =
         CASE new.status = "waiting_decision" -> "pending"
           [] new.status = "delivering" -> "sent"
           [] new.status = "delivered" -> "acked"
           [] new.status = "delivery_failed" -> "failed"
           [] new.status = "cancelled_by_local_input" -> "cancelled"
  BY <1>1, <1>2
<1>6. (new.actor = "" <=> new.status = "waiting_decision")
      /\ (new.actor = "" <=> new.decision = NoDecision)
  BY <1>1, <1>2
<1>7. (new.status \in {"waiting_decision", "cancelled_by_local_input"} <=> new.deliveryNo = 0)
      /\ new.deliveryNo \in {0, 1}
      /\ (new.attempts > 0 <=> new.deliveryNo = 1)
  BY <1>1, <1>4
<1>8. Coherent(new)
  BY <1>5, <1>6, <1>7 DEF Coherent
<1>9. QED
  BY <1>8 DEF new

\* Every move leaves a coherent approval coherent.
LEMMA MovesCoherent ==
  ASSUME NEW old \in Approval, NEW new, Coherent(old), Moves(old, new)
  PROVE  Coherent(new)
<1>1. CASE Decides(old, new)
  <2>1. old.deliveryNo = 0
    BY <1>1 DEF Decides, Coherent
  <2>2. PICK decision \in DecisionTypes \ {NoDecision}, actor \in {"user", "system"} :
          new = Dispatch(old, decision, actor)
    BY <1>1 DEF Decides
  <2>3. QED
    BY <2>1, <2>2, DispatchCoherent
<1>2. CASE Closes(old, new)
  BY <1>2 DEF Closes, Coherent, Approval
<1>3. CASE Resends(old, new)
  <2>1. /\ new.attempts = old.attempts + 1
        /\ new.status = old.status /\ new.deliveryStatus = old.deliveryStatus
        /\ new.deliveryNo = old.deliveryNo
        /\ new.actor = old.actor /\ new.decision = old.decision
    BY <1>3 DEF Resends, Approval
  <2>2. old.attempts \in Nat
    BY StoreAssumption DEF Approval
  <2>3. old.deliveryNo = 1
    BY <1>3 DEF Resends, Coherent
  <2>4. new.attempts > 0
    BY <2>1, <2>2
  <2>5. QED
    BY <2>1, <2>3, <2>4 DEF Coherent
<1>4. CASE Withdraws(old, new)
  BY <1>4 DEF Withdraws, Coherent, Approval, NoDecision
<1>5. QED
  BY <1>1, <1>2, <1>3, <1>4 DEF Moves

\* The records of a step: moved ones, and at most a new one.
LEMMA StepDomain ==
  ASSUME [Next]_vars, NEW a \in DOMAIN approvals' \ DOMAIN approvals
  PROVE  /\ a \in Approvals
         /\ \E s \in Sessions, key \in Keys \cup {NoKey}, request \in Requests :
              CreateApproval(a, s, key, request)
<1>1. \/ DOMAIN approvals' = DOMAIN approvals
      \/ \E x \in Approvals, s \in Sessions, key \in Keys \cup {NoKey}, request \in Requests :
           CreateApproval(x, s, key, request)
  BY DEF Next, AgentNext, UserNext, ClockNext, WorkerNext, vars, CreateSession, UpdateSession,
     AckApprovalDecision, SupersedeApproval, DisableDevice, CreatePolicyRule,
     SubmitApprovalDecision, ExpiryPasses, AckTimeoutPasses, ExpireApprovals, RetryDeliveries
<1>2. PICK x \in Approvals, s \in Sessions, key \in Keys \cup {NoKey}, request \in Requests :
        CreateApproval(x, s, key, request)
  BY <1>1
<1>3. DOMAIN approvals' = DOMAIN approvals \cup {x}
  BY <1>2, CreateForm
<1>4. QED
  BY <1>2, <1>3

\* The new record is well formed and coherent.
LEMMA NewItem ==
  ASSUME NEW s \in Sessions, NEW key \in Keys \cup {NoKey}, NEW request \in Requests
  PROVE  /\ NewApproval(s, key, request) \in Approval
         /\ NewApproval(s, key, request).deliveryNo = 0
         /\ Coherent(NewApproval(s, key, request))
<1>1. NewApproval(s, key, request) \in Approval
  BY StoreAssumption DEF NewApproval, Approval, ApprovalStatuses, DecisionTypes, Actors
<1>2. NewApproval(s, key, request).deliveryNo = 0
  BY DEF NewApproval
<1>3. QED
  BY <1>1, <1>2, NewCoherent

\* CreateApproval makes a coherent record, whatever the policy rules decide.
LEMMA CreateCoherent ==
  ASSUME NEW a \in Approvals, NEW s \in Sessions, NEW key \in Keys \cup {NoKey},
         NEW request \in Requests, CreateApproval(a, s, key, request)
  PROVE  Coherent(approvals'[a])
<1>1. PICK d \in PolicyDecisions(TenantRules(TenantOfSession(s)), request) :
        approvals' = Put(approvals, a, ApplyPolicy(NewApproval(s, key, request), d))
  BY DEF CreateApproval
<1> DEFINE item == NewApproval(s, key, request)
           new == ApplyPolicy(item, d)
<1>2. item \in Approval /\ item.deliveryNo = 0 /\ Coherent(item)
  BY NewItem
<1> HIDE DEF item
<1>3. d = NoDecision => Coherent(new)
  BY <1>2 DEF ApplyPolicy
<1>4. ASSUME d # NoDecision PROVE Coherent(new)
  <2>1. d \in DecisionTypes \ {NoDecision}
    BY <1>4, PolicyDecisionsType DEF DecisionTypes
  <2>2. Coherent(Dispatch(item, d, "policy"))
    BY <1>2, <2>1, DispatchCoherent
  <2>3. QED
    BY <1>4, <2>2 DEF ApplyPolicy
<1>5. Coherent(new)
  BY <1>3, <1>4
<1> HIDE DEF new
<1>6. approvals'[a] = new
  BY <1>1 DEF item, new, Put
<1>7. QED
  BY <1>5, <1>6

\* Whatever step an approval is new in, it is new by CreateApproval, and coherent.
LEMMA CreatedCoherent ==
  ASSUME [Next]_vars, NEW a \in DOMAIN approvals' \ DOMAIN approvals
  PROVE  Coherent(approvals'[a])
BY StepDomain, CreateCoherent

\* So every step leaves every record coherent.
LEMMA CoherentStep ==
  ASSUME TypeOK, DeliveryCoherent, [Next]_vars
  PROVE  DeliveryCoherent'
<1> SUFFICES ASSUME NEW a \in DOMAIN approvals' PROVE Coherent(approvals'[a])
  BY DEF DeliveryCoherent, Coherent
<1>1. CASE a \in DOMAIN approvals
  BY <1>1, CoherentAll, StepMoves, MovesCoherent DEF TypeOK
<1>2. CASE a \notin DOMAIN approvals
  BY <1>2, CreatedCoherent
<1>3. QED
  BY <1>1, <1>2

\* However decisions, timeouts, retries, acks and takeovers follow one another,
\* an approval is sent only with a decision, is decided once, and its delivery
\* status, attempts and author are those its status calls for.
THEOREM DeliveryIsCoherent == Spec => []DeliveryCoherent
<1>1. Init => DeliveryCoherent
  <2>1. Init => DOMAIN approvals = {}
    BY DEF Init
  <2>2. QED
    BY <2>1 DEF DeliveryCoherent
<1>2. TypeOK /\ DeliveryCoherent /\ [Next]_vars => DeliveryCoherent'
  BY CoherentStep
<1>3. QED
  BY <1>1, <1>2, TypeCorrect, PTL DEF Spec

--------------------------------------------------------------------------------
(* Replies to repeated decisions. *)

\* Once decided, an approval keeps its author, its decision and its delivery id.
LEMMA DecidedKept ==
  ASSUME NEW old \in Approval, NEW new, Coherent(old), old.actor # "", Moves(old, new)
  PROVE  new.actor = old.actor /\ new.decision = old.decision /\ new.deliveryNo = old.deliveryNo
<1>1. old.status # "waiting_decision"
  BY DEF Coherent
<1>2. CASE Closes(old, new)
  BY <1>2 DEF Closes, Approval
<1>3. CASE Resends(old, new)
  BY <1>3 DEF Resends, Approval
<1>4. QED
  BY <1>1, <1>2, <1>3 DEF Moves, Decides, Withdraws

\* A step that keeps no new reply keeps the old ones true.
LEMMA RepliesKept ==
  ASSUME TypeOK, DeliveryCoherent, ReplayTellsTheDecision, [Next]_vars, UNCHANGED replays
  PROVE  ReplayTellsTheDecision'
<1> SUFFICES ASSUME NEW a, NEW key \in Keys, <<a, key>> \in DOMAIN replays
             PROVE  /\ approvals'[a].actor = "user"
                    /\ approvals'[a].decision = replays[<<a, key>>].signature
                    /\ approvals'[a].deliveryNo = replays[<<a, key>>].item.deliveryNo
                    /\ \A other \in Keys : <<a, other>> \in DOMAIN replays => other = key
  BY DEF ReplayTellsTheDecision
<1>1. a \in DOMAIN approvals /\ approvals[a] \in Approval
  BY DEF TypeOK
<1>2. /\ approvals[a].actor = "user"
      /\ approvals[a].decision = replays[<<a, key>>].signature
      /\ approvals[a].deliveryNo = replays[<<a, key>>].item.deliveryNo
      /\ \A other \in Keys : <<a, other>> \in DOMAIN replays => other = key
  BY <1>1 DEF ReplayTellsTheDecision
<1>3. Coherent(approvals[a]) /\ Moves(approvals[a], approvals'[a])
  BY <1>1, CoherentAll, StepMoves
<1>4. approvals[a].actor # ""
  BY <1>2
<1>5. QED
  BY <1>1, <1>2, <1>3, <1>4, DecidedKept

\* A decision is accepted for an approval that has no reply yet.
LEMMA SubmitReplies ==
  ASSUME TypeOK, DeliveryCoherent, ReplayTellsTheDecision,
         NEW a \in Approvals, NEW key \in Keys, NEW decision \in Decisions,
         SubmitApprovalDecision(a, key, decision)
  PROVE  ReplayTellsTheDecision'
<1> DEFINE item == Dispatch(approvals[a], decision, "user")
           reply == [signature |-> decision, item |-> item]
<1>1. /\ a \in DOMAIN approvals
      /\ approvals[a].actor = ""
  BY CoherentAll DEF SubmitApprovalDecision, AwaitsDecision, Coherent
<1>2. \A other \in Keys : <<a, other>> \notin DOMAIN replays
  BY <1>1 DEF ReplayTellsTheDecision
<1>3. item.actor = "user" /\ item.decision = decision
  BY DEF Dispatch
<1>4. reply.signature = decision /\ reply.item = item
  OBVIOUS
<1>5. /\ approvals' = [approvals EXCEPT ![a] = item]
      /\ replays' = Put(replays, <<a, key>>, reply)
  BY DEF SubmitApprovalDecision
<1> HIDE DEF item, reply
<1>6. /\ approvals'[a] = item
      /\ \A b \in DOMAIN approvals \ {a} : approvals'[b] = approvals[b]
  BY <1>1, <1>5 DEF TypeOK
<1>7. /\ DOMAIN replays' = DOMAIN replays \cup {<<a, key>>}
      /\ replays'[<<a, key>>] = reply
      /\ \A x \in DOMAIN replays : x # <<a, key>> => replays'[x] = replays[x]
  BY <1>5 DEF Put
<1> SUFFICES ASSUME NEW b, NEW k \in Keys, <<b, k>> \in DOMAIN replays'
             PROVE  /\ approvals'[b].actor = "user"
                    /\ approvals'[b].decision = replays'[<<b, k>>].signature
                    /\ approvals'[b].deliveryNo = replays'[<<b, k>>].item.deliveryNo
                    /\ \A other \in Keys : <<b, other>> \in DOMAIN replays' => other = k
  BY DEF ReplayTellsTheDecision
<1>8. CASE b = a
  <2>1. k = key /\ \A other \in Keys : <<b, other>> \in DOMAIN replays' => other = key
    BY <1>2, <1>7, <1>8
  <2>2. QED
    BY <1>3, <1>4, <1>6, <1>7, <1>8, <2>1
<1>9. CASE b # a
  <2>1. <<b, k>> \in DOMAIN replays /\ replays'[<<b, k>>] = replays[<<b, k>>]
    BY <1>7, <1>9
  <2>2. b \in DOMAIN approvals /\ approvals'[b] = approvals[b]
    BY <1>6, <1>9, <2>1 DEF TypeOK
  <2>3. \A other \in Keys : <<b, other>> \in DOMAIN replays' => <<b, other>> \in DOMAIN replays
    BY <1>7, <1>9
  <2>4. QED
    BY <2>1, <2>2, <2>3 DEF ReplayTellsTheDecision
<1>10. QED
  BY <1>8, <1>9

\* A user who repeats a decision, because the first answer was lost, is told the
\* decision that is in force, whatever the worker and the agent did meanwhile.
THEOREM RepliesTellTheDecision == Spec => []ReplayTellsTheDecision
<1>1. Init => ReplayTellsTheDecision
  <2>1. Init => DOMAIN replays = {}
    BY DEF Init
  <2>2. QED
    BY <2>1 DEF ReplayTellsTheDecision
<1>2. ASSUME TypeOK, DeliveryCoherent, ReplayTellsTheDecision, [Next]_vars
      PROVE  ReplayTellsTheDecision'
  <2>1. CASE \E a \in Approvals, key \in Keys, decision \in Decisions :
               SubmitApprovalDecision(a, key, decision)
    BY <1>2, <2>1, SubmitReplies
  <2>2. CASE UNCHANGED replays
    BY <1>2, <2>2, RepliesKept
  <2>3. QED
    BY <1>2, <2>1, <2>2
    DEF Next, AgentNext, UserNext, ClockNext, WorkerNext, vars, CreateSession, UpdateSession,
        CreateApproval, AckApprovalDecision, SupersedeApproval, DisableDevice, CreatePolicyRule,
        ExpiryPasses, AckTimeoutPasses, ExpireApprovals, RetryDeliveries
<1>3. QED
  BY <1>1, <1>2, TypeCorrect, DeliveryIsCoherent, PTL DEF Spec

--------------------------------------------------------------------------------
(* Idempotency keys. *)

\* A move leaves the session and the key of an approval alone.
LEMMA MovesKeepKey ==
  ASSUME NEW old \in Approval, NEW new, Moves(old, new)
  PROVE  new.session = old.session /\ new.key = old.key
<1>1. CASE Decides(old, new)
  BY <1>1 DEF Decides, Dispatch
<1>2. CASE Closes(old, new) \/ Resends(old, new) \/ Withdraws(old, new)
  BY <1>2 DEF Closes, Resends, Withdraws, Approval
<1>3. QED
  BY <1>1, <1>2 DEF Moves

\* A session stays on its device.
LEMMA DeviceKept ==
  ASSUME TypeOK, [Next]_vars, NEW s \in DOMAIN sessions
  PROVE  s \in DOMAIN sessions' /\ sessions'[s].device = sessions[s].device
<1> sessions[s] \in Session
  BY DEF TypeOK
<1>1. CASE \E t \in Sessions, d \in Devices : CreateSession(t, d)
  BY <1>1 DEF CreateSession, Put
<1>2. CASE \E t \in Sessions, status \in SessionReports : UpdateSession(t, status)
  BY <1>2 DEF UpdateSession, Session
<1>3. CASE \E a \in Approvals, t \in Sessions, key \in Keys \cup {NoKey}, request \in Requests :
             CreateApproval(a, t, key, request)
  BY <1>3 DEF CreateApproval, Session
<1>4. CASE \E a \in Approvals, t \in Sessions, n \in 0 .. 1, result \in AckResults :
             AckApprovalDecision(a, t, n, result)
  BY <1>4 DEF AckApprovalDecision, ReleasePending, ResumeSession, Session
<1>5. CASE \E a \in Approvals : SupersedeApproval(a)
  BY <1>5 DEF SupersedeApproval, ReleasePending, ResumeSession, Session
<1>6. CASE \E a \in Approvals, key \in Keys, decision \in Decisions :
             SubmitApprovalDecision(a, key, decision)
  BY <1>6 DEF SubmitApprovalDecision, Session
<1>7. CASE ExpireApprovals
  BY <1>7 DEF ExpireApprovals, Session
<1>8. CASE RetryDeliveries
  BY <1>8 DEF RetryDeliveries, ReleasePending, Session
<1>9. CASE UNCHANGED sessions
  BY <1>9
<1>10. QED
  BY <1>1, <1>2, <1>3, <1>4, <1>5, <1>6, <1>7, <1>8, <1>9
  DEF Next, AgentNext, UserNext, ClockNext, WorkerNext, vars, DisableDevice, CreatePolicyRule,
      ExpiryPasses, AckTimeoutPasses

\* So the tenant and the key of an approval never change.
LEMMA KeyKept ==
  ASSUME TypeOK, [Next]_vars, NEW a \in DOMAIN approvals
  PROVE  /\ a \in DOMAIN approvals'
         /\ approvals'[a].key = approvals[a].key
         /\ TenantOfSession(approvals[a].session)' = TenantOfSession(approvals[a].session)
<1>1. approvals[a] \in Approval /\ approvals[a].session \in DOMAIN sessions
  BY DEF TypeOK
<1>2. a \in DOMAIN approvals' /\ Moves(approvals[a], approvals'[a])
  BY StepMoves
<1>3. approvals'[a].session = approvals[a].session /\ approvals'[a].key = approvals[a].key
  BY <1>1, <1>2, MovesKeepKey
<1>4. QED
  BY <1>1, <1>2, <1>3, DeviceKept DEF TenantOfSession

\* The key of a new approval is not taken in the tenant.
LEMMA CreatedKey ==
  ASSUME NEW a \in Approvals, NEW s \in Sessions, NEW key \in Keys \cup {NoKey},
         NEW request \in Requests, CreateApproval(a, s, key, request)
  PROVE  /\ approvals'[a].session = s /\ approvals'[a].key = key
         /\ s \in DOMAIN sessions
         /\ key # NoKey => ~ KeyTaken(s, key)
<1>1. PICK d \in PolicyDecisions(TenantRules(TenantOfSession(s)), request) :
        approvals' = Put(approvals, a, ApplyPolicy(NewApproval(s, key, request), d))
  BY DEF CreateApproval
<1> DEFINE new == ApplyPolicy(NewApproval(s, key, request), d)
<1>2. new.session = s /\ new.key = key
  BY DEF ApplyPolicy, NewApproval, Dispatch
<1> HIDE DEF new
<1>3. approvals'[a] = new
  BY <1>1 DEF new, Put
<1>4. QED
  BY <1>2, <1>3 DEF CreateApproval

\* Two approvals of one tenant, one of them new, have different keys.
LEMMA NewKeyDiffers ==
  ASSUME TypeOK, [Next]_vars,
         NEW a \in DOMAIN approvals' \ DOMAIN approvals, NEW b \in DOMAIN approvals,
         approvals'[a].key # NoKey,
         TenantOfSession(approvals[a].session)' = TenantOfSession(approvals[b].session)'
  PROVE  approvals'[a].key # approvals'[b].key
<1>1. PICK s \in Sessions, key \in Keys \cup {NoKey}, request \in Requests :
        CreateApproval(a, s, key, request)
  BY StepDomain
<1>2. a \in Approvals
  BY StepDomain
<1>3. /\ approvals'[a].session = s /\ approvals'[a].key = key
      /\ s \in DOMAIN sessions
      /\ ~ KeyTaken(s, key)
  BY <1>1, <1>2, CreatedKey
<1>4. TenantOfSession(s)' = TenantOfSession(s)
  BY <1>3, DeviceKept DEF TenantOfSession
<1>5. /\ approvals'[b].key = approvals[b].key
      /\ TenantOfSession(approvals[b].session)' = TenantOfSession(approvals[b].session)
  BY KeyKept
<1>6. TenantOfSession(approvals[b].session) = TenantOfSession(s)
  BY <1>3, <1>4, <1>5 DEF TenantOfSession
<1>7. QED
  BY <1>3, <1>5, <1>6 DEF KeyTaken

\* No step makes two approvals of one tenant share a key.
LEMMA KeyStep ==
  ASSUME TypeOK, KeyNamesOneApproval, [Next]_vars
  PROVE  KeyNamesOneApproval'
<1> SUFFICES ASSUME NEW a \in DOMAIN approvals', NEW b \in DOMAIN approvals', a # b,
                    approvals'[a].key # NoKey, approvals'[a].key = approvals'[b].key,
                    TenantOfSession(approvals[a].session)' = TenantOfSession(approvals[b].session)'
             PROVE  FALSE
  BY DEF KeyNamesOneApproval
<1>1. CASE a \in DOMAIN approvals /\ b \in DOMAIN approvals
  BY <1>1, KeyKept DEF KeyNamesOneApproval
<1>2. CASE a \notin DOMAIN approvals /\ b \in DOMAIN approvals
  BY <1>2, NewKeyDiffers
<1>3. CASE a \in DOMAIN approvals /\ b \notin DOMAIN approvals
  BY <1>3, NewKeyDiffers
<1>4. CASE a \notin DOMAIN approvals /\ b \notin DOMAIN approvals
  BY <1>4, StepDomain, CreateForm
<1>5. QED
  BY <1>1, <1>2, <1>3, <1>4

\* An agent that repeats a report after a lost answer, from this session or from
\* another of its tenant, never raises a second approval for one prompt.
THEOREM KeysNameOneApproval == Spec => []KeyNamesOneApproval
<1>1. Init => KeyNamesOneApproval
  <2>1. Init => DOMAIN approvals = {}
    BY DEF Init
  <2>2. QED
    BY <2>1 DEF KeyNamesOneApproval
<1>2. TypeOK /\ KeyNamesOneApproval /\ [Next]_vars => KeyNamesOneApproval'
  BY KeyStep
<1>3. QED
  BY <1>1, <1>2, TypeCorrect, PTL DEF Spec

--------------------------------------------------------------------------------
(* The audit log. *)

\* What AuditTellsTheOutcome says of one approval, whose log entries of the two
\* kinds number t and x.
Audited(item, t, x) ==
  /\ t = (IF item.actor = "system" THEN 1 ELSE 0)
  /\ x <= 1
  /\ x = 1 => item.status = "delivery_failed" /\ item.attempts = MaxAttempts

\* AuditTellsTheOutcome says Audited of every approval.
LEMMA AuditedAll ==
  AuditTellsTheOutcome <=>
    \A a \in DOMAIN approvals :
      Audited(approvals[a], auditLogs["approval.timeout_reject"][a],
              auditLogs["delivery.retry_exhausted"][a])
BY DEF AuditTellsTheOutcome, Audited

\* Nothing is logged for an approval before it exists.
Unlogged ==
  \A a \in Approvals \ DOMAIN approvals :
    /\ auditLogs["approval.timeout_reject"][a] = 0
    /\ auditLogs["delivery.retry_exhausted"][a] = 0

\* A move by which the expiry scan does not decide keeps an audited approval so.
LEMMA MovesAudited ==
  ASSUME NEW old \in Approval, NEW new, Coherent(old), Moves(old, new),
         new.actor = "system" => old.actor = "system",
         NEW t, NEW x, Audited(old, t, x)
  PROVE  Audited(new, t, x)
<1>1. new.actor = "system" <=> old.actor = "system"
  <2>1. CASE old.actor = ""
    BY <2>1
  <2>2. CASE old.actor # ""
    BY <2>2, DecidedKept
  <2>3. QED
    BY <2>1, <2>2
<1>2. old.status = "delivery_failed" => new = old
  BY DEF Moves, Decides, Closes, Resends, Withdraws
<1>3. QED
  BY <1>1, <1>2 DEF Audited

\* Only the expiry scan decides in the name of the system.
LEMMA OthersDecide ==
  ASSUME TypeOK, [Next]_vars, NEW a \in DOMAIN approvals,
         approvals'[a].actor = "system", ~ ExpireApprovals
  PROVE  approvals[a].actor = "system"
<1> approvals[a] \in Approval
  BY DEF TypeOK
<1>1. CASE \E x \in Approvals, s \in Sessions, key \in Keys \cup {NoKey}, request \in Requests :
             CreateApproval(x, s, key, request)
  BY <1>1, CreateForm
<1>2. CASE \E x \in Approvals, key \in Keys, decision \in Decisions :
             SubmitApprovalDecision(x, key, decision)
  BY <1>2 DEF SubmitApprovalDecision, Dispatch
<1>3. CASE \E x \in Approvals, s \in Sessions, n \in 0 .. 1, result \in AckResults :
             AckApprovalDecision(x, s, n, result)
  BY <1>3 DEF AckApprovalDecision, Approval
<1>4. CASE \E x \in Approvals : SupersedeApproval(x)
  BY <1>4 DEF SupersedeApproval, Approval
<1>5. CASE RetryDeliveries
  <2>1. approvals'[a] \in { approvals[a], [approvals[a] EXCEPT !.attempts = @ + 1],
                            [approvals[a] EXCEPT !.status = "delivery_failed",
                                                 !.deliveryStatus = "failed"] }
    BY <1>5 DEF RetryDeliveries
  <2>2. QED
    BY <2>1 DEF Approval
<1>6. CASE UNCHANGED approvals
  BY <1>6
<1>7. QED
  BY <1>1, <1>2, <1>3, <1>4, <1>5, <1>6
  DEF Next, AgentNext, UserNext, ClockNext, WorkerNext, vars, CreateSession, UpdateSession,
      DisableDevice, CreatePolicyRule, ExpiryPasses, AckTimeoutPasses

\* A new approval was not decided by the system.
LEMMA CreatedActor ==
  ASSUME [Next]_vars, NEW a \in DOMAIN approvals' \ DOMAIN approvals
  PROVE  approvals'[a].actor # "system" /\ UNCHANGED auditLogs
<1>1. PICK s \in Sessions, key \in Keys \cup {NoKey}, request \in Requests :
        CreateApproval(a, s, key, request)
  BY StepDomain
<1>2. PICK d \in PolicyDecisions(TenantRules(TenantOfSession(s)), request) :
        approvals' = Put(approvals, a, ApplyPolicy(NewApproval(s, key, request), d))
  BY <1>1 DEF CreateApproval
<1>3. ApplyPolicy(NewApproval(s, key, request), d).actor \in {"", "policy"}
  BY DEF ApplyPolicy, NewApproval, Dispatch
<1>4. QED
  BY <1>1, <1>2, <1>3 DEF Put, CreateApproval

\* Steps that log nothing.
LEMMA AuditKept ==
  ASSUME TypeOK, DeliveryCoherent, AuditTellsTheOutcome, Unlogged, [Next]_vars,
         ~ ExpireApprovals, UNCHANGED auditLogs
  PROVE  AuditTellsTheOutcome' /\ Unlogged'
<1>1. \A a \in DOMAIN approvals : a \in DOMAIN approvals'
  BY StepMoves
<1>2. Unlogged'
  BY <1>1 DEF Unlogged
<1> DEFINE t(a) == auditLogs["approval.timeout_reject"][a]
           x(a) == auditLogs["delivery.retry_exhausted"][a]
<1>3. ASSUME NEW a \in DOMAIN approvals
      PROVE  Audited(approvals'[a], t(a), x(a))
  <2>1. approvals[a] \in Approval /\ Coherent(approvals[a])
    BY CoherentAll DEF TypeOK
  <2>2. Audited(approvals[a], t(a), x(a))
    BY AuditedAll
  <2>3. QED
    BY <2>1, <2>2, StepMoves, OthersDecide, MovesAudited
<1>4. ASSUME NEW a \in DOMAIN approvals' \ DOMAIN approvals
      PROVE  Audited(approvals'[a], t(a), x(a))
  <2>1. t(a) = 0 /\ x(a) = 0
    BY StepDomain DEF Unlogged
  <2>2. approvals'[a].actor # "system"
    BY CreatedActor
  <2>3. QED
    BY <2>1, <2>2 DEF Audited
<1>5. AuditTellsTheOutcome'
  <2>1. \A a \in DOMAIN approvals' : Audited(approvals'[a], t(a), x(a))
    BY <1>3, <1>4
  <2>2. QED
    BY <2>1 DEF AuditTellsTheOutcome, Audited
<1>6. QED
  BY <1>2, <1>5

\* What one entry adds to the log.
LEMMA LogEntry ==
  ASSUME TypeOK, NEW action \in AuditActions, NEW S, Log(action, S), NEW a \in Approvals
  PROVE  /\ auditLogs'[action][a] = auditLogs[action][a] + (IF a \in S THEN 1 ELSE 0)
         /\ \A other \in AuditActions \ {action} : auditLogs'[other][a] = auditLogs[other][a]
BY DEF Log, TypeOK

\* The expiry scan logs each approval it rejects, which was not logged before.
LEMMA AuditExpire ==
  ASSUME TypeOK, DeliveryCoherent, AuditTellsTheOutcome, Unlogged, ExpireApprovals
  PROVE  AuditTellsTheOutcome' /\ Unlogged'
<1>1. /\ DOMAIN approvals' = DOMAIN approvals
      /\ Log("approval.timeout_reject", ExpirableApprovals)
      /\ \A a \in DOMAIN approvals : approvals'[a] =
           IF a \in ExpirableApprovals THEN Dispatch(approvals[a], "reject", "system")
                                       ELSE approvals[a]
  BY DEF ExpireApprovals
<1>2. \A a \in Approvals :
        /\ auditLogs'["approval.timeout_reject"][a] =
             auditLogs["approval.timeout_reject"][a] + (IF a \in ExpirableApprovals THEN 1 ELSE 0)
        /\ auditLogs'["delivery.retry_exhausted"][a] = auditLogs["delivery.retry_exhausted"][a]
  BY <1>1, LogEntry DEF AuditActions
<1>3. ExpirableApprovals \subseteq DOMAIN approvals
  BY DEF ExpirableApprovals
<1>4. Unlogged'
  BY <1>1, <1>2, <1>3 DEF Unlogged
<1>5. ASSUME NEW a \in DOMAIN approvals
      PROVE  Audited(approvals'[a], auditLogs'["approval.timeout_reject"][a],
                     auditLogs'["delivery.retry_exhausted"][a])
  <2>1. a \in Approvals /\ Coherent(approvals[a])
    BY CoherentAll DEF TypeOK
  <2>2. Audited(approvals[a], auditLogs["approval.timeout_reject"][a],
                auditLogs["delivery.retry_exhausted"][a])
    BY AuditedAll
  <2>3. CASE a \notin ExpirableApprovals
    <3>1. auditLogs["approval.timeout_reject"][a] \in Nat
      BY <2>1 DEF TypeOK, AuditActions
    <3>2. QED
      BY <1>1, <1>2, <2>1, <2>2, <2>3, <3>1
  <2>4. CASE a \in ExpirableApprovals
    <3>1. approvals[a].status = "waiting_decision" /\ approvals[a].actor = ""
      BY <2>1, <2>4 DEF ExpirableApprovals, AwaitsDecision, Coherent
    <3>2. auditLogs'["approval.timeout_reject"][a] = 1
      <4>1. auditLogs["approval.timeout_reject"][a] = 0
        BY <2>2, <3>1 DEF Audited
      <4>2. QED
        BY <1>2, <2>1, <2>4, <4>1
    <3>3. /\ auditLogs'["delivery.retry_exhausted"][a] <= 1
          /\ auditLogs'["delivery.retry_exhausted"][a] # 1
      BY <1>2, <2>1, <2>2, <3>1 DEF Audited
    <3>4. approvals'[a].actor = "system"
      BY <1>1, <2>4 DEF Dispatch
    <3>5. QED
      BY <3>2, <3>3, <3>4 DEF Audited
  <2>5. QED
    BY <2>3, <2>4
<1>6. AuditTellsTheOutcome'
  BY <1>1, <1>5 DEF AuditTellsTheOutcome, Audited
<1>7. QED
  BY <1>4, <1>6

\* The retry scan logs each delivery it gives up, at the limit of attempts.
LEMMA AuditRetry ==
  ASSUME TypeOK, DeliveryCoherent, AuditTellsTheOutcome, Unlogged, RetryDeliveries
  PROVE  AuditTellsTheOutcome' /\ Unlogged'
<1>1. /\ DOMAIN approvals' = DOMAIN approvals
      /\ Log("delivery.retry_exhausted", ExhaustedDeliveries)
  BY DEF RetryDeliveries
<1>2. \A a \in Approvals :
        /\ auditLogs'["delivery.retry_exhausted"][a] =
             auditLogs["delivery.retry_exhausted"][a] + (IF a \in ExhaustedDeliveries THEN 1 ELSE 0)
        /\ auditLogs'["approval.timeout_reject"][a] = auditLogs["approval.timeout_reject"][a]
  BY <1>1, LogEntry DEF AuditActions
<1>3. ExhaustedDeliveries \subseteq DOMAIN approvals
  BY DEF ExhaustedDeliveries, OverdueDeliveries
<1>4. Unlogged'
  BY <1>1, <1>2, <1>3 DEF Unlogged
<1>5. ASSUME NEW a \in DOMAIN approvals
      PROVE  Audited(approvals'[a], auditLogs'["approval.timeout_reject"][a],
                     auditLogs'["delivery.retry_exhausted"][a])
  <2>1. a \in Approvals /\ approvals[a] \in Approval
    BY DEF TypeOK
  <2>2. /\ Audited(approvals[a], auditLogs["approval.timeout_reject"][a],
                   auditLogs["delivery.retry_exhausted"][a])
        /\ auditLogs["delivery.retry_exhausted"][a] \in Nat
    BY <2>1, AuditedAll DEF TypeOK, AuditActions
  <2>3. CASE a \notin ExhaustedDeliveries
    <3>1. /\ approvals'[a].status = approvals[a].status
          /\ approvals'[a].actor = approvals[a].actor
          /\ approvals[a].status = "delivery_failed" => approvals'[a] = approvals[a]
      <4>1. \/ approvals'[a] = approvals[a]
            \/ /\ approvals[a].status = "delivering"
               /\ approvals'[a] = [approvals[a] EXCEPT !.attempts = @ + 1]
        BY <2>3 DEF RetryDeliveries, OverdueDeliveries
      <4>2. QED
        BY <2>1, <4>1 DEF Approval
    <3>2. QED
      BY <1>2, <2>1, <2>2, <2>3, <3>1 DEF Audited
  <2>4. CASE a \in ExhaustedDeliveries
    <3>1. /\ approvals[a].status = "delivering"
          /\ approvals[a].attempts = MaxAttempts
      BY <2>1, <2>4, StoreAssumption DEF ExhaustedDeliveries, OverdueDeliveries, Approval
    <3>2. auditLogs["delivery.retry_exhausted"][a] = 0
      BY <2>2, <3>1 DEF Audited
    <3>3. /\ approvals'[a].status = "delivery_failed"
          /\ approvals'[a].attempts = approvals[a].attempts
          /\ approvals'[a].actor = approvals[a].actor
      BY <2>1, <2>4 DEF RetryDeliveries, Approval
    <3>4. QED
      BY <1>2, <2>1, <2>2, <2>4, <3>1, <3>2, <3>3 DEF Audited
  <2>5. QED
    BY <2>3, <2>4
<1>6. AuditTellsTheOutcome'
  BY <1>1, <1>5 DEF AuditTellsTheOutcome, Audited
<1>7. QED
  BY <1>4, <1>6

\* The worker's log is a true account of what it decided and gave up: one entry for
\* each approval it rejected, at most one for a delivery out of attempts.
THEOREM AuditIsTrue == Spec => []AuditTellsTheOutcome
<1>1. Init => AuditTellsTheOutcome /\ Unlogged
  <2>1. Init => DOMAIN approvals = {}
    BY DEF Init
  <2>2. Init => AuditTellsTheOutcome
    BY <2>1 DEF AuditTellsTheOutcome
  <2>3. Init => Unlogged
    BY DEF Init, Unlogged, AuditActions
  <2>4. QED
    BY <2>2, <2>3
<1>2. ASSUME TypeOK, DeliveryCoherent, AuditTellsTheOutcome, Unlogged, [Next]_vars
      PROVE  AuditTellsTheOutcome' /\ Unlogged'
  <2>1. CASE ExpireApprovals
    BY <1>2, <2>1, AuditExpire
  <2>2. CASE RetryDeliveries
    BY <1>2, <2>2, AuditRetry
  <2>3. CASE UNCHANGED auditLogs /\ ~ ExpireApprovals
    BY <1>2, <2>3, AuditKept
  <2>4. QED
    BY <1>2, <2>1, <2>2, <2>3
    DEF Next, AgentNext, UserNext, ClockNext, WorkerNext, vars, CreateSession, UpdateSession,
        CreateApproval, SubmitApprovalDecision, AckApprovalDecision, SupersedeApproval,
        DisableDevice, CreatePolicyRule, ExpiryPasses, AckTimeoutPasses
<1>3. QED
  BY <1>1, <1>2, TypeCorrect, DeliveryIsCoherent, PTL DEF Spec
--------------------------------------------------------------------------------
(* What the policy decides. *)

\* rule lets the policy decide item as it did, and no manual rule comes before it.
Backs(rule, rules, item) ==
  /\ rule \in rules
  /\ PolicyRuleMatches(rule, item.request)
  /\ PolicyVerdict(rule, item.request) = item.decision
  /\ ~ \E m \in rules : /\ PolicyRuleMatches(m, item.request)
                        /\ m.decision = "manual"
                        /\ SortsBefore(m, rule)

\* A decision reached by the loop is the verdict of the rule it stopped at.
LEMMA LoopStops ==
  ASSUME NEW rules, NEW request, NEW d \in PolicyDecisions(rules, request), d # NoDecision
  PROVE  \E r \in rules :
           /\ PolicyRuleMatches(r, request)
           /\ PolicyVerdict(r, request) = d
           /\ ~ \E m \in rules : /\ PolicyRuleMatches(m, request)
                                 /\ m.decision = "manual"
                                 /\ SortsBefore(m, r)
<1> DEFINE stops == StoppingRules(rules, request)
           first == { r \in stops : \A o \in stops : ~ SortsBefore(o, r) }
<1>1. PICK r \in first : PolicyVerdict(r, request) = d
  BY DEF PolicyDecisions
<1>2. r \in rules /\ PolicyRuleMatches(r, request)
  BY <1>1 DEF StoppingRules
<1>3. ASSUME NEW m \in rules, PolicyRuleMatches(m, request), m.decision = "manual"
      PROVE  ~ SortsBefore(m, r)
  <2>1. m \in stops
    BY <1>3 DEF StoppingRules
  <2>2. QED
    BY <1>1, <2>1
<1>4. QED
  BY <1>1, <1>2, <1>3

\* When the policy decides a new approval, a rule of its tenant backs it.
LEMMA CreatedBacked ==
  ASSUME TypeOK, [Next]_vars, NEW a \in DOMAIN approvals' \ DOMAIN approvals,
         approvals'[a].actor = "policy"
  PROVE  /\ approvals'[a].session \in DOMAIN sessions
         /\ UNCHANGED policyRules
         /\ \E r \in policyRules :
              Backs(r, TenantRules(TenantOfSession(approvals'[a].session)), approvals'[a])
<1>1. PICK s \in Sessions, key \in Keys \cup {NoKey}, request \in Requests :
        CreateApproval(a, s, key, request)
  BY StepDomain
<1> DEFINE rules == TenantRules(TenantOfSession(s))
<1>2. PICK d \in PolicyDecisions(rules, request) :
        approvals' = Put(approvals, a, ApplyPolicy(NewApproval(s, key, request), d))
  BY <1>1 DEF CreateApproval
<1>3. approvals'[a] = ApplyPolicy(NewApproval(s, key, request), d)
  BY <1>2 DEF Put
<1>4. /\ d # NoDecision
      /\ approvals'[a].session = s /\ approvals'[a].request = request
      /\ approvals'[a].decision = d
  <2>1. NewApproval(s, key, request).actor # "policy"
    BY DEF NewApproval
  <2>2. d # NoDecision
    BY <1>3, <2>1 DEF ApplyPolicy
  <2>3. approvals'[a] = Dispatch(NewApproval(s, key, request), d, "policy")
    BY <1>3, <2>2 DEF ApplyPolicy
  <2>4. QED
    BY <2>2, <2>3 DEF NewApproval, Dispatch
<1>5. PICK r \in rules :
        /\ PolicyRuleMatches(r, request)
        /\ PolicyVerdict(r, request) = d
        /\ ~ \E m \in rules : /\ PolicyRuleMatches(m, request)
                              /\ m.decision = "manual"
                              /\ SortsBefore(m, r)
  BY <1>4, LoopStops
<1>6. r \in policyRules
  BY DEF TenantRules
<1>7. Backs(r, rules, approvals'[a])
  BY <1>4, <1>5 DEF Backs
<1>8. s \in DOMAIN sessions /\ UNCHANGED policyRules
  BY <1>1 DEF CreateApproval
<1>9. QED
  BY <1>4, <1>6, <1>7, <1>8

\* However rules tie and whenever they are added, the policy decides a new approval by
\* a rule that no manual rule for the same approval precedes.
THEOREM ManualRulesPrevail == Spec => ManualRulePrevails
<1>1. TypeOK /\ [Next]_vars =>
        [\A a \in DOMAIN approvals' \ DOMAIN approvals :
           LET item == approvals'[a]
               rules == { r \in TenantRules(TenantOfSession(item.session)) :
                            PolicyRuleMatches(r, item.request) }
           IN  item.actor = "policy" =>
                 \E r \in rules : /\ PolicyVerdict(r, item.request) = item.decision
                                  /\ ~ \E m \in rules : m.decision = "manual" /\ SortsBefore(m, r)]_vars
  BY CreatedBacked DEF Backs
<1>2. QED
  BY <1>1, TypeCorrect, PTL DEF Spec, ManualRulePrevails

\* What PolicyStaysInBounds says of one approval of a tenant.
InBounds(item, rules, tenant) ==
  item.actor = "policy" =>
    \E r \in rules :
      /\ r.tenant = tenant
      /\ PolicyRuleMatches(r, item.request)
      /\ \/ item.decision = "policy_reject" /\ r.decision = "auto_reject"
         \/ /\ item.decision = "policy_approve" /\ r.decision = "auto_approve"
            /\ item.request.riskLevel \notin GuardedRisks

\* A verdict is a rejection, or an approval of a risk that is not guarded.
LEMMA Verdicts ==
  ASSUME NEW rule, NEW request, PolicyVerdict(rule, request) # NoDecision
  PROVE  \/ PolicyVerdict(rule, request) = "policy_reject" /\ rule.decision = "auto_reject"
         \/ /\ PolicyVerdict(rule, request) = "policy_approve" /\ rule.decision = "auto_approve"
            /\ request.riskLevel \notin GuardedRisks
BY DEF PolicyVerdict

\* A move leaves an approval that the policy decided with its decision, and makes no other.
LEMMA MovesInBounds ==
  ASSUME NEW old \in Approval, NEW new, Coherent(old), Moves(old, new),
         NEW rules, NEW more, rules \subseteq more, NEW tenant, InBounds(old, rules, tenant)
  PROVE  InBounds(new, more, tenant)
<1>1. new.actor = "policy" =>
        old.actor = "policy" /\ new.decision = old.decision /\ new.request = old.request
  <2>1. CASE Decides(old, new)
    BY <2>1 DEF Decides, Dispatch
  <2>2. CASE Closes(old, new) \/ Resends(old, new) \/ Withdraws(old, new)
    BY <2>2 DEF Closes, Resends, Withdraws, Approval
  <2>3. QED
    BY <2>1, <2>2 DEF Moves
<1>2. QED
  BY <1>1 DEF InBounds

\* Rules are only ever added.
LEMMA RulesGrow ==
  ASSUME [Next]_vars
  PROVE  policyRules \subseteq policyRules'
BY DEF Next, AgentNext, UserNext, ClockNext, WorkerNext, vars, CreateSession, UpdateSession,
       CreateApproval, SubmitApprovalDecision, AckApprovalDecision, SupersedeApproval,
       DisableDevice, CreatePolicyRule, ExpiryPasses, AckTimeoutPasses, ExpireApprovals,
       RetryDeliveries

\* A new approval that the policy decided is within bounds.
LEMMA CreatedInBounds ==
  ASSUME TypeOK, TypeOK', DeliveryCoherent', [Next]_vars,
         NEW a \in DOMAIN approvals' \ DOMAIN approvals
  PROVE  InBounds(approvals'[a], policyRules', TenantOfSession(approvals[a].session)')
<1> SUFFICES ASSUME approvals'[a].actor = "policy"
             PROVE  InBounds(approvals'[a], policyRules', TenantOfSession(approvals[a].session)')
  BY DEF InBounds
<1> DEFINE s == approvals'[a].session
<1>1. s \in DOMAIN sessions /\ UNCHANGED policyRules
  BY CreatedBacked
<1>2. PICK r \in policyRules : Backs(r, TenantRules(TenantOfSession(s)), approvals'[a])
  BY CreatedBacked
<1>3. approvals'[a].decision # NoDecision
  BY DEF DeliveryCoherent
<1>4. /\ r.tenant = TenantOfSession(s)
      /\ PolicyRuleMatches(r, approvals'[a].request)
      /\ PolicyVerdict(r, approvals'[a].request) = approvals'[a].decision
  BY <1>2 DEF Backs, TenantRules
<1>5. TenantOfSession(approvals[a].session)' = TenantOfSession(s)
  BY <1>1, DeviceKept DEF TenantOfSession
<1>6. QED
  BY <1>1, <1>3, <1>4, <1>5, Verdicts DEF InBounds

\* The policy decides by a rule of the approval's own tenant, never approves a high or
\* critical risk, and no later step rewrites what it decided.
THEOREM PolicyWithinBounds == Spec => []PolicyStaysInBounds
<1>1. Init => PolicyStaysInBounds
  <2>1. Init => DOMAIN approvals = {}
    BY DEF Init
  <2>2. QED
    BY <2>1 DEF PolicyStaysInBounds
<1>2. ASSUME TypeOK, TypeOK', DeliveryCoherent, DeliveryCoherent', PolicyStaysInBounds,
             [Next]_vars
      PROVE  PolicyStaysInBounds'
  <2>1. ASSUME NEW a \in DOMAIN approvals
        PROVE  InBounds(approvals'[a], policyRules', TenantOfSession(approvals[a].session)')
    <3>1. approvals[a] \in Approval /\ Coherent(approvals[a])
      BY <1>2, CoherentAll DEF TypeOK
    <3>2. Moves(approvals[a], approvals'[a])
      BY <1>2, StepMoves
    <3>3. InBounds(approvals[a], policyRules, TenantOfSession(approvals[a].session))
      BY <1>2 DEF PolicyStaysInBounds, InBounds
    <3>4. TenantOfSession(approvals[a].session)' = TenantOfSession(approvals[a].session)
      BY <1>2, KeyKept
    <3>5. policyRules \subseteq policyRules'
      BY <1>2, RulesGrow
    <3>6. QED
      BY <3>1, <3>2, <3>3, <3>4, <3>5, MovesInBounds
  <2>2. ASSUME NEW a \in DOMAIN approvals' \ DOMAIN approvals
        PROVE  InBounds(approvals'[a], policyRules', TenantOfSession(approvals[a].session)')
    BY <1>2, CreatedInBounds
  <2>3. QED
    BY <2>1, <2>2 DEF PolicyStaysInBounds, InBounds
<1>3. QED
  BY <1>1, <1>2, TypeCorrect, DeliveryIsCoherent, PTL DEF Spec

--------------------------------------------------------------------------------
(* The ledger of the abstract specification. *)

\* The ledger's entry for one record of the store.
View(item) ==
  [owner |-> item.session, phase |-> PhaseOf(item.status),
   decision |-> item.decision, by |-> item.actor]

\* The ledger, before and after a step, is the view of each record.
LEMMA LedgerViews ==
  /\ DOMAIN Ledger = DOMAIN approvals
  /\ \A a \in DOMAIN approvals : Ledger[a] = View(approvals[a])
  /\ DOMAIN Ledger' = DOMAIN approvals'
  /\ \A a \in DOMAIN approvals' : Ledger'[a] = View(approvals'[a])
BY DEF Ledger, View

\* A step that keeps every record keeps the ledger.
LEMMA Stutters ==
  ASSUME DOMAIN approvals' = DOMAIN approvals,
         \A a \in DOMAIN approvals : View(approvals'[a]) = View(approvals[a])
  PROVE  UNCHANGED Ledger
BY DEF Ledger, View

\* A well-formed record has a well-formed entry.
LEMMA ViewType ==
  ASSUME NEW item \in Approval
  PROVE  /\ View(item) \in Lifecycle!Entry
         /\ View(item).owner = item.session /\ View(item).phase = PhaseOf(item.status)
         /\ View(item).decision = item.decision /\ View(item).by = item.actor
<1>1. PhaseOf(item.status) \in {"open", "decided", "done", "failed", "withdrawn"}
  BY DEF PhaseOf, Approval, ApprovalStatuses
<1>2. QED
  BY <1>1 DEF View, Approval, Lifecycle!Entry

\* The phases of the five statuses.
LEMMA Phases ==
  /\ PhaseOf("waiting_decision") = "open"
  /\ PhaseOf("delivering") = "decided"
  /\ PhaseOf("delivered") = "done"
  /\ PhaseOf("delivery_failed") = "failed"
  /\ PhaseOf("cancelled_by_local_input") = "withdrawn"
BY DEF PhaseOf

\* Approvals that change their status together make an abstract move.
LEMMA MovesTogether ==
  ASSUME TypeOK, NEW S, S \subseteq DOMAIN approvals, S # {}, NEW from, NEW to,
         DOMAIN approvals' = DOMAIN approvals,
         \A a \in DOMAIN approvals \ S : View(approvals'[a]) = View(approvals[a]),
         \A a \in S : /\ PhaseOf(approvals[a].status) = from
                      /\ PhaseOf(approvals'[a].status) = to
                      /\ approvals'[a] \in Approval
                      /\ approvals'[a].session = approvals[a].session
  PROVE  Lifecycle!Move(S, from, to)
<1>1. \A a \in S : a \in DOMAIN Ledger /\ Ledger[a].phase = from
  BY LedgerViews DEF View
<1>2. DOMAIN Ledger' = DOMAIN Ledger
  BY LedgerViews
<1>3. \A a \in DOMAIN Ledger \ S : Ledger'[a] = Ledger[a]
  BY LedgerViews
<1>4. ASSUME NEW a \in S
      PROVE  /\ Ledger'[a] \in Lifecycle!Entry
             /\ Ledger'[a].owner = Ledger[a].owner
             /\ Ledger'[a].phase = to
  BY LedgerViews, ViewType DEF View
<1>5. QED
  BY <1>1, <1>2, <1>3, <1>4 DEF Lifecycle!Move

\* CreateApproval raises.
LEMMA CreateRaises ==
  ASSUME TypeOK, TypeOK', DeliveryCoherent',
         NEW a \in Approvals, NEW s \in Sessions, NEW key \in Keys \cup {NoKey},
         NEW request \in Requests, CreateApproval(a, s, key, request)
  PROVE  Lifecycle!Raise(a)
<1>1. /\ a \notin DOMAIN approvals
      /\ DOMAIN approvals' = DOMAIN approvals \cup {a}
      /\ \A b \in DOMAIN approvals : approvals'[b] = approvals[b]
  BY CreateForm
<1>2. PICK d \in PolicyDecisions(TenantRules(TenantOfSession(s)), request) :
        approvals' = Put(approvals, a, ApplyPolicy(NewApproval(s, key, request), d))
  BY DEF CreateApproval
<1>3. ApplyPolicy(NewApproval(s, key, request), d).status \in {"waiting_decision", "delivering"}
  BY DEF ApplyPolicy, NewApproval, Dispatch
<1>4. approvals'[a].status \in {"waiting_decision", "delivering"}
  BY <1>2, <1>3 DEF Put
<1>5. /\ approvals'[a] \in Approval
      /\ approvals'[a].decision = NoDecision <=> approvals'[a].status = "waiting_decision"
  BY <1>1 DEF TypeOK, DeliveryCoherent
<1>6. /\ a \notin DOMAIN Ledger
      /\ DOMAIN Ledger' = DOMAIN Ledger \cup {a}
      /\ \A b \in DOMAIN Ledger : Ledger'[b] = Ledger[b]
  BY <1>1, LedgerViews
<1>7. Ledger'[a] = View(approvals'[a])
  BY <1>1, LedgerViews
<1>8. /\ Ledger'[a] \in Lifecycle!Entry
      /\ Ledger'[a].phase = PhaseOf(approvals'[a].status)
      /\ Ledger'[a].decision = approvals'[a].decision
  BY <1>5, <1>7, ViewType
<1>9. \/ Ledger'[a].phase = "open" /\ Ledger'[a].decision = NoDecision
      \/ Ledger'[a].phase = "decided" /\ Ledger'[a].decision # NoDecision
  BY <1>4, <1>5, <1>8, Phases
<1>10. QED
  BY <1>6, <1>8, <1>9 DEF Lifecycle!Raise, Lifecycle!NoDecision, NoDecision

\* Approvals that are decided together, by a user or by the scan, make one Decide.
LEMMA DecideTogether ==
  ASSUME TypeOK, TypeOK', NEW S, S \subseteq DOMAIN approvals, S # {},
         DOMAIN approvals' = DOMAIN approvals,
         \A a \in DOMAIN approvals \ S : approvals'[a] = approvals[a],
         \A a \in S : Decides(approvals[a], approvals'[a])
  PROVE  Lifecycle!Decide(S)
<1>1. ASSUME NEW a \in S
      PROVE  /\ PhaseOf(approvals[a].status) = "open"
             /\ PhaseOf(approvals'[a].status) = "decided"
             /\ approvals'[a] \in Approval
             /\ approvals'[a].session = approvals[a].session
             /\ approvals'[a].decision # NoDecision
  <2>1. approvals[a].status = "waiting_decision"
    BY DEF Decides
  <2>2. PICK d \in DecisionTypes \ {NoDecision}, actor \in {"user", "system"} :
          approvals'[a] = Dispatch(approvals[a], d, actor)
    BY DEF Decides
  <2>3. /\ approvals'[a].status = "delivering" /\ approvals'[a].decision = d
        /\ approvals'[a].session = approvals[a].session
    BY <2>2 DEF Dispatch
  <2>4. QED
    BY <2>1, <2>3, Phases DEF TypeOK
<1>2. Lifecycle!Move(S, "open", "decided")
  BY <1>1, MovesTogether
<1>3. \A a \in S : Ledger'[a].decision # NoDecision
  BY <1>1, LedgerViews DEF View
<1>4. QED
  BY <1>2, <1>3 DEF Lifecycle!Decide, Lifecycle!NoDecision, NoDecision

\* Deliveries that end together, in the same way, make one Close.
LEMMA CloseTogether ==
  ASSUME TypeOK, TypeOK', NEW S, S \subseteq DOMAIN approvals, S # {},
         NEW status \in {"delivered", "delivery_failed"},
         DOMAIN approvals' = DOMAIN approvals,
         \A a \in DOMAIN approvals \ S : View(approvals'[a]) = View(approvals[a]),
         \A a \in S : /\ Closes(approvals[a], approvals'[a])
                      /\ approvals'[a].status = status
  PROVE  Lifecycle!Close(S)
<1>1. ASSUME NEW a \in S
      PROVE  /\ PhaseOf(approvals[a].status) = "decided"
             /\ PhaseOf(approvals'[a].status) = PhaseOf(status)
             /\ approvals'[a] \in Approval
             /\ approvals'[a].session = approvals[a].session
             /\ approvals'[a].decision = approvals[a].decision
             /\ approvals'[a].actor = approvals[a].actor
  <2>1. approvals[a] \in Approval /\ approvals'[a] \in Approval
    BY DEF TypeOK
  <2>2. approvals[a].status = "delivering"
    BY DEF Closes
  <2>3. /\ approvals'[a].session = approvals[a].session
        /\ approvals'[a].decision = approvals[a].decision
        /\ approvals'[a].actor = approvals[a].actor
    BY <2>1 DEF Closes, Approval
  <2>4. QED
    BY <2>1, <2>2, <2>3, Phases
<1>2. Lifecycle!Move(S, "decided", PhaseOf(status))
  BY <1>1, MovesTogether
<1>3. PhaseOf(status) \in {"done", "failed"}
  BY Phases
<1>4. Lifecycle!KeepsDecision(S)
  BY <1>1, LedgerViews DEF Lifecycle!KeepsDecision, View
<1>5. QED
  BY <1>2, <1>3, <1>4 DEF Lifecycle!Close

\* SubmitApprovalDecision decides one approval.
LEMMA SubmitDecides ==
  ASSUME TypeOK, TypeOK', NEW a \in Approvals, NEW key \in Keys, NEW decision \in Decisions,
         SubmitApprovalDecision(a, key, decision)
  PROVE  Lifecycle!Decide({a})
<1> DEFINE item == Dispatch(approvals[a], decision, "user")
<1>1. a \in DOMAIN approvals /\ approvals[a].status = "waiting_decision"
  BY DEF SubmitApprovalDecision, AwaitsDecision
<1>2. Decides(approvals[a], item)
  <2>1. decision \in DecisionTypes \ {NoDecision}
    BY StoreAssumption DEF DecisionTypes
  <2>2. \E d \in DecisionTypes \ {NoDecision}, actor \in {"user", "system"} :
          item = Dispatch(approvals[a], d, actor)
    <3> WITNESS decision \in DecisionTypes \ {NoDecision}, "user" \in {"user", "system"}
    <3> QED
      OBVIOUS
  <2>3. QED
    BY <1>1, <2>2 DEF Decides
<1>3. approvals' = [approvals EXCEPT ![a] = item]
  BY DEF SubmitApprovalDecision
<1> HIDE DEF item
<1>4. /\ DOMAIN approvals' = DOMAIN approvals
      /\ approvals'[a] = item
      /\ \A b \in DOMAIN approvals \ {a} : approvals'[b] = approvals[b]
  BY <1>1, <1>3 DEF TypeOK
<1>5. {a} \subseteq DOMAIN approvals /\ {a} # {}
  BY <1>1
<1>6. \A b \in {a} : Decides(approvals[b], approvals'[b])
  BY <1>2, <1>4
<1>7. QED
  BY <1>4, <1>5, <1>6, DecideTogether

\* The expiry scan decides all that are due at once.
LEMMA ExpireDecides ==
  ASSUME TypeOK, TypeOK', ExpireApprovals
  PROVE  Lifecycle!Decide(ExpirableApprovals)
<1>1. ExpirableApprovals \subseteq DOMAIN approvals /\ ExpirableApprovals # {}
  BY DEF ExpireApprovals, ExpirableApprovals
<1>2. /\ DOMAIN approvals' = DOMAIN approvals
      /\ \A a \in DOMAIN approvals \ ExpirableApprovals : approvals'[a] = approvals[a]
      /\ \A a \in ExpirableApprovals :
           approvals'[a] = Dispatch(approvals[a], "reject", "system")
  BY <1>1 DEF ExpireApprovals
<1>3. "reject" \in DecisionTypes \ {NoDecision}
  BY DEF DecisionTypes, NoDecision
<1>4. \A a \in ExpirableApprovals : Decides(approvals[a], approvals'[a])
  BY <1>2, <1>3 DEF ExpirableApprovals, AwaitsDecision, Decides
<1>5. QED
  BY <1>1, <1>2, <1>4, DecideTogether

\* An ack closes one delivery.
LEMMA AckCloses ==
  ASSUME TypeOK, TypeOK', NEW a \in Approvals, NEW s, NEW n, NEW result,
         AckApprovalDecision(a, s, n, result)
  PROVE  Lifecycle!Close({a})
<1> DEFINE item == [approvals[a] EXCEPT
              !.status = IF AckWritten(result) THEN "delivered" ELSE "delivery_failed",
              !.deliveryStatus = IF AckWritten(result) THEN "acked" ELSE "failed"]
<1>1. /\ a \in DOMAIN approvals /\ approvals[a].status = "delivering"
      /\ approvals[a] \in Approval
  BY DEF AckApprovalDecision, TypeOK
<1>2. /\ Closes(approvals[a], item)
      /\ item.status \in {"delivered", "delivery_failed"}
  BY <1>1 DEF Closes, Approval
<1>3. approvals' = [approvals EXCEPT ![a] = item]
  BY DEF AckApprovalDecision
<1> HIDE DEF item
<1>4. /\ DOMAIN approvals' = DOMAIN approvals
      /\ approvals'[a] = item
      /\ \A b \in DOMAIN approvals \ {a} : approvals'[b] = approvals[b]
  BY <1>1, <1>3 DEF TypeOK
<1>5. {a} \subseteq DOMAIN approvals /\ {a} # {}
  BY <1>1
<1>6. \A b \in {a} : Closes(approvals[b], approvals'[b]) /\ approvals'[b].status = item.status
  BY <1>2, <1>4
<1>7. \A b \in DOMAIN approvals \ {a} : View(approvals'[b]) = View(approvals[b])
  BY <1>4
<1>8. QED
  BY <1>2, <1>4, <1>5, <1>6, <1>7, CloseTogether

\* The retry scan closes the deliveries it gives up; one sent again looks the same.
LEMMA RetryCloses ==
  ASSUME TypeOK, TypeOK', RetryDeliveries
  PROVE  Lifecycle!Close(ExhaustedDeliveries) \/ UNCHANGED Ledger
<1>1. DOMAIN approvals' = DOMAIN approvals /\ ExhaustedDeliveries \subseteq DOMAIN approvals
  BY DEF RetryDeliveries, ExhaustedDeliveries, OverdueDeliveries
<1>2. ASSUME NEW a \in DOMAIN approvals \ ExhaustedDeliveries
      PROVE  View(approvals'[a]) = View(approvals[a])
  <2>1. approvals'[a] \in {approvals[a], [approvals[a] EXCEPT !.attempts = @ + 1]}
    BY DEF RetryDeliveries
  <2>2. approvals[a] \in Approval
    BY DEF TypeOK
  <2>3. QED
    BY <2>1, <2>2 DEF View, Approval
<1>3. ASSUME NEW a \in ExhaustedDeliveries
      PROVE  /\ Closes(approvals[a], approvals'[a])
             /\ approvals'[a].status = "delivery_failed"
  <2>1. approvals[a] \in Approval /\ approvals[a].status = "delivering"
    BY <1>1 DEF TypeOK, ExhaustedDeliveries, OverdueDeliveries
  <2>2. approvals'[a] =
          [approvals[a] EXCEPT !.status = "delivery_failed", !.deliveryStatus = "failed"]
    BY <1>1 DEF RetryDeliveries
  <2>3. QED
    BY <2>1, <2>2 DEF Closes, Approval
<1>4. CASE ExhaustedDeliveries = {}
  BY <1>1, <1>2, <1>4, Stutters
<1>5. CASE ExhaustedDeliveries # {}
  BY <1>1, <1>2, <1>3, <1>5, CloseTogether
<1>6. QED
  BY <1>4, <1>5

\* A takeover withdraws.
LEMMA SupersedeWithdraws ==
  ASSUME TypeOK, TypeOK', NEW a \in Approvals, SupersedeApproval(a)
  PROVE  Lifecycle!Withdraw(a)
<1> DEFINE item == [approvals[a] EXCEPT
              !.status = "cancelled_by_local_input", !.deliveryStatus = "cancelled",
              !.decision = "local_input", !.actor = "local"]
<1>1. /\ a \in DOMAIN approvals /\ approvals[a].status = "waiting_decision"
      /\ approvals[a] \in Approval
  BY DEF SupersedeApproval, AwaitsDecision, TypeOK
<1>2. item.status = "cancelled_by_local_input" /\ item.session = approvals[a].session
  BY <1>1 DEF Approval
<1>3. approvals' = [approvals EXCEPT ![a] = item]
  BY DEF SupersedeApproval
<1> HIDE DEF item
<1>4. /\ DOMAIN approvals' = DOMAIN approvals
      /\ approvals'[a] = item /\ approvals'[a] \in Approval
      /\ \A b \in DOMAIN approvals \ {a} : View(approvals'[b]) = View(approvals[b])
  BY <1>1, <1>3 DEF TypeOK
<1>5. {a} \subseteq DOMAIN approvals /\ {a} # {}
  BY <1>1
<1>6. Lifecycle!Move({a}, "open", "withdrawn")
  BY <1>1, <1>2, <1>4, <1>5, MovesTogether, Phases
<1>7. QED
  BY <1>6 DEF Lifecycle!Withdraw

\* Every step of the store is a step of the abstract specification, or a stutter.
LEMMA StepImplements ==
  ASSUME TypeOK, TypeOK', DeliveryCoherent', [Next]_vars
  PROVE  [Lifecycle!Next]_Ledger
<1>1. CASE UNCHANGED approvals
  BY <1>1, Stutters
<1>2. CASE \E a \in Approvals, s \in Sessions, key \in Keys \cup {NoKey}, request \in Requests :
             CreateApproval(a, s, key, request)
  BY <1>2, CreateRaises DEF Lifecycle!Next
<1>3. CASE \E a \in Approvals, key \in Keys, decision \in Decisions :
             SubmitApprovalDecision(a, key, decision)
  BY <1>3, SubmitDecides DEF Lifecycle!Next
<1>4. CASE \E a \in Approvals, s \in Sessions, n \in 0 .. 1, result \in AckResults :
             AckApprovalDecision(a, s, n, result)
  BY <1>4, AckCloses DEF Lifecycle!Next
<1>5. CASE \E a \in Approvals : SupersedeApproval(a)
  BY <1>5, SupersedeWithdraws DEF Lifecycle!Next
<1>6. CASE ExpireApprovals
  <2>1. ExpirableApprovals \subseteq Approvals
    BY DEF ExpirableApprovals, TypeOK
  <2>2. QED
    BY <1>6, <2>1, ExpireDecides DEF Lifecycle!Next
<1>7. CASE RetryDeliveries
  <2>1. ExhaustedDeliveries \subseteq Approvals
    BY DEF ExhaustedDeliveries, OverdueDeliveries, TypeOK
  <2>2. QED
    BY <1>7, <2>1, RetryCloses DEF Lifecycle!Next
<1>8. QED
  BY <1>1, <1>2, <1>3, <1>4, <1>5, <1>6, <1>7
  DEF Next, AgentNext, UserNext, ClockNext, WorkerNext, vars, CreateSession, UpdateSession,
      DisableDevice, CreatePolicyRule, ExpiryPasses, AckTimeoutPasses

\* The store, with its deliveries, retries, replays and scans, implements the
\* abstract specification: an approval is raised once, decided once, and ends in
\* one final way with its decision unchanged.
THEOREM StoreImplementsLifecycle == Spec => ImplementsLifecycle
<1>1. Init => Lifecycle!Init
  <2>1. ASSUME Init PROVE Ledger = << >>
    <3>1. approvals = << >> /\ DOMAIN approvals = {}
      BY <2>1 DEF Init
    <3>2. QED
      BY <3>1 DEF Ledger
  <2>2. QED
    BY <2>1 DEF Lifecycle!Init
<1>2. TypeOK /\ TypeOK' /\ DeliveryCoherent' /\ [Next]_vars => [Lifecycle!Next]_Ledger
  BY StepImplements
<1>3. QED
  BY <1>1, <1>2, TypeCorrect, DeliveryIsCoherent, PTL
  DEF Spec, ImplementsLifecycle, Lifecycle!Spec
================================================================================
