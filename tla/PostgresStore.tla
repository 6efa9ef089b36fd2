----------------------------- MODULE PostgresStore -----------------------------
(***************************************************************************)
(* The approvals of the store kept in PostgreSQL (postgresStore in         *)
(* src/server/cmd/server/postgres_store.go).  An operation is a            *)
(* transaction of several statements at READ COMMITTED: a statement sees   *)
(* what has been committed before it starts, SELECT ... FOR UPDATE and     *)
(* UPDATE wait for the transaction that holds the row and then look at it  *)
(* again, and all writes take effect at the commit.  The module has one    *)
(* action for each statement that waits or whose result decides what       *)
(* happens next; writes to rows the transaction holds are part of its      *)
(* commit.  An error, the timeout of the context or the death of the       *)
(* server ends a transaction with no effect, whatever step it has reached. *)
(*                                                                         *)
(* Sessions are registered beforehand (PostgresRegistry has CreateSession) *)
(* and belong to one tenant.  Of their columns only the counter is kept:   *)
(* no statement decides by the status of a session.  The verdict of the    *)
(* policy rules, which PolicyRules describes, is any member of Verdicts.   *)
(* An operation starts in the action of its first statement; while that    *)
(* statement has to wait the goroutine holds nothing.                      *)
(***************************************************************************)
EXTENDS Integers, FiniteSets, Sequences, SequencesExt

CONSTANTS
  Handlers,       \* the goroutines that serve requests
  Workers,        \* the goroutines that scan
  Sessions,       \* CLI sessions
  Approvals,      \* identifiers an approval may get
  Keys, NoKey,    \* idempotency keys, and the empty one
  Decisions,      \* the decision types users submit
  Verdicts,       \* what the policy may decide: NoDecision, "policy_reject", "policy_approve"
  MaxAttempts     \* GATEPILOT_DELIVERY_MAX_ATTEMPTS

NoDecision == ""

ASSUME PostgresAssumption ==
  /\ Handlers \cap Workers = {}
  /\ NoKey \notin Keys
  /\ NoDecision \notin Decisions
  /\ MaxAttempts \in Nat \ {0}

\* A lock is named by its row's key: rows of different tables, and the entries of
\* the index, are different rows.
ASSUME RowsDiffer ==
  /\ Approvals \cap Sessions = {}
  /\ \A key \in Keys : <<"key", key>> \notin Approvals \cup Sessions

VARIABLES
  pending,    \* table sessions: id -> pending_approval_count
  approvals,  \* table approval_requests: id -> its row
  deliveries, \* table approval_deliveries: approval -> its rows, oldest first
  actions,    \* table approval_actions: approval -> the action types recorded
  replays,    \* table http_idempotency_keys: <<approval, key>> -> the decision it replays
  tx          \* what each goroutine's transaction has done so far

tables == <<pending, approvals, deliveries, actions, replays>>
vars == <<tables, tx>>

Procs == Handlers \cup Workers

\* A goroutine with no transaction.
Idle == [op |-> "none"]

Put(f, x, v) == [y \in DOMAIN f \cup {x} |-> IF y = x THEN v ELSE f[y]]

Init ==
  /\ pending = [s \in Sessions |-> 0]
  /\ approvals = << >> /\ deliveries = << >> /\ actions = << >> /\ replays = << >>
  /\ tx = [p \in Procs |-> Idle]

--------------------------------------------------------------------------------
(* Transactions and the locks they hold. *)

Running(p) == tx[p].op # "none"

At(p, op, step) == tx[p].op = op /\ tx[p].step = step

Holds(p, row) == Running(p) /\ row \in tx[p].locks

Free(p, row) == \A q \in Procs \ {p} : ~ Holds(q, row)

\* The transaction takes the lock of a row and goes on.
Locks(p, row, step) ==
  /\ Free(p, row)
  /\ tx' = [tx EXCEPT ![p].locks = @ \cup {row}, ![p].step = step]

\* The deferred Rollback, or the end of a commit: the locks are given back.
Ends(p) == tx' = [tx EXCEPT ![p] = Idle]

\* A handler begins a transaction.
Starts(p, transaction) == p \in Handlers /\ ~ Running(p) /\ tx' = [tx EXCEPT ![p] = transaction]

\* Any statement, and the commit, may fail.
Fails(p) ==
  /\ Running(p)
  /\ Ends(p)
  /\ UNCHANGED tables

\* GREATEST(pending_approval_count - n, 0).
Released(count, n) == IF count > n THEN count - n ELSE 0

--------------------------------------------------------------------------------
(* CreateApproval. *)

KeyTaken(key) == \E a \in DOMAIN approvals : approvals[a].key = key

\* The session's row is locked; a key used before is answered with its approval.
CreateLocksSession(p, s, key) ==
  /\ Free(p, s)
  /\ key # NoKey => ~ KeyTaken(key)
  /\ Starts(p, [op |-> "create", step |-> "checked", locks |-> {s}, s |-> s, key |-> key])
  /\ UNCHANGED tables

\* Variant: the table has no unique index on the key.
CreateInsertsUnchecked(p) ==
  /\ At(p, "create", "checked")
  /\ \E a \in Approvals \ DOMAIN approvals :
       /\ \A q \in Procs : ~ Holds(q, a)
       /\ tx' = [tx EXCEPT ![p] = [op |-> "create", step |-> "ready", locks |-> @.locks \cup {a},
                                   s |-> @.s, key |-> @.key, a |-> a]]
  /\ UNCHANGED tables

\* What an unkeyed row claims of the index: nothing.
KeyRows(key) == IF key = NoKey THEN {} ELSE {<<"key", key>>}

\* INSERT INTO approval_requests: idx_approvals_tenant_idempotency makes it wait
\* for an uncommitted row with the key, and fail if there is a committed one.
CreateInserts(p) ==
  /\ At(p, "create", "checked")
  /\ \A row \in KeyRows(tx[p].key) : Free(p, row)
  /\ IF tx[p].key # NoKey /\ KeyTaken(tx[p].key)
       THEN Ends(p)
       ELSE \E a \in Approvals \ DOMAIN approvals :
              /\ \A q \in Procs : ~ Holds(q, a)
              /\ tx' = [tx EXCEPT ![p] =
                   [op |-> "create", step |-> "ready", s |-> @.s, key |-> @.key,
                    locks |-> @.locks \cup {a} \cup KeyRows(@.key), a |-> a]]
  /\ UNCHANGED tables

Sent == [status |-> "sent", attempts |-> 1]

\* The approval as the policy leaves it, the delivery the policy asks for and the
\* session's counter.
CreateCommits(p, verdict) ==
  /\ At(p, "create", "ready")
  /\ LET t == tx[p]
         decided == verdict # NoDecision IN
       /\ approvals' = Put(approvals, t.a,
            [session |-> t.s, key |-> t.key, decision |-> verdict,
             status |-> IF decided THEN "delivering" ELSE "waiting_decision",
             actor |-> IF decided THEN "policy" ELSE ""])
       /\ deliveries' = Put(deliveries, t.a, IF decided THEN <<Sent>> ELSE << >>)
       /\ actions' = Put(actions, t.a, << >>)
       /\ pending' = [pending EXCEPT ![t.s] = @ + 1]
  /\ Ends(p)
  /\ UNCHANGED replays

--------------------------------------------------------------------------------
(* SubmitApprovalDecision. *)

\* The reply stored for the key is read before the approval is locked.  If there is
\* one it is the answer, or the key is refused for another decision.
SubmitReadsReplay(p, a, key, decision) ==
  /\ a \in DOMAIN approvals
  /\ <<a, key>> \notin DOMAIN replays
  /\ Starts(p, [op |-> "submit", step |-> "checked", locks |-> {}, a |-> a, key |-> key,
                decision |-> decision])
  /\ UNCHANGED tables

\* Variants: the status is not read again under the lock; the approval is locked
\* after its session.
SubmitLocksApprovalBlindly(p) ==
  /\ At(p, "submit", "checked")
  /\ Locks(p, tx[p].a, "locked")
  /\ UNCHANGED tables
SubmitLocksSessionFirst(p) ==
  /\ UNCHANGED tables
  /\ \/ /\ At(p, "submit", "checked")
        /\ approvals[tx[p].a].status = "waiting_decision"
        /\ Locks(p, approvals[tx[p].a].session, "half")
     \/ At(p, "submit", "half") /\ Locks(p, tx[p].a, "ready")

\* SELECT status ... FOR UPDATE.
SubmitLocksApproval(p) ==
  /\ At(p, "submit", "checked")
  /\ IF approvals[tx[p].a].status = "waiting_decision"
       THEN Locks(p, tx[p].a, "locked")
       ELSE Free(p, tx[p].a) /\ Ends(p)
  /\ UNCHANGED tables

\* The decision, its action, its delivery, the session's status and the reply.
\* The caller may hear of a failure although the commit has taken place.
SubmitCommits(p) ==
  /\ At(p, "submit", "ready")
  /\ LET t == tx[p] IN
       /\ approvals' = [approvals EXCEPT ![t.a].status = "delivering",
                          ![t.a].decision = t.decision, ![t.a].actor = "user"]
       /\ deliveries' = [deliveries EXCEPT ![t.a] = Append(@, Sent)]
       /\ actions' = [actions EXCEPT ![t.a] = Append(@, t.decision)]
       /\ replays' = Put(replays, <<t.a, t.key>>, t.decision)
  /\ Ends(p)
  /\ UNCHANGED pending

--------------------------------------------------------------------------------
(* AckApprovalDecision and SupersedeApproval. *)

LastDelivery(a) == IF deliveries[a] = << >> THEN "none" ELSE Last(deliveries[a]).status

\* The statement joins the approval with its last delivery as they are when it
\* starts; without a delivery the scan of its columns fails.  It locks the approval
\* only, so the delivery may be out of date by the time the lock is granted.
AckReads(p, a) ==
  /\ a \in DOMAIN approvals /\ LastDelivery(a) # "none"
  /\ Starts(p, [op |-> "ack", step |-> "checked", locks |-> {}, a |-> a])
  /\ UNCHANGED tables

\* Variant: the approval is taken as it was when the statement started.
AckLocksApprovalStale(p) ==
  /\ At(p, "ack", "checked")
  /\ Locks(p, tx[p].a, "locked")
  /\ UNCHANGED tables

\* The approval is looked at again under the lock.  An ack of a delivered approval,
\* or one that does not fit (another session or delivery), changes nothing.
AckLocksApproval(p) ==
  /\ At(p, "ack", "checked")
  /\ IF approvals[tx[p].a].status = "delivering"
       THEN Locks(p, tx[p].a, "locked")
       ELSE Free(p, tx[p].a) /\ Ends(p)
  /\ UNCHANGED tables

\* Variant: the statuses of approval and delivery are swapped.
AckCommitsSwapped(p, written) ==
  /\ At(p, "ack", "ready")
  /\ LET t == tx[p]  n == Len(deliveries[t.a])  s == approvals[t.a].session IN
       /\ approvals' = [approvals EXCEPT ![t.a].status = IF written THEN "acked" ELSE "failed"]
       /\ deliveries' = [deliveries EXCEPT
            ![t.a][n].status = IF written THEN "delivered" ELSE "delivery_failed"]
       /\ pending' = [pending EXCEPT ![s] = Released(@, 1)]
  /\ Ends(p)
  /\ UNCHANGED <<actions, replays>>

\* What the ack says of the CLI's input decides how the delivery ends.
AckCommits(p, written) ==
  /\ At(p, "ack", "ready")
  /\ LET t == tx[p]  n == Len(deliveries[t.a])  s == approvals[t.a].session IN
       /\ approvals' = [approvals EXCEPT
            ![t.a].status = IF written THEN "delivered" ELSE "delivery_failed"]
       /\ deliveries' = [deliveries EXCEPT
            ![t.a][n].status = IF written THEN "acked" ELSE "failed"]
       /\ pending' = [pending EXCEPT ![s] = Released(@, 1)]
  /\ Ends(p)
  /\ UNCHANGED <<actions, replays>>

\* Variant: only an approval cancelled before is told apart.
SupersedeLocksApprovalAny(p, a) ==
  /\ a \in DOMAIN approvals /\ approvals[a].status # "cancelled_by_local_input"
  /\ Free(p, a)
  /\ Starts(p, [op |-> "supersede", step |-> "locked", locks |-> {a}, a |-> a])
  /\ UNCHANGED tables

\* An approval that does not wait for a decision is refused, or answered as it is if
\* it has been cancelled before.
SupersedeLocksApproval(p, a) ==
  /\ a \in DOMAIN approvals /\ approvals[a].status = "waiting_decision"
  /\ Free(p, a)
  /\ Starts(p, [op |-> "supersede", step |-> "locked", locks |-> {a}, a |-> a])
  /\ UNCHANGED tables

SupersedeCommits(p) ==
  /\ At(p, "supersede", "ready")
  /\ LET a == tx[p].a IN
       /\ approvals' = [approvals EXCEPT ![a].status = "cancelled_by_local_input",
                          ![a].decision = "local_input", ![a].actor = "local"]
       /\ deliveries' = [deliveries EXCEPT ![a] =
            [i \in DOMAIN @ |-> IF @[i].status \in {"pending", "sent"}
                                  THEN [@[i] EXCEPT !.status = "cancelled"] ELSE @[i]]]
       /\ actions' = [actions EXCEPT ![a] = Append(@, "local_input")]
       /\ pending' = [pending EXCEPT ![approvals[a].session] = Released(@, 1)]
  /\ Ends(p)
  /\ UNCHANGED replays

\* UPDATE sessions, the last row each of the three operations has to wait for.
LocksSession(p) ==
  /\ Running(p) /\ tx[p].op \in {"submit", "ack", "supersede"} /\ tx[p].step = "locked"
  /\ Locks(p, approvals[tx[p].a].session, "ready")
  /\ UNCHANGED tables

--------------------------------------------------------------------------------
(* The scans of the worker.  Any approval that waits may have passed its
   expires_at, and any delivery its ack timeout, when a scan starts. *)

Expirable(a) == approvals[a].status = "waiting_decision"

Overdue(a) == approvals[a].status = "delivering" /\ LastDelivery(a) = "sent"

Exhausted(a) == Last(deliveries[a]).attempts >= MaxAttempts

\* SELECT ... FOR UPDATE finds the rows that qualify.
Scan(p, op, found) ==
  /\ p \in Workers /\ ~ Running(p) /\ found # {}
  /\ tx' = [tx EXCEPT ![p] = [op |-> op, step |-> "scanning", locks |-> {}, todo |-> found]]
  /\ UNCHANGED tables

ScanExpired(p) ==
  \E found \in SUBSET { a \in DOMAIN approvals : Expirable(a) } : Scan(p, "expire", found)

ScanOverdue(p) ==
  \E found \in SUBSET { a \in DOMAIN approvals : Overdue(a) } : Scan(p, "retry", found)

\* The approvals a scan has locked.
Due(p) == tx[p].locks \cap Approvals

\* The rows found are locked one after the other; one that has changed meanwhile
\* is looked at again and may drop out.
ScanLocks(p, op, Qualifies(_), session) ==
  /\ At(p, op, "scanning")
  /\ LET t == tx[p] IN
       IF t.todo = {}
         THEN tx' = [tx EXCEPT ![p].step = "updating",
                               ![p].todo = { a \in Due(p) : session \/ Exhausted(a) }]
         ELSE \E a \in t.todo :
                /\ Free(p, a)
                /\ tx' = [tx EXCEPT
                     ![p].todo = @ \ {a},
                     ![p].locks = IF Qualifies(a) THEN @ \cup {a} ELSE @]
  /\ UNCHANGED tables

\* Variant: the rows found are not looked at again.
ExpireLocksBlindly(p) == ScanLocks(p, "expire", LAMBDA a : TRUE, TRUE)

ExpireLocks(p) == ScanLocks(p, "expire", Expirable, TRUE)
RetryLocks(p) == ScanLocks(p, "retry", Overdue, FALSE)

\* The session of every row that needs it is updated in turn.
ScanUpdatesSession(p) ==
  /\ Running(p) /\ tx[p].op \in {"expire", "retry"} /\ tx[p].step = "updating"
  /\ \E a \in tx[p].todo :
       /\ Free(p, approvals[a].session)
       /\ tx' = [tx EXCEPT ![p].todo = @ \ {a}, ![p].locks = @ \cup {approvals[a].session}]
  /\ UNCHANGED tables

OfSession(rows, s) == { a \in rows : approvals[a].session = s }

\* Every approval of the scan is rejected by the timeout, in one commit.
ExpireCommits(p) ==
  /\ At(p, "expire", "updating") /\ tx[p].todo = {}
  /\ LET due == Due(p) IN
       /\ approvals' = [a \in DOMAIN approvals |->
            IF a \in due THEN [approvals[a] EXCEPT !.status = "delivering",
                                 !.decision = "reject", !.actor = "system"]
              ELSE approvals[a]]
       /\ deliveries' = [a \in DOMAIN deliveries |->
            IF a \in due THEN Append(deliveries[a], Sent) ELSE deliveries[a]]
       /\ actions' = [a \in DOMAIN actions |->
            IF a \in due THEN Append(actions[a], "reject") ELSE actions[a]]
  /\ Ends(p)
  /\ UNCHANGED <<pending, replays>>

\* Every delivery of the scan is sent again or, at the limit, given up.
RetryCommits(p) ==
  /\ At(p, "retry", "updating") /\ tx[p].todo = {}
  /\ LET due == Due(p)
         failed == { a \in due : Exhausted(a) } IN
       /\ approvals' = [a \in DOMAIN approvals |->
            IF a \in failed THEN [approvals[a] EXCEPT !.status = "delivery_failed"]
              ELSE approvals[a]]
       /\ deliveries' = [a \in DOMAIN deliveries |->
            LET n == Len(deliveries[a]) IN
            CASE a \in failed -> [deliveries[a] EXCEPT ![n].status = "failed"]
              [] a \in due \ failed -> [deliveries[a] EXCEPT ![n].attempts = @ + 1]
              [] OTHER -> deliveries[a]]
       /\ pending' = [s \in Sessions |->
            Released(pending[s], Cardinality(OfSession(failed, s)))]
  /\ Ends(p)
  /\ UNCHANGED <<actions, replays>>

--------------------------------------------------------------------------------

HandlerNext(p) ==
  \/ \E s \in Sessions, key \in Keys \cup {NoKey} : CreateLocksSession(p, s, key)
  \/ CreateInserts(p)
  \/ \E verdict \in Verdicts : CreateCommits(p, verdict)
  \/ \E a \in Approvals, key \in Keys, decision \in Decisions :
       SubmitReadsReplay(p, a, key, decision)
  \/ SubmitLocksApproval(p) \/ SubmitCommits(p)
  \/ \E a \in Approvals : AckReads(p, a)
  \/ AckLocksApproval(p)
  \/ \E written \in BOOLEAN : AckCommits(p, written)
  \/ \E a \in Approvals : SupersedeLocksApproval(p, a)
  \/ SupersedeCommits(p)
  \/ LocksSession(p)

WorkerNext(p) ==
  \/ ScanExpired(p) \/ ScanOverdue(p)
  \/ ExpireLocks(p) \/ RetryLocks(p) \/ ScanUpdatesSession(p)
  \/ ExpireCommits(p) \/ RetryCommits(p)

Next ==
  \/ \E p \in Handlers : HandlerNext(p)
  \/ \E p \in Workers : WorkerNext(p)
  \/ \E p \in Procs : Fails(p)

Spec == Init /\ [][Next]_vars

--------------------------------------------------------------------------------
(* Properties. *)

Statuses == {"waiting_decision", "delivering", "delivered", "delivery_failed",
             "cancelled_by_local_input"}

\* The rows of every table have the columns the statements write, and every
\* running transaction is at one of its steps and holds rows that exist or that
\* it is about to insert.
TypeOK ==
  /\ pending \in [Sessions -> Nat]
  /\ DOMAIN approvals \subseteq Approvals
  /\ \A a \in DOMAIN approvals :
       /\ approvals[a].session \in Sessions /\ approvals[a].key \in Keys \cup {NoKey}
       /\ approvals[a].status \in Statuses
       /\ approvals[a].actor \in {"", "user", "policy", "system", "local"}
  /\ DOMAIN deliveries = DOMAIN approvals /\ DOMAIN actions = DOMAIN approvals
  /\ DOMAIN replays \subseteq (DOMAIN approvals) \X Keys
  /\ \A p \in Procs : Running(p) =>
       /\ tx[p].step \in {"checked", "locked", "half", "ready", "scanning", "updating"}
       /\ tx[p].locks \subseteq Approvals \cup Sessions \cup UNION { KeyRows(key) : key \in Keys }

Live(a) == approvals[a].status \in {"waiting_decision", "delivering"}

\* pending_approval_count, added to and subtracted from by transactions that run at
\* the same time, is the number of the session's approvals that wait or are being
\* delivered.
PendingCountExact ==
  \A s \in Sessions :
    pending[s] = Cardinality({ a \in OfSession(DOMAIN approvals, s) : Live(a) })

\* Two CreateApproval calls with one key, even at the same time and from two
\* sessions, leave one approval.
KeyNamesOneApproval ==
  \A a, b \in DOMAIN approvals :
    a # b /\ approvals[a].key # NoKey => approvals[a].key # approvals[b].key

\* The rows of four tables tell one story of each approval: it has a delivery as
\* soon as it is decided and one only, whose status matches its own, and one
\* recorded action unless the policy decided or nobody has.
RowsTellOneStory ==
  \A a \in DOMAIN approvals : LET row == approvals[a] IN
    /\ LastDelivery(a) = CASE row.status = "delivering" -> "sent"
                           [] row.status = "delivered" -> "acked"
                           [] row.status = "delivery_failed" -> "failed"
                           [] OTHER -> "none"
    /\ Len(deliveries[a]) <= 1
    /\ actions[a] = IF row.actor \in {"", "policy"} THEN << >> ELSE <<row.decision>>

\* The reply kept for a repeated request is the decision in force: the user's, with
\* no timeout, takeover or other decision before or after it.
ReplayTellsTheDecision ==
  \A entry \in DOMAIN replays : LET row == approvals[entry[1]] IN
    row.actor = "user" /\ row.decision = replays[entry]

\* The rows a transaction has yet to lock before its next step, or in a scan
\* before one of the next.
Wants(p) ==
  IF ~ Running(p) THEN {}
  ELSE LET t == tx[p] IN
    CASE t.step = "ready" -> {}
      [] t.step = "locked" -> {approvals[t.a].session}
      [] t.step = "scanning" -> t.todo
      [] t.step = "updating" -> { approvals[a].session : a \in t.todo }
      [] t.step = "checked" /\ t.op = "create" -> KeyRows(t.key)
      [] OTHER -> {t.a}

\* The goroutines p waits for.
WaitsFor(p) == { q \in Procs \ {p} : \E row \in Wants(p) : Holds(q, row) }

\* Approvals are locked before sessions, and only the worker locks several: no set
\* of transactions waits in a circle, so PostgreSQL has no deadlock to break.
NoLockCycle ==
  \A S \in SUBSET Procs : S # {} => \E p \in S : WaitsFor(p) \cap S = {}

\* The tables seen as the abstract life of the approvals.
PhaseOf(status) ==
  CASE status = "waiting_decision" -> "open"
    [] status = "delivering" -> "decided"
    [] status = "delivered" -> "done"
    [] status = "delivery_failed" -> "failed"
    [] status = "cancelled_by_local_input" -> "withdrawn"

Ledger ==
  [a \in DOMAIN approvals |->
     [owner |-> approvals[a].session, phase |-> PhaseOf(approvals[a].status),
      decision |-> approvals[a].decision, by |-> approvals[a].actor]]

Lifecycle == INSTANCE ApprovalLifecycle WITH
  ledger <- Ledger,
  DecisionTypes <- Decisions \cup Verdicts \cup {NoDecision, "reject", "local_input"},
  Actors <- {"", "user", "policy", "system", "local"}

\* Transactions that interleave statement by statement implement the same abstract
\* specification as the store in memory, whose operations are atomic.
ImplementsLifecycle == Lifecycle!Spec
================================================================================
