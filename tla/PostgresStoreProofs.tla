-------------------------- MODULE PostgresStoreProofs --------------------------
(***************************************************************************)
(* Theorems about PostgresStore, for every number of request handlers and  *)
(* of workers, every set of sessions, approvals, keys and decisions and    *)
(* every attempt limit.                                                    *)
(*                                                                         *)
(* A transaction decides by what it read before it waited for a lock.  The *)
(* invariant says, for a transaction at each of its steps, what its locks  *)
(* make certain of the tables (Good): the approval a decision is about to  *)
(* change still waits, the key of an insertion is still free, the rows of  *)
(* a scan still qualify.  A commit changes rows its transaction holds, and *)
(* no two transactions hold the same row (Exclusive), so it leaves what    *)
(* the others know intact; from there the counter, the key index, the      *)
(* story of each approval and the replies follow row by row.               *)
(***************************************************************************)
EXTENDS PostgresStore, FiniteSetTheorems, TLAPS

--------------------------------------------------------------------------------
(* What the tables say. *)

DecisionTypes == Decisions \cup Verdicts \cup {NoDecision, "reject", "local_input"}

Row == [session : Sessions, key : Keys \cup {NoKey}, decision : DecisionTypes,
        status : Statuses, actor : {"", "user", "policy", "system", "local"}]

\* The status of the delivery of an approval that has one.
DeliveryStatus(status) ==
  CASE status = "delivering" -> "sent"
    [] status = "delivered" -> "acked"
    [] status = "delivery_failed" -> "failed"

Undelivered == {"waiting_decision", "cancelled_by_local_input"}

\* An approval with its deliveries and actions: what each step may leave.
Story(row, sent, acts) ==
  /\ row \in Row
  /\ row.status = "waiting_decision" => row.actor = "" /\ row.decision = NoDecision
  /\ row.status = "delivering" => row.decision # NoDecision
  /\ row.status \in Undelivered => sent = << >>
  /\ row.status \notin Undelivered =>
       \E n \in Nat : sent = <<[status |-> DeliveryStatus(row.status), attempts |-> n]>>
  /\ acts = IF row.actor \in {"", "policy"} THEN << >> ELSE <<row.decision>>

Columns ==
  /\ pending \in [Sessions -> Nat]
  /\ DOMAIN approvals \subseteq Approvals /\ IsFiniteSet(DOMAIN approvals)
  /\ DOMAIN deliveries = DOMAIN approvals /\ DOMAIN actions = DOMAIN approvals
  /\ DOMAIN replays \subseteq (DOMAIN approvals) \X Keys

Stories == \A a \in DOMAIN approvals : Story(approvals[a], deliveries[a], actions[a])

TablesOK ==
  /\ Columns
  /\ Stories
  /\ PendingCountExact
  /\ KeyNamesOneApproval
  /\ ReplayTellsTheDecision

--------------------------------------------------------------------------------
(* What the transactions know. *)

Rows == Approvals \cup Sessions \cup UNION { KeyRows(key) : key \in Keys }

\* The records of the transactions, by operation and step.
CreateChecked ==
  [op : {"create"}, step : {"checked"}, locks : SUBSET Rows, s : Sessions, key : Keys \cup {NoKey}]
CreateReady ==
  [op : {"create"}, step : {"ready"}, locks : SUBSET Rows, s : Sessions,
   key : Keys \cup {NoKey}, a : Approvals]
SubmitTx ==
  [op : {"submit"}, step : {"checked", "locked", "ready"}, locks : SUBSET Rows, a : Approvals,
   key : Keys, decision : Decisions]
OneApprovalTx ==
  [op : {"ack", "supersede"}, step : {"checked", "locked", "ready"}, locks : SUBSET Rows,
   a : Approvals]
ScanTx ==
  [op : {"expire", "retry"}, step : {"scanning", "updating"}, locks : SUBSET Rows,
   todo : SUBSET Approvals]

\* The status an approval keeps while the operation holds its row.
Claimed(op) == IF op \in {"ack", "retry"} THEN "delivering" ELSE "waiting_decision"

GoodCreate(p, t) ==
  /\ p \in Handlers
  /\ \/ t \in CreateChecked /\ t.locks = {t.s}
     \/ /\ t \in CreateReady /\ t.locks = {t.s, t.a} \cup KeyRows(t.key)
        /\ t.a \notin DOMAIN approvals
        /\ t.key # NoKey => ~ KeyTaken(t.key)

\* A decision, an ack or a takeover.
GoodTarget(p, t) ==
  /\ p \in Handlers
  /\ t \in SubmitTx \cup OneApprovalTx
  /\ t.a \in DOMAIN approvals
  /\ t.step = "checked" => t.locks = {}
  /\ t.step = "locked" => t.locks = {t.a}
  /\ t.step = "ready" => t.locks = {t.a, approvals[t.a].session}
  /\ t.step # "checked" => approvals[t.a].status = Claimed(t.op)

GoodScan(p, t) ==
  /\ p \in Workers
  /\ t \in ScanTx
  /\ t.todo \subseteq DOMAIN approvals
  /\ t.locks \cap Approvals \subseteq DOMAIN approvals
  /\ \A a \in t.locks \cap Approvals : approvals[a].status = Claimed(t.op)
  /\ t.step = "scanning" => t.locks \subseteq Approvals
  /\ t.step = "updating" => t.todo \subseteq t.locks /\ t.locks \subseteq Approvals \cup Sessions

Good(p, t) == t = Idle \/ GoodCreate(p, t) \/ GoodTarget(p, t) \/ GoodScan(p, t)

\* The rows a transaction holds.
Claims(t) == IF t.op = "none" THEN {} ELSE t.locks

Exclusive == \A p, q \in Procs : p # q => Claims(tx[p]) \cap Claims(tx[q]) = {}

TransactionsOK ==
  /\ DOMAIN tx = Procs
  /\ \A p \in Procs : Good(p, tx[p])
  /\ Exclusive

IInv == TablesOK /\ TransactionsOK

--------------------------------------------------------------------------------
(* Steps that read, wait or lock: the tables stay as they are. *)

\* What a transaction knows of tables that do not change.
LEMMA GoodIsStable ==
  ASSUME UNCHANGED tables, NEW p, NEW t, Good(p, t)
  PROVE  Good(p, t)'
<1>1. approvals' = approvals
  BY DEF tables
<1>2. GoodCreate(p, t) => GoodCreate(p, t)'
  BY <1>1 DEF GoodCreate, KeyTaken
<1>3. GoodTarget(p, t) => GoodTarget(p, t)'
  BY <1>1 DEF GoodTarget
<1>4. GoodScan(p, t) => GoodScan(p, t)'
  BY <1>1 DEF GoodScan
<1>5. QED
  BY <1>2, <1>3, <1>4 DEF Good

\* No table changes.
LEMMA TablesStay ==
  ASSUME TablesOK, UNCHANGED tables
  PROVE  TablesOK'
<1>1. UNCHANGED pending /\ UNCHANGED approvals /\ UNCHANGED deliveries /\ UNCHANGED actions
      /\ UNCHANGED replays
  BY DEF tables
<1>2. Columns' /\ Stories'
  BY <1>1 DEF TablesOK, Columns, Stories
<1>3. PendingCountExact'
  BY <1>1 DEF TablesOK, PendingCountExact, OfSession, Live
<1>4. KeyNamesOneApproval' /\ ReplayTellsTheDecision'
  BY <1>1 DEF TablesOK, KeyNamesOneApproval, ReplayTellsTheDecision
<1>5. QED
  BY <1>2, <1>3, <1>4 DEF TablesOK

\* One transaction goes on to a step that is good, with rows no other one holds.
LEMMA OnlyTx ==
  ASSUME IInv, UNCHANGED tables, NEW p \in Procs, NEW t, Good(p, t),
         tx' = [tx EXCEPT ![p] = t],
         \A q \in Procs \ {p} : Claims(t) \cap Claims(tx[q]) = {}
  PROVE  IInv'
<1>1. DOMAIN tx = Procs /\ Exclusive /\ \A q \in Procs : Good(q, tx[q])
  BY DEF IInv, TransactionsOK
<1>2. DOMAIN tx' = Procs /\ tx'[p] = t /\ \A q \in Procs \ {p} : tx'[q] = tx[q]
  BY <1>1
<1>3. ASSUME NEW q \in Procs
      PROVE  Good(q, tx[q])'
  <2>1. CASE q = p
    BY <1>2, <2>1, GoodIsStable
  <2>2. CASE q # p
    <3>1. Good(q, tx[q])
      BY <1>1
    <3> DEFINE u == tx[q]
    <3>2. tx'[q] = u
      BY <1>2, <2>2
    <3> HIDE DEF u
    <3>3. QED
      BY <3>1, <3>2, GoodIsStable DEF u
  <2>3. QED
    BY <2>1, <2>2
<1>4. Exclusive'
  <2> SUFFICES ASSUME NEW q \in Procs, NEW r \in Procs, q # r
               PROVE  Claims(tx'[q]) \cap Claims(tx'[r]) = {}
    BY DEF Exclusive, Claims
  <2>1. CASE q = p
    BY <1>2, <2>1
  <2>2. CASE r = p
    BY <1>2, <2>2
  <2>3. CASE q # p /\ r # p
    BY <1>1, <1>2, <2>3 DEF Exclusive
  <2>4. QED
    BY <2>1, <2>2, <2>3
<1>5. TablesOK'
  BY TablesStay DEF IInv
<1>6. QED
  BY <1>2, <1>3, <1>4, <1>5 DEF IInv, TransactionsOK

\* A transaction is what its operation says.
LEMMA GoodByOperation ==
  ASSUME NEW p, NEW t, Good(p, t)
  PROVE  /\ t.op = "none" <=> t = Idle
         /\ t.op = "create" => GoodCreate(p, t)
         /\ t.op \in {"submit", "ack", "supersede"} => GoodTarget(p, t)
         /\ t.op \in {"expire", "retry"} => GoodScan(p, t)
<1>1. t = Idle => t.op = "none"
  BY DEF Idle
<1>2. GoodCreate(p, t) => t.op = "create"
  BY DEF GoodCreate, CreateChecked, CreateReady
<1>3. GoodTarget(p, t) => t.op \in {"submit", "ack", "supersede"}
  BY DEF GoodTarget, SubmitTx, OneApprovalTx
<1>4. GoodScan(p, t) => t.op \in {"expire", "retry"}
  BY DEF GoodScan, ScanTx
<1>5. QED
  BY <1>1, <1>2, <1>3, <1>4 DEF Good

\* The invariant for one goroutine.
LEMMA GoodNow ==
  ASSUME IInv, NEW p \in Procs
  PROVE  /\ DOMAIN tx = Procs
         /\ Good(p, tx[p])
         /\ ~ Running(p) <=> tx[p] = Idle
         /\ tx[p].op = "create" => GoodCreate(p, tx[p])
         /\ tx[p].op \in {"submit", "ack", "supersede"} => GoodTarget(p, tx[p])
         /\ tx[p].op \in {"expire", "retry"} => GoodScan(p, tx[p])
         /\ \A q \in Procs \ {p} : Claims(tx[p]) \cap Claims(tx[q]) = {}
BY GoodByOperation DEF IInv, TransactionsOK, Exclusive, Running

\* A row that is free is claimed by no other transaction.
LEMMA FreeRows ==
  ASSUME NEW p \in Procs, NEW row, Free(p, row), NEW q \in Procs \ {p}
  PROVE  row \notin Claims(tx[q])
BY DEF Free, Holds, Running, Claims

\* The end of a transaction that has written nothing.
LEMMA FailsKeeps ==
  ASSUME IInv, NEW p \in Procs, Ends(p), UNCHANGED tables
  PROVE  IInv'
<1>1. Good(p, Idle) /\ Claims(Idle) = {}
  BY DEF Good, Claims, Idle
<1>2. tx' = [tx EXCEPT ![p] = Idle]
  BY DEF Ends
<1>3. QED
  BY <1>1, <1>2, OnlyTx

\* A handler's transaction takes one more row.
LEMMA LocksKeeps ==
  ASSUME IInv, NEW p \in Procs, Running(p), NEW row, NEW step, Locks(p, row, step),
         UNCHANGED tables,
         Good(p, [tx[p] EXCEPT !.locks = @ \cup {row}, !.step = step]),
         {"op", "step", "locks"} \subseteq DOMAIN tx[p]
  PROVE  IInv'
<1> DEFINE t == [tx[p] EXCEPT !.locks = @ \cup {row}, !.step = step]
<1>1. DOMAIN tx = Procs /\ \A q \in Procs \ {p} : Claims(tx[p]) \cap Claims(tx[q]) = {}
  BY GoodNow
<1>2. tx' = [tx EXCEPT ![p] = t]
  BY <1>1 DEF Locks
<1>3. Claims(t) = Claims(tx[p]) \cup {row}
  BY DEF Claims, Running
<1>4. \A q \in Procs \ {p} : Claims(t) \cap Claims(tx[q]) = {}
  BY <1>1, <1>3, FreeRows DEF Locks
<1>5. QED
  BY <1>2, <1>4, OnlyTx

\* A handler that had no transaction begins one with rows that are free.
LEMMA StartsKeeps ==
  ASSUME IInv, NEW p \in Procs, NEW t, Starts(p, t), UNCHANGED tables, Good(p, t),
         \A row \in Claims(t) : Free(p, row)
  PROVE  IInv'
<1>1. \A q \in Procs \ {p} : Claims(t) \cap Claims(tx[q]) = {}
  BY FreeRows
<1>2. QED
  BY <1>1, OnlyTx DEF Starts

\* CreateApproval locks the session.
LEMMA CreateLocksSessionKeeps ==
  ASSUME IInv, NEW p \in Handlers, NEW s \in Sessions, NEW key \in Keys \cup {NoKey},
         CreateLocksSession(p, s, key)
  PROVE  IInv'
<1> DEFINE t == [op |-> "create", step |-> "checked", locks |-> {s}, s |-> s, key |-> key]
<1>1. t \in CreateChecked /\ Claims(t) = {s}
  BY DEF CreateChecked, Rows, Claims
<1>2. Good(p, t)
  BY <1>1 DEF Good, GoodCreate
<1>3. p \in Procs /\ Starts(p, t) /\ Free(p, s) /\ UNCHANGED tables
  BY DEF CreateLocksSession, Procs
<1> HIDE DEF t
<1>4. QED
  BY <1>1, <1>2, <1>3, StartsKeeps

\* The insertion of CreateApproval claims the approval and its entry of the key index.
LEMMA CreateInsertsKeeps ==
  ASSUME IInv, NEW p \in Handlers, CreateInserts(p)
  PROVE  IInv'
<1>1. p \in Procs /\ UNCHANGED tables
  BY DEF CreateInserts, Procs
<1>2. tx[p].op = "create" /\ tx[p].step = "checked"
  BY DEF CreateInserts, At
<1>3. tx[p] \in CreateChecked /\ tx[p].locks = {tx[p].s}
  BY <1>1, <1>2, GoodNow DEF GoodCreate, CreateReady
<1>4. CASE Ends(p)
  BY <1>1, <1>4, FailsKeeps
<1>5. CASE ~ Ends(p)
  <2>1. PICK a \in Approvals \ DOMAIN approvals :
          /\ \A q \in Procs : ~ Holds(q, a)
          /\ tx' = [tx EXCEPT ![p] =
               [op |-> "create", step |-> "ready", s |-> @.s, key |-> @.key,
                locks |-> @.locks \cup {a} \cup KeyRows(@.key), a |-> a]]
    BY <1>5 DEF CreateInserts
  <2> DEFINE t == [op |-> "create", step |-> "ready", s |-> tx[p].s, key |-> tx[p].key,
                   locks |-> tx[p].locks \cup {a} \cup KeyRows(tx[p].key), a |-> a]
  <2>2. DOMAIN tx = Procs /\ \A q \in Procs \ {p} : Claims(tx[p]) \cap Claims(tx[q]) = {}
    BY <1>1, GoodNow
  <2>3. tx' = [tx EXCEPT ![p] = t]
    BY <1>1, <2>1, <2>2
  <2>4. tx[p].key # NoKey => ~ KeyTaken(tx[p].key)
    BY <1>5 DEF CreateInserts
  <2>5. KeyRows(tx[p].key) \subseteq Rows
    BY <1>3 DEF CreateChecked, Rows, KeyRows
  <2>6. tx[p].locks \subseteq Rows /\ tx[p].s \in Sessions /\ tx[p].key \in Keys \cup {NoKey}
    BY <1>3 DEF CreateChecked
  <2>7. t \in CreateReady /\ t.locks = {t.s, t.a} \cup KeyRows(t.key)
    BY <1>3, <2>5, <2>6 DEF CreateReady, Rows
  <2>8. Good(p, t)
    BY <2>1, <2>4, <2>7 DEF Good, GoodCreate
  <2>9. Claims(t) = Claims(tx[p]) \cup {a} \cup KeyRows(tx[p].key)
    BY <1>2 DEF Claims
  <2>10. \A q \in Procs \ {p} : Claims(t) \cap Claims(tx[q]) = {}
    <3>1. \A row \in {a} \cup KeyRows(tx[p].key) : Free(p, row)
      BY <2>1 DEF CreateInserts, Free
    <3>2. QED
      BY <1>1, <2>2, <2>9, <3>1, FreeRows
  <2> HIDE DEF t
  <2>11. QED
    BY <1>1, <2>3, <2>8, <2>10, OnlyTx
<1>6. QED
  BY <1>4, <1>5

\* A decision reads its reply and begins.
LEMMA SubmitReadsReplayKeeps ==
  ASSUME IInv, NEW p \in Handlers, NEW a \in Approvals, NEW key \in Keys,
         NEW decision \in Decisions, SubmitReadsReplay(p, a, key, decision)
  PROVE  IInv'
<1> DEFINE t == [op |-> "submit", step |-> "checked", locks |-> {}, a |-> a, key |-> key,
                 decision |-> decision]
<1>1. t \in SubmitTx /\ Claims(t) = {}
  BY DEF SubmitTx, Claims
<1>2. Good(p, t)
  BY <1>1 DEF Good, GoodTarget, SubmitReadsReplay
<1>3. p \in Procs /\ Starts(p, t) /\ UNCHANGED tables
  BY DEF SubmitReadsReplay, Procs
<1> HIDE DEF t
<1>4. QED
  BY <1>1, <1>2, <1>3, StartsKeeps

\* An ack begins.
LEMMA AckReadsKeeps ==
  ASSUME IInv, NEW p \in Handlers, NEW a \in Approvals, AckReads(p, a)
  PROVE  IInv'
<1> DEFINE t == [op |-> "ack", step |-> "checked", locks |-> {}, a |-> a]
<1>1. t \in OneApprovalTx /\ Claims(t) = {}
  BY DEF OneApprovalTx, Claims
<1>2. Good(p, t)
  BY <1>1 DEF Good, GoodTarget, AckReads
<1>3. p \in Procs /\ Starts(p, t) /\ UNCHANGED tables
  BY DEF AckReads, Procs
<1> HIDE DEF t
<1>4. QED
  BY <1>1, <1>2, <1>3, StartsKeeps

\* A takeover locks an approval that waits.
LEMMA SupersedeLocksApprovalKeeps ==
  ASSUME IInv, NEW p \in Handlers, NEW a \in Approvals, SupersedeLocksApproval(p, a)
  PROVE  IInv'
<1> DEFINE t == [op |-> "supersede", step |-> "locked", locks |-> {a}, a |-> a]
<1>1. t \in OneApprovalTx /\ Claims(t) = {a}
  BY DEF OneApprovalTx, Claims, Rows
<1>2. Good(p, t)
  BY <1>1 DEF Good, GoodTarget, SupersedeLocksApproval, Claimed
<1>3. p \in Procs /\ Starts(p, t) /\ Free(p, a) /\ UNCHANGED tables
  BY DEF SupersedeLocksApproval, Procs
<1> HIDE DEF t
<1>4. QED
  BY <1>1, <1>2, <1>3, StartsKeeps

\* What a transaction on one approval looks like once it has taken one more row.
LEMMA TargetGoesOn ==
  ASSUME NEW t \in SubmitTx \cup OneApprovalTx, NEW row \in Rows, NEW step \in {"locked", "ready"}
  PROVE  LET u == [t EXCEPT !.locks = @ \cup {row}, !.step = step] IN
           /\ u \in SubmitTx \cup OneApprovalTx
           /\ u.locks = t.locks \cup {row} /\ u.step = step /\ u.a = t.a /\ u.op = t.op
           /\ {"op", "step", "locks"} \subseteq DOMAIN t
<1>1. CASE t \in SubmitTx
  BY <1>1 DEF SubmitTx
<1>2. CASE t \in OneApprovalTx
  BY <1>2 DEF OneApprovalTx
<1>3. QED
  BY <1>1, <1>2

\* A decision or an ack that has waited for the approval finds its status unchanged.
LEMMA TargetLocksKeeps ==
  ASSUME IInv, NEW p \in Handlers, tx[p].op \in {"submit", "ack"}, tx[p].step = "checked",
         approvals[tx[p].a].status = Claimed(tx[p].op), Locks(p, tx[p].a, "locked"),
         UNCHANGED tables
  PROVE  IInv'
<1> DEFINE u == [tx[p] EXCEPT !.locks = @ \cup {tx[p].a}, !.step = "locked"]
<1>1. p \in Procs /\ Running(p)
  BY DEF Procs, Running
<1>2. GoodTarget(p, tx[p])
  BY <1>1, GoodNow
<1>3. tx[p].a \in Rows
  BY <1>2 DEF GoodTarget, SubmitTx, OneApprovalTx, Rows
<1>4. /\ u \in SubmitTx \cup OneApprovalTx
      /\ u.locks = {tx[p].a} /\ u.step = "locked" /\ u.a = tx[p].a /\ u.op = tx[p].op
      /\ {"op", "step", "locks"} \subseteq DOMAIN tx[p]
  BY <1>2, <1>3, TargetGoesOn DEF GoodTarget
<1>5. Good(p, u)
  BY <1>2, <1>4 DEF Good, GoodTarget
<1> HIDE DEF u
<1>6. QED
  BY <1>1, <1>4, <1>5, LocksKeeps DEF u

LEMMA SubmitLocksApprovalKeeps ==
  ASSUME IInv, NEW p \in Handlers, SubmitLocksApproval(p)
  PROVE  IInv'
<1>1. p \in Procs /\ UNCHANGED tables /\ tx[p].op = "submit" /\ tx[p].step = "checked"
  BY DEF SubmitLocksApproval, At, Procs
<1>2. CASE approvals[tx[p].a].status = "waiting_decision"
  BY <1>1, <1>2, TargetLocksKeeps DEF SubmitLocksApproval, Claimed
<1>3. CASE approvals[tx[p].a].status # "waiting_decision"
  BY <1>1, <1>3, FailsKeeps DEF SubmitLocksApproval
<1>4. QED
  BY <1>2, <1>3

LEMMA AckLocksApprovalKeeps ==
  ASSUME IInv, NEW p \in Handlers, AckLocksApproval(p)
  PROVE  IInv'
<1>1. p \in Procs /\ UNCHANGED tables /\ tx[p].op = "ack" /\ tx[p].step = "checked"
  BY DEF AckLocksApproval, At, Procs
<1>2. CASE approvals[tx[p].a].status = "delivering"
  BY <1>1, <1>2, TargetLocksKeeps DEF AckLocksApproval, Claimed
<1>3. CASE approvals[tx[p].a].status # "delivering"
  BY <1>1, <1>3, FailsKeeps DEF AckLocksApproval
<1>4. QED
  BY <1>2, <1>3

\* Each of the three operations takes the session last.
LEMMA LocksSessionKeeps ==
  ASSUME IInv, NEW p \in Handlers, LocksSession(p)
  PROVE  IInv'
<1> DEFINE s == approvals[tx[p].a].session
           u == [tx[p] EXCEPT !.locks = @ \cup {s}, !.step = "ready"]
<1>1. /\ p \in Procs /\ Running(p) /\ UNCHANGED tables
      /\ tx[p].op \in {"submit", "ack", "supersede"} /\ tx[p].step = "locked"
      /\ Locks(p, s, "ready")
  BY DEF LocksSession, Procs
<1>2. GoodTarget(p, tx[p])
  BY <1>1, GoodNow
<1>3. s \in Rows
  BY <1>2 DEF GoodTarget, IInv, TablesOK, Stories, Story, Row, Rows
<1>4. /\ u \in SubmitTx \cup OneApprovalTx
      /\ u.locks = {tx[p].a, s} /\ u.step = "ready" /\ u.a = tx[p].a /\ u.op = tx[p].op
      /\ {"op", "step", "locks"} \subseteq DOMAIN tx[p]
  BY <1>1, <1>2, <1>3, TargetGoesOn DEF GoodTarget
<1>5. Good(p, u)
  BY <1>1, <1>2, <1>4 DEF Good, GoodTarget
<1> HIDE DEF u
<1>6. QED
  BY <1>1, <1>4, <1>5, LocksKeeps DEF u

--------------------------------------------------------------------------------
(* The steps of the scans. *)

\* A scan begins with approvals it has found.
LEMMA ScanStartsKeeps ==
  ASSUME IInv, NEW p \in Workers, NEW op \in {"expire", "retry"},
         NEW found \in SUBSET DOMAIN approvals, Scan(p, op, found)
  PROVE  IInv'
<1> DEFINE t == [op |-> op, step |-> "scanning", locks |-> {}, todo |-> found]
<1>1. DOMAIN approvals \subseteq Approvals
  BY DEF IInv, TablesOK, Columns
<1>2. t \in ScanTx /\ Claims(t) = {}
  BY <1>1 DEF ScanTx, Claims
<1>3. Good(p, t)
  BY <1>2 DEF Good, GoodScan
<1>4. p \in Procs /\ tx' = [tx EXCEPT ![p] = t] /\ UNCHANGED tables
  BY DEF Scan, Procs
<1> HIDE DEF t
<1>5. QED
  BY <1>2, <1>3, <1>4, OnlyTx

\* A scan locks a row it has found, if the row still qualifies; after the last it
\* goes on to the sessions.
LEMMA ScanLocksKeeps ==
  ASSUME IInv, NEW p \in Workers, NEW op \in {"expire", "retry"}, At(p, op, "scanning"),
         UNCHANGED tables,
         \/ /\ tx[p].todo = {}
            /\ \E rows \in SUBSET Due(p) :
                 tx' = [tx EXCEPT ![p].step = "updating", ![p].todo = rows]
         \/ \E a \in tx[p].todo :
              /\ Free(p, a)
              /\ \/ /\ approvals[a].status = Claimed(op)
                    /\ tx' = [tx EXCEPT ![p].todo = @ \ {a}, ![p].locks = @ \cup {a}]
                 \/ tx' = [tx EXCEPT ![p].todo = @ \ {a}, ![p].locks = @]
  PROVE  IInv'
<1>1. p \in Procs /\ tx[p].op = op /\ tx[p].step = "scanning"
  BY DEF At, Procs
<1>2. GoodScan(p, tx[p]) /\ DOMAIN tx = Procs
      /\ \A q \in Procs \ {p} : Claims(tx[p]) \cap Claims(tx[q]) = {}
  BY <1>1, GoodNow
<1>3. tx[p] \in ScanTx /\ tx[p].locks \in SUBSET Rows /\ tx[p].todo \in SUBSET Approvals
  BY <1>2 DEF GoodScan, ScanTx
<1>4. Claims(tx[p]) = tx[p].locks
  BY <1>1 DEF Claims
<1>5. CASE \E rows \in SUBSET Due(p) :
             tx' = [tx EXCEPT ![p].step = "updating", ![p].todo = rows]
  <2>1. PICK rows \in SUBSET Due(p) :
          tx' = [tx EXCEPT ![p].step = "updating", ![p].todo = rows]
    BY <1>5
  <2> DEFINE v == [tx[p] EXCEPT !.step = "updating", !.todo = rows]
  <2>2. tx' = [tx EXCEPT ![p] = v]
    BY <1>1, <1>2, <2>1
  <2>3. rows \in SUBSET Approvals /\ rows \subseteq tx[p].locks
    BY DEF Due
  <2>4. /\ v \in ScanTx /\ v.op = tx[p].op /\ v.step = "updating"
        /\ v.locks = tx[p].locks /\ v.todo = rows
    BY <1>3, <2>3 DEF ScanTx
  <2> HIDE DEF v
  <2>5. GoodScan(p, v)
    BY <1>1, <1>2, <2>3, <2>4 DEF GoodScan
  <2>6. Claims(v) = Claims(tx[p])
    BY <1>1, <1>4, <2>4 DEF Claims
  <2>7. Good(p, v) /\ \A q \in Procs \ {p} : Claims(v) \cap Claims(tx[q]) = {}
    BY <1>2, <2>5, <2>6 DEF Good
  <2>8. QED
    BY <1>1, <2>2, <2>7, OnlyTx
<1>6. ASSUME NEW a \in tx[p].todo, Free(p, a), NEW locks \in {tx[p].locks, tx[p].locks \cup {a}},
             locks = tx[p].locks \/ approvals[a].status = Claimed(op),
             tx' = [tx EXCEPT ![p].todo = @ \ {a}, ![p].locks = locks]
      PROVE  IInv'
  <2> DEFINE u == [tx[p] EXCEPT !.locks = locks, !.todo = tx[p].todo \ {a}]
  <2>1. a \in Approvals /\ a \in DOMAIN approvals /\ locks \in SUBSET Rows
        /\ tx[p].todo \ {a} \in SUBSET Approvals
    BY <1>2, <1>3 DEF GoodScan, Rows
  <2>2. /\ u \in ScanTx /\ u.op = tx[p].op /\ u.step = tx[p].step /\ u.locks = locks
        /\ u.todo = tx[p].todo \ {a}
        /\ u = [tx[p] EXCEPT !.todo = tx[p].todo \ {a}, !.locks = locks]
    BY <1>3, <2>1 DEF ScanTx
  <2>3. tx' = [tx EXCEPT ![p] = u]
    BY <1>1, <1>2, <1>6, <2>2
  <2> HIDE DEF u
  <2>4. GoodScan(p, u)
    BY <1>1, <1>2, <1>6, <2>1, <2>2 DEF GoodScan
  <2>5. Claims(u) = locks
    BY <1>1, <2>2 DEF Claims
  <2>6. ASSUME NEW q \in Procs \ {p}
        PROVE  Claims(u) \cap Claims(tx[q]) = {}
    <3>1. a \notin Claims(tx[q])
      BY <1>1, <1>6, FreeRows
    <3>2. QED
      BY <1>2, <1>4, <2>5, <3>1
  <2>7. QED
    BY <1>1, <2>3, <2>4, <2>6, OnlyTx DEF Good
<1>7. CASE \E a \in tx[p].todo :
              /\ Free(p, a)
              /\ \/ /\ approvals[a].status = Claimed(op)
                    /\ tx' = [tx EXCEPT ![p].todo = @ \ {a}, ![p].locks = @ \cup {a}]
                 \/ tx' = [tx EXCEPT ![p].todo = @ \ {a}, ![p].locks = @]
  <2>1. PICK a \in tx[p].todo :
              /\ Free(p, a)
              /\ \/ /\ approvals[a].status = Claimed(op)
                    /\ tx' = [tx EXCEPT ![p].todo = @ \ {a}, ![p].locks = @ \cup {a}]
                 \/ tx' = [tx EXCEPT ![p].todo = @ \ {a}, ![p].locks = @]
    BY <1>7
  <2>2. CASE /\ approvals[a].status = Claimed(op)
             /\ tx' = [tx EXCEPT ![p].todo = @ \ {a}, ![p].locks = @ \cup {a}]
    <3>1. tx' = [tx EXCEPT ![p].todo = @ \ {a}, ![p].locks = tx[p].locks \cup {a}]
      BY <1>1, <1>2, <1>3, <2>2 DEF ScanTx
    <3>2. QED
      BY <1>6, <2>1, <2>2, <3>1
  <2>3. CASE tx' = [tx EXCEPT ![p].todo = @ \ {a}, ![p].locks = @]
    <3>1. tx' = [tx EXCEPT ![p].todo = @ \ {a}, ![p].locks = tx[p].locks]
      BY <1>1, <1>2, <1>3, <2>3 DEF ScanTx
    <3>2. QED
      BY <1>6, <2>1, <3>1
  <2>4. QED
    BY <2>1, <2>2, <2>3
<1>8. QED
  BY <1>5, <1>7

LEMMA ExpireLocksKeeps ==
  ASSUME IInv, NEW p \in Workers, ExpireLocks(p)
  PROVE  IInv'
<1>1. /\ At(p, "expire", "scanning") /\ UNCHANGED tables
      /\ IF tx[p].todo = {}
           THEN tx' = [tx EXCEPT ![p].step = "updating",
                                 ![p].todo = { a \in Due(p) : TRUE \/ Exhausted(a) }]
           ELSE \E a \in tx[p].todo :
                  /\ Free(p, a)
                  /\ tx' = [tx EXCEPT
                       ![p].todo = @ \ {a},
                       ![p].locks = IF Expirable(a) THEN @ \cup {a} ELSE @]
  BY DEF ExpireLocks, ScanLocks
<1>2. { a \in Due(p) : TRUE \/ Exhausted(a) } \in SUBSET Due(p)
  OBVIOUS
<1>3. \A a : Expirable(a) => approvals[a].status = Claimed("expire")
  BY DEF Expirable, Claimed
<1>4. CASE tx[p].todo = {}
  BY <1>1, <1>2, <1>4, ScanLocksKeeps
<1>5. CASE tx[p].todo # {}
  <2>1. PICK a \in tx[p].todo :
          /\ Free(p, a)
          /\ tx' = [tx EXCEPT ![p].todo = @ \ {a},
                              ![p].locks = IF Expirable(a) THEN @ \cup {a} ELSE @]
    BY <1>1, <1>5
  <2>2. CASE Expirable(a)
    <3>1. tx' = [tx EXCEPT ![p].todo = @ \ {a}, ![p].locks = @ \cup {a}]
      BY <2>1, <2>2
    <3>2. QED
      BY <1>1, <1>3, <2>1, <2>2, <3>1, ScanLocksKeeps
  <2>3. CASE ~ Expirable(a)
    <3>1. tx' = [tx EXCEPT ![p].todo = @ \ {a}, ![p].locks = @]
      BY <2>1, <2>3
    <3>2. QED
      BY <1>1, <2>1, <3>1, ScanLocksKeeps
  <2>4. QED
    BY <2>2, <2>3
<1>6. QED
  BY <1>4, <1>5

LEMMA RetryLocksKeeps ==
  ASSUME IInv, NEW p \in Workers, RetryLocks(p)
  PROVE  IInv'
<1>1. /\ At(p, "retry", "scanning") /\ UNCHANGED tables
      /\ IF tx[p].todo = {}
           THEN tx' = [tx EXCEPT ![p].step = "updating",
                                 ![p].todo = { a \in Due(p) : FALSE \/ Exhausted(a) }]
           ELSE \E a \in tx[p].todo :
                  /\ Free(p, a)
                  /\ tx' = [tx EXCEPT
                       ![p].todo = @ \ {a},
                       ![p].locks = IF Overdue(a) THEN @ \cup {a} ELSE @]
  BY DEF RetryLocks, ScanLocks
<1>2. { a \in Due(p) : FALSE \/ Exhausted(a) } \in SUBSET Due(p)
  OBVIOUS
<1>3. \A a : Overdue(a) => approvals[a].status = Claimed("retry")
  BY DEF Overdue, Claimed
<1>4. CASE tx[p].todo = {}
  BY <1>1, <1>2, <1>4, ScanLocksKeeps
<1>5. CASE tx[p].todo # {}
  <2>1. PICK a \in tx[p].todo :
          /\ Free(p, a)
          /\ tx' = [tx EXCEPT ![p].todo = @ \ {a},
                              ![p].locks = IF Overdue(a) THEN @ \cup {a} ELSE @]
    BY <1>1, <1>5
  <2>2. CASE Overdue(a)
    <3>1. tx' = [tx EXCEPT ![p].todo = @ \ {a}, ![p].locks = @ \cup {a}]
      BY <2>1, <2>2
    <3>2. QED
      BY <1>1, <1>3, <2>1, <2>2, <3>1, ScanLocksKeeps
  <2>3. CASE ~ Overdue(a)
    <3>1. tx' = [tx EXCEPT ![p].todo = @ \ {a}, ![p].locks = @]
      BY <2>1, <2>3
    <3>2. QED
      BY <1>1, <2>1, <3>1, ScanLocksKeeps
  <2>4. QED
    BY <2>2, <2>3
<1>6. QED
  BY <1>4, <1>5

\* A scan takes the session of one of its approvals.
LEMMA ScanUpdatesSessionKeeps ==
  ASSUME IInv, NEW p \in Workers, ScanUpdatesSession(p)
  PROVE  IInv'
<1>1. PICK a \in tx[p].todo :
        /\ Free(p, approvals[a].session)
        /\ tx' = [tx EXCEPT ![p].todo = @ \ {a}, ![p].locks = @ \cup {approvals[a].session}]
  BY DEF ScanUpdatesSession
<1>2. /\ p \in Procs /\ UNCHANGED tables
      /\ tx[p].op \in {"expire", "retry"} /\ tx[p].step = "updating"
  BY DEF ScanUpdatesSession, Procs
<1>3. /\ GoodScan(p, tx[p]) /\ DOMAIN tx = Procs
      /\ \A q \in Procs \ {p} : Claims(tx[p]) \cap Claims(tx[q]) = {}
  BY <1>2, GoodNow
<1> DEFINE s == approvals[a].session
           u == [tx[p] EXCEPT !.todo = tx[p].todo \ {a}, !.locks = tx[p].locks \cup {s}]
<1>4. s \in Sessions
  BY <1>3 DEF GoodScan, IInv, TablesOK, Stories, Story, Row
<1>5. tx[p] \in ScanTx /\ tx[p].locks \cup {s} \in SUBSET Rows
  BY <1>3, <1>4 DEF GoodScan, ScanTx, Rows
<1> HIDE DEF s
<1>6. /\ u \in ScanTx /\ u.op = tx[p].op /\ u.step = "updating"
      /\ u.todo = tx[p].todo \ {a} /\ u.locks = tx[p].locks \cup {s}
  BY <1>2, <1>5 DEF ScanTx
<1>7. tx' = [tx EXCEPT ![p] = u]
  BY <1>1, <1>2, <1>3, <1>5 DEF ScanTx, s
<1> HIDE DEF u
<1>8. u.locks \cap Approvals = tx[p].locks \cap Approvals
  BY <1>4, <1>6, RowsDiffer
<1>9. Good(p, u)
  BY <1>2, <1>3, <1>4, <1>6, <1>8 DEF Good, GoodScan
<1>10. ASSUME NEW q \in Procs \ {p}
       PROVE  Claims(u) \cap Claims(tx[q]) = {}
  <2>1. s \notin Claims(tx[q])
    BY <1>1, <1>2, FreeRows DEF s
  <2>2. Claims(tx[p]) = tx[p].locks /\ Claims(u) = u.locks
    BY <1>2, <1>6 DEF Claims
  <2>3. QED
    BY <1>3, <1>6, <2>1, <2>2
<1>11. QED
  BY <1>2, <1>7, <1>9, <1>10, OnlyTx

--------------------------------------------------------------------------------
(* Commits: what one leaves to the other transactions, and to the tables. *)

\* A commit changes rows its transaction holds, and adds keys it holds: what the
\* others know stays true.
LEMMA CommitKeepsOthers ==
  ASSUME IInv, NEW p \in Procs, Running(p), Ends(p),
         DOMAIN approvals \subseteq DOMAIN approvals',
         DOMAIN approvals' \subseteq DOMAIN approvals \cup Claims(tx[p]),
         \A a \in DOMAIN approvals : approvals'[a].session = approvals[a].session,
         \A a \in DOMAIN approvals : approvals'[a].key = approvals[a].key,
         \A a \in DOMAIN approvals \ Claims(tx[p]) : approvals'[a] = approvals[a],
         \A a \in DOMAIN approvals' \ DOMAIN approvals :
           KeyRows(approvals'[a].key) \subseteq Claims(tx[p])
  PROVE  TransactionsOK'
<1>1. /\ DOMAIN tx = Procs /\ \A q \in Procs : Good(q, tx[q])
      /\ \A q \in Procs \ {p} : Claims(tx[p]) \cap Claims(tx[q]) = {}
      /\ Exclusive
  BY GoodNow DEF IInv, TransactionsOK
<1>2. DOMAIN tx' = Procs /\ tx'[p] = Idle /\ \A q \in Procs \ {p} : tx'[q] = tx[q]
  BY <1>1 DEF Ends
<1>3. Claims(Idle) = {}
  BY DEF Claims, Idle
<1>4. ASSUME NEW q \in Procs \ {p}, NEW t, t = tx[q]
      PROVE  Good(q, t)'
  <2>1. Good(q, t) /\ Claims(tx[p]) \cap Claims(t) = {}
    BY <1>1, <1>4
  <2>2. CASE t = Idle
    BY <2>2 DEF Good
  <2>3. CASE GoodCreate(q, t)
    <3>1. CASE t \in CreateChecked /\ t.locks = {t.s}
      BY <2>3, <3>1 DEF Good, GoodCreate
    <3>2. CASE /\ t \in CreateReady /\ t.locks = {t.s, t.a} \cup KeyRows(t.key)
               /\ t.a \notin DOMAIN approvals
               /\ t.key # NoKey => ~ KeyTaken(t.key)
      <4>1. Claims(t) = t.locks
        BY <3>2 DEF Claims, CreateReady
      <4>2. t.a \notin DOMAIN approvals'
        BY <2>1, <3>2, <4>1
      <4>3. ASSUME t.key # NoKey, NEW b \in DOMAIN approvals'
            PROVE  approvals'[b].key # t.key
        <5>1. CASE b \in DOMAIN approvals
          BY <3>2, <4>3, <5>1 DEF KeyTaken
        <5>2. CASE b \notin DOMAIN approvals
          <6>1. <<"key", t.key>> \in Claims(t) /\ <<"key", t.key>> \notin Claims(tx[p])
            BY <2>1, <3>2, <4>1, <4>3 DEF KeyRows
          <6>2. KeyRows(approvals'[b].key) \subseteq Claims(tx[p])
            BY <5>2
          <6>3. QED
            BY <4>3, <6>1, <6>2 DEF KeyRows
        <5>3. QED
          BY <5>1, <5>2
      <4>4. GoodCreate(q, t)'
        BY <2>3, <3>2, <4>2, <4>3 DEF GoodCreate, KeyTaken
      <4>5. QED
        BY <4>4 DEF Good
    <3>3. QED
      BY <2>3, <3>1, <3>2 DEF GoodCreate
  <2>4. CASE GoodTarget(q, t)
    <3>1. t \in SubmitTx \cup OneApprovalTx /\ t.a \in DOMAIN approvals
      BY <2>4 DEF GoodTarget
    <3>2. Claims(t) = t.locks /\ t.step \in {"checked", "locked", "ready"}
      BY <3>1 DEF Claims, SubmitTx, OneApprovalTx
    <3>3. t.step # "checked" => approvals'[t.a] = approvals[t.a]
      BY <2>1, <2>4, <3>1, <3>2 DEF GoodTarget
    <3>4. t.a \in DOMAIN approvals' /\ approvals'[t.a].session = approvals[t.a].session
      BY <3>1
    <3>5. GoodTarget(q, t)'
      BY <2>4, <3>3, <3>4 DEF GoodTarget
    <3>6. QED
      BY <3>5 DEF Good
  <2>5. CASE GoodScan(q, t)
    <3>1. Claims(t) = t.locks
      BY <2>5 DEF Claims, GoodScan, ScanTx
    <3>2. \A a \in t.locks \cap Approvals : approvals'[a] = approvals[a]
      BY <2>1, <2>5, <3>1 DEF GoodScan
    <3>3. GoodScan(q, t)'
      BY <2>5, <3>2 DEF GoodScan
    <3>4. QED
      BY <3>3 DEF Good
  <2>6. QED
    BY <2>1, <2>2, <2>3, <2>4, <2>5 DEF Good
<1>5. ASSUME NEW q \in Procs
      PROVE  Good(q, tx[q])'
  <2>1. CASE q = p
    BY <1>2, <2>1 DEF Good
  <2>2. CASE q # p
    BY <1>2, <1>4, <2>2
  <2>3. QED
    BY <2>1, <2>2
<1>6. Exclusive'
  <2> SUFFICES ASSUME NEW q \in Procs, NEW r \in Procs, q # r
               PROVE  Claims(tx'[q]) \cap Claims(tx'[r]) = {}
    BY DEF Exclusive, Claims
  <2>1. CASE q = p \/ r = p
    BY <1>2, <1>3, <2>1
  <2>2. CASE q # p /\ r # p
    BY <1>1, <1>2, <2>2 DEF Exclusive
  <2>3. QED
    BY <2>1, <2>2
<1>7. QED
  BY <1>2, <1>5, <1>6 DEF TransactionsOK

\* What the approvals of a session count.
LiveOf(s) == { a \in OfSession(DOMAIN approvals, s) : Live(a) }

LEMMA LiveOfIsFinite ==
  ASSUME TablesOK, NEW s
  PROVE  IsFiniteSet(LiveOf(s)) /\ Cardinality(LiveOf(s)) \in Nat
<1>1. LiveOf(s) \subseteq DOMAIN approvals /\ IsFiniteSet(DOMAIN approvals)
  BY DEF LiveOf, OfSession, TablesOK, Columns
<1>2. IsFiniteSet(LiveOf(s))
  BY <1>1, FS_Subset
<1>3. QED
  BY <1>2, FS_CardinalityType

\* No approval begins or ceases to count.
LEMMA CountStays ==
  ASSUME TablesOK, UNCHANGED pending, DOMAIN approvals' = DOMAIN approvals,
         \A a \in DOMAIN approvals : approvals'[a].session = approvals[a].session,
         \A a \in DOMAIN approvals : Live(a)' <=> Live(a)
  PROVE  PendingCountExact'
<1>1. \A s \in Sessions : LiveOf(s)' = LiveOf(s)
  BY DEF LiveOf, OfSession
<1>2. QED
  BY <1>1 DEF PendingCountExact, LiveOf, TablesOK

\* The approvals of F cease to count, and each session is counted down by its own:
\* GREATEST never has to cut the difference off at zero.
LEMMA CountsDown ==
  ASSUME TablesOK, NEW F, F \subseteq DOMAIN approvals, \A a \in F : Live(a),
         DOMAIN approvals' = DOMAIN approvals,
         \A a \in DOMAIN approvals : approvals'[a].session = approvals[a].session,
         \A a \in DOMAIN approvals \ F : Live(a)' <=> Live(a),
         \A a \in F : ~ Live(a)',
         \A s \in Sessions : pending'[s] = Released(pending[s], Cardinality(OfSession(F, s)))
  PROVE  PendingCountExact' /\ \A s \in Sessions : pending'[s] \in Nat
<1> SUFFICES ASSUME NEW s \in Sessions
             PROVE  pending'[s] = Cardinality(LiveOf(s)') /\ pending'[s] \in Nat
  BY DEF PendingCountExact, LiveOf
<1>1. LiveOf(s)' = LiveOf(s) \ OfSession(F, s) /\ LiveOf(s) \cap OfSession(F, s) = OfSession(F, s)
  BY DEF LiveOf, OfSession
<1>2. IsFiniteSet(LiveOf(s)) /\ Cardinality(LiveOf(s)) \in Nat
  BY LiveOfIsFinite
<1>3. Cardinality(LiveOf(s)') = Cardinality(LiveOf(s)) - Cardinality(OfSession(F, s))
  BY <1>1, <1>2, FS_Difference
<1>4. /\ IsFiniteSet(OfSession(F, s)) /\ Cardinality(OfSession(F, s)) \in Nat
      /\ Cardinality(OfSession(F, s)) <= Cardinality(LiveOf(s))
  BY <1>1, <1>2, FS_Subset, FS_CardinalityType
<1>5. pending[s] = Cardinality(LiveOf(s))
  BY DEF TablesOK, PendingCountExact, LiveOf
<1>6. QED
  BY <1>2, <1>3, <1>4, <1>5 DEF Released

\* The same for one approval.
LEMMA CountsOneDown ==
  ASSUME TablesOK, NEW a \in DOMAIN approvals, Live(a),
         DOMAIN approvals' = DOMAIN approvals,
         \A b \in DOMAIN approvals : approvals'[b].session = approvals[b].session,
         \A b \in DOMAIN approvals \ {a} : Live(b)' <=> Live(b),
         ~ Live(a)',
         pending' = [pending EXCEPT ![approvals[a].session] = Released(@, 1)]
  PROVE  PendingCountExact' /\ pending' \in [Sessions -> Nat]
<1>1. pending \in [Sessions -> Nat] /\ approvals[a].session \in Sessions
  BY DEF TablesOK, Columns, Stories, Story, Row
<1>2. ASSUME NEW s \in Sessions
      PROVE  pending'[s] = Released(pending[s], Cardinality(OfSession({a}, s)))
  <2>1. CASE s = approvals[a].session
    <3>1. OfSession({a}, s) = {a}
      BY <2>1 DEF OfSession
    <3>2. QED
      BY <1>1, <2>1, <3>1, FS_Singleton
  <2>2. CASE s # approvals[a].session
    <3>1. OfSession({a}, s) = {}
      BY <2>2 DEF OfSession
    <3>2. pending'[s] = pending[s] /\ pending[s] \in Nat
      BY <1>1, <2>2
    <3>3. Released(pending[s], 0) = pending[s]
      BY <3>2 DEF Released
    <3>4. QED
      BY <3>1, <3>2, <3>3, FS_EmptySet
  <2>3. QED
    BY <2>1, <2>2
<1> DEFINE F == {a}
<1>3. /\ F \subseteq DOMAIN approvals /\ \A b \in F : Live(b)
      /\ \A b \in F : ~ Live(b)'
      /\ \A b \in DOMAIN approvals \ F : Live(b)' <=> Live(b)
  OBVIOUS
<1>4. \A s \in Sessions : pending'[s] = Released(pending[s], Cardinality(OfSession(F, s)))
  BY <1>2
<1> HIDE DEF F
<1>5. PendingCountExact' /\ \A s \in Sessions : pending'[s] \in Nat
  BY <1>3, <1>4, CountsDown
<1>6. QED
  BY <1>1, <1>5

\* No row is added; the approvals outside F keep all their rows, those of F their keys,
\* a sound story, and their decision if they were decided.
OnlyChange(F) ==
  /\ F \subseteq DOMAIN approvals
  /\ DOMAIN approvals' = DOMAIN approvals /\ DOMAIN deliveries' = DOMAIN deliveries
  /\ DOMAIN actions' = DOMAIN actions
  /\ \A a \in DOMAIN approvals \ F : /\ approvals'[a] = approvals[a]
                                     /\ deliveries'[a] = deliveries[a]
                                     /\ actions'[a] = actions[a]
  /\ \A a \in F : /\ Story(approvals'[a], deliveries'[a], actions'[a])
                  /\ approvals'[a].key = approvals[a].key
                  /\ \/ approvals[a].status = "waiting_decision"
                     \/ /\ approvals'[a].decision = approvals[a].decision
                        /\ approvals'[a].actor = approvals[a].actor

LEMMA TablesGoOn ==
  ASSUME TablesOK, NEW F, OnlyChange(F), pending' \in [Sessions -> Nat], UNCHANGED replays
  PROVE  Columns' /\ ReplayTellsTheDecision' /\ Stories' /\ KeyNamesOneApproval'
<1>1. Stories'
  BY DEF TablesOK, Columns, Stories, OnlyChange
<1>2. KeyNamesOneApproval'
  BY DEF TablesOK, KeyNamesOneApproval, OnlyChange
<1>3. Columns'
  BY DEF TablesOK, Columns, OnlyChange
<1>4. ASSUME NEW entry \in DOMAIN replays
      PROVE  approvals'[entry[1]].actor = "user" /\ approvals'[entry[1]].decision = replays[entry]
  <2>1. /\ entry[1] \in DOMAIN approvals /\ approvals[entry[1]].actor = "user"
        /\ approvals[entry[1]].decision = replays[entry]
    BY DEF TablesOK, Columns, ReplayTellsTheDecision
  <2>2. approvals[entry[1]].status # "waiting_decision"
    BY <2>1 DEF TablesOK, Stories, Story
  <2>3. QED
    BY <2>1, <2>2 DEF OnlyChange
<1>5. ReplayTellsTheDecision'
  BY <1>4 DEF ReplayTellsTheDecision
<1>6. QED
  BY <1>1, <1>2, <1>3, <1>5

--------------------------------------------------------------------------------
(* The commits one by one. *)

\* What a commit of CreateApproval adds: one row of each table, which was not there.
LEMMA CreateCommitsForm ==
  ASSUME IInv, NEW p \in Handlers, NEW verdict \in Verdicts, CreateCommits(p, verdict)
  PROVE  /\ tx[p].a \in Approvals \ DOMAIN approvals
         /\ tx[p].s \in Sessions
         /\ tx[p].key # NoKey => ~ KeyTaken(tx[p].key)
         /\ Claims(tx[p]) = {tx[p].s, tx[p].a} \cup KeyRows(tx[p].key)
         /\ DOMAIN approvals' = DOMAIN approvals \cup {tx[p].a}
         /\ DOMAIN deliveries' = DOMAIN approvals \cup {tx[p].a}
         /\ DOMAIN actions' = DOMAIN approvals \cup {tx[p].a}
         /\ \A b \in DOMAIN approvals : /\ approvals'[b] = approvals[b]
                                        /\ deliveries'[b] = deliveries[b]
                                        /\ actions'[b] = actions[b]
         /\ approvals'[tx[p].a].session = tx[p].s
         /\ approvals'[tx[p].a].key = tx[p].key
         /\ Story(approvals'[tx[p].a], deliveries'[tx[p].a], actions'[tx[p].a])
         /\ approvals'[tx[p].a].status \in {"waiting_decision", "delivering"}
         /\ approvals'[tx[p].a].decision = NoDecision
              <=> approvals'[tx[p].a].status = "waiting_decision"
<1> DEFINE t == tx[p]
           decided == verdict # NoDecision
           row == [session |-> t.s, key |-> t.key, decision |-> verdict,
                   status |-> IF decided THEN "delivering" ELSE "waiting_decision",
                   actor |-> IF decided THEN "policy" ELSE ""]
           sent == IF decided THEN <<Sent>> ELSE << >>
<1>1. p \in Procs /\ t.op = "create" /\ t.step = "ready"
  BY DEF CreateCommits, At, Procs
<1>2. /\ t \in CreateReady /\ t.locks = {t.s, t.a} \cup KeyRows(t.key)
      /\ t.a \notin DOMAIN approvals /\ (t.key # NoKey => ~ KeyTaken(t.key))
  BY <1>1, GoodNow DEF GoodCreate, CreateChecked
<1>3. t.s \in Sessions /\ t.a \in Approvals /\ t.key \in Keys \cup {NoKey} /\ Claims(t) = t.locks
  BY <1>2 DEF CreateReady, Claims
<1>4. DOMAIN deliveries = DOMAIN approvals /\ DOMAIN actions = DOMAIN approvals
  BY DEF IInv, TablesOK, Columns
<1>5. /\ approvals' = Put(approvals, t.a, row)
      /\ deliveries' = Put(deliveries, t.a, sent)
      /\ actions' = Put(actions, t.a, << >>)
  BY DEF CreateCommits
<1>6. /\ row.session = t.s /\ row.key = t.key /\ row.decision = verdict
      /\ row.status \in {"waiting_decision", "delivering"}
      /\ row.decision = NoDecision <=> row.status = "waiting_decision"
  OBVIOUS
<1>7. Story(row, sent, << >>)
  <2>1. row \in Row
    BY <1>3 DEF Row, DecisionTypes, Statuses
  <2>2. CASE decided
    <3>1. sent = <<[status |-> DeliveryStatus(row.status), attempts |-> 1]>>
      BY <2>2 DEF Sent, DeliveryStatus
    <3>2. row.status = "delivering" /\ row.actor = "policy" /\ row.decision # NoDecision
      BY <2>2
    <3> HIDE DEF row, sent
    <3>3. QED
      BY <2>1, <3>1, <3>2 DEF Story, Undelivered
  <2>3. CASE ~ decided
    <3>1. row.status = "waiting_decision" /\ row.actor = "" /\ row.decision = NoDecision
      BY <2>3
    <3>2. sent = << >>
      BY <2>3
    <3> HIDE DEF row, sent
    <3>3. QED
      BY <2>1, <3>1, <3>2 DEF Story, Undelivered
  <2>4. QED
    BY <2>2, <2>3
<1> HIDE DEF row, sent, t
<1>8. /\ DOMAIN approvals' = DOMAIN approvals \cup {t.a} /\ approvals'[t.a] = row
      /\ \A b \in DOMAIN approvals : approvals'[b] = approvals[b]
  BY <1>2, <1>5 DEF Put
<1>9. /\ DOMAIN deliveries' = DOMAIN approvals \cup {t.a} /\ deliveries'[t.a] = sent
      /\ \A b \in DOMAIN approvals : deliveries'[b] = deliveries[b]
  BY <1>2, <1>4, <1>5 DEF Put
<1>10. /\ DOMAIN actions' = DOMAIN approvals \cup {t.a} /\ actions'[t.a] = << >>
       /\ \A b \in DOMAIN approvals : actions'[b] = actions[b]
  BY <1>2, <1>4, <1>5 DEF Put
<1>11. QED
  BY <1>2, <1>3, <1>6, <1>7, <1>8, <1>9, <1>10 DEF t

\* The new approval counts for its session.
LEMMA CreateCounts ==
  ASSUME IInv, NEW p \in Handlers, NEW verdict \in Verdicts, CreateCommits(p, verdict)
  PROVE  PendingCountExact' /\ pending' \in [Sessions -> Nat]
<1> DEFINE a == tx[p].a
<1>1. /\ a \in Approvals \ DOMAIN approvals /\ tx[p].s \in Sessions
      /\ DOMAIN approvals' = DOMAIN approvals \cup {a}
      /\ \A b \in DOMAIN approvals : approvals'[b] = approvals[b]
      /\ approvals'[a].session = tx[p].s
      /\ approvals'[a].status \in {"waiting_decision", "delivering"}
  BY CreateCommitsForm
<1>2. pending \in [Sessions -> Nat] /\ pending' = [pending EXCEPT ![tx[p].s] = @ + 1]
  BY DEF CreateCommits, IInv, TablesOK, Columns
<1>3. pending' \in [Sessions -> Nat]
  BY <1>1, <1>2
<1> HIDE DEF a
<1>4. \A b \in DOMAIN approvals : Live(b)' <=> Live(b)
  BY <1>1 DEF Live
<1>5. ASSUME NEW s \in Sessions
      PROVE  pending'[s] = Cardinality(LiveOf(s)')
  <2>1. IsFiniteSet(LiveOf(s)) /\ Cardinality(LiveOf(s)) \in Nat
    BY LiveOfIsFinite DEF IInv
  <2>2. pending[s] = Cardinality(LiveOf(s))
    BY DEF IInv, TablesOK, PendingCountExact, LiveOf
  <2>3. CASE s = tx[p].s
    <3>1. LiveOf(s)' = LiveOf(s) \cup {a} /\ a \notin LiveOf(s)
      BY <1>1, <1>4, <2>3 DEF LiveOf, OfSession, Live
    <3>2. Cardinality(LiveOf(s)') = Cardinality(LiveOf(s)) + 1
      BY <2>1, <3>1, FS_AddElement
    <3>3. QED
      BY <1>1, <1>2, <2>2, <2>3, <3>2
  <2>4. CASE s # tx[p].s
    <3>1. LiveOf(s)' = LiveOf(s)
      BY <1>1, <1>4, <2>4 DEF LiveOf, OfSession
    <3>2. QED
      BY <1>1, <1>2, <2>2, <2>4, <3>1
  <2>5. QED
    BY <2>3, <2>4
<1>6. QED
  BY <1>3, <1>5 DEF PendingCountExact, LiveOf

LEMMA CreateCommitsKeeps ==
  ASSUME IInv, NEW p \in Handlers, NEW verdict \in Verdicts, CreateCommits(p, verdict)
  PROVE  IInv'
<1> DEFINE a == tx[p].a
<1>1. /\ a \in Approvals \ DOMAIN approvals
      /\ tx[p].key # NoKey => ~ KeyTaken(tx[p].key)
      /\ Claims(tx[p]) = {tx[p].s, a} \cup KeyRows(tx[p].key)
      /\ DOMAIN approvals' = DOMAIN approvals \cup {a}
      /\ DOMAIN deliveries' = DOMAIN approvals \cup {a}
      /\ DOMAIN actions' = DOMAIN approvals \cup {a}
      /\ \A b \in DOMAIN approvals : /\ approvals'[b] = approvals[b]
                                     /\ deliveries'[b] = deliveries[b]
                                     /\ actions'[b] = actions[b]
      /\ approvals'[a].key = tx[p].key
      /\ Story(approvals'[a], deliveries'[a], actions'[a])
  BY CreateCommitsForm
<1> HIDE DEF a
<1>2. p \in Procs /\ Running(p) /\ Ends(p) /\ UNCHANGED replays
  BY DEF CreateCommits, At, Procs, Running
<1>3. TransactionsOK'
  BY <1>1, <1>2, CommitKeepsOthers
<1>4. IsFiniteSet(DOMAIN approvals')
  BY <1>1, FS_AddElement DEF IInv, TablesOK, Columns
<1>5. Columns'
  BY <1>1, <1>2, <1>4, CreateCounts DEF IInv, TablesOK, Columns
<1>6. Stories'
  BY <1>1 DEF IInv, TablesOK, Stories
<1>7. KeyNamesOneApproval'
  BY <1>1 DEF IInv, TablesOK, KeyNamesOneApproval, KeyTaken
<1>8. ReplayTellsTheDecision'
  BY <1>1, <1>2 DEF IInv, TablesOK, Columns, ReplayTellsTheDecision
<1>9. QED
  BY <1>3, <1>5, <1>6, <1>7, <1>8, CreateCounts DEF IInv, TablesOK

\* What holding an approval and its session makes certain.
LEMMA TargetReady ==
  ASSUME IInv, NEW p \in Handlers, tx[p].op \in {"submit", "ack", "supersede"},
         tx[p].step = "ready"
  PROVE  LET a == tx[p].a IN
           /\ p \in Procs /\ Running(p)
           /\ a \in DOMAIN approvals /\ a \in Claims(tx[p])
           /\ approvals[a].status = Claimed(tx[p].op)
           /\ Story(approvals[a], deliveries[a], actions[a])
           /\ approvals[a] \in Row
<1>1. p \in Procs /\ Running(p)
  BY DEF Procs, Running
<1>2. GoodTarget(p, tx[p])
  BY <1>1, GoodNow
<1>3. Story(approvals[tx[p].a], deliveries[tx[p].a], actions[tx[p].a])
  BY <1>2 DEF GoodTarget, IInv, TablesOK, Stories
<1>4. QED
  BY <1>1, <1>2, <1>3 DEF GoodTarget, Claims, Story

\* The row, the delivery and the action a decision leaves.
LEMMA SubmitCommitsForm ==
  ASSUME IInv, NEW p \in Handlers, SubmitCommits(p)
  PROVE  LET a == tx[p].a IN
           /\ DOMAIN approvals' = DOMAIN approvals /\ DOMAIN deliveries' = DOMAIN deliveries
           /\ DOMAIN actions' = DOMAIN actions
           /\ \A b \in DOMAIN approvals \ {a} : /\ approvals'[b] = approvals[b]
                                                /\ deliveries'[b] = deliveries[b]
                                                /\ actions'[b] = actions[b]
           /\ Story(approvals'[a], deliveries'[a], actions'[a])
           /\ approvals'[a] = [approvals[a] EXCEPT !.status = "delivering",
                                 !.decision = tx[p].decision, !.actor = "user"]
           /\ tx[p].decision \in Decisions
           /\ tx[p].key \in Keys
<1> DEFINE a == tx[p].a
           row == [approvals[a] EXCEPT !.status = "delivering",
                     !.decision = tx[p].decision, !.actor = "user"]
<1>1. tx[p].op = "submit" /\ tx[p].step = "ready"
  BY DEF SubmitCommits, At
<1>2. /\ p \in Procs /\ a \in DOMAIN approvals /\ approvals[a].status = "waiting_decision"
      /\ Story(approvals[a], deliveries[a], actions[a]) /\ approvals[a] \in Row
  BY <1>1, TargetReady DEF Claimed
<1>3. tx[p].decision \in Decisions /\ tx[p].key \in Keys
  BY <1>1, <1>2, GoodNow DEF GoodTarget, SubmitTx, OneApprovalTx
<1>4. DOMAIN deliveries = DOMAIN approvals /\ DOMAIN actions = DOMAIN approvals
  BY DEF IInv, TablesOK, Columns
<1>5. /\ approvals' = [approvals EXCEPT ![a].status = "delivering",
                          ![a].decision = tx[p].decision, ![a].actor = "user"]
      /\ deliveries' = [deliveries EXCEPT ![a] = Append(@, Sent)]
      /\ actions' = [actions EXCEPT ![a] = Append(@, tx[p].decision)]
  BY DEF SubmitCommits
<1>6. /\ DOMAIN approvals' = DOMAIN approvals /\ approvals'[a] = row
      /\ \A b \in DOMAIN approvals \ {a} : approvals'[b] = approvals[b]
  BY <1>2, <1>5
<1>7. deliveries[a] = << >> /\ actions[a] = << >>
  BY <1>2 DEF Story, Undelivered
<1>8. deliveries'[a] = <<Sent>> /\ actions'[a] = <<tx[p].decision>>
  BY <1>2, <1>4, <1>5, <1>7
<1>9. /\ row.status = "delivering" /\ row.actor = "user" /\ row.decision = tx[p].decision
      /\ row \in Row
  BY <1>2, <1>3 DEF Row, DecisionTypes, Statuses
<1>10. <<Sent>> = <<[status |-> DeliveryStatus(row.status), attempts |-> 1]>>
  BY <1>9 DEF Sent, DeliveryStatus
<1>11. row.decision # NoDecision
  BY <1>3, <1>9, PostgresAssumption
<1> HIDE DEF row
<1>12. Story(row, <<Sent>>, <<tx[p].decision>>)
  BY <1>9, <1>10, <1>11 DEF Story, Undelivered
<1>13. /\ DOMAIN deliveries' = DOMAIN deliveries /\ DOMAIN actions' = DOMAIN actions
       /\ \A b \in DOMAIN approvals \ {a} : /\ deliveries'[b] = deliveries[b]
                                            /\ actions'[b] = actions[b]
  BY <1>4, <1>5
<1>14. QED
  BY <1>3, <1>6, <1>8, <1>12, <1>13 DEF row

LEMMA SubmitCommitsKeeps ==
  ASSUME IInv, NEW p \in Handlers, SubmitCommits(p)
  PROVE  IInv'
<1> DEFINE a == tx[p].a
           d == tx[p].decision
           k == tx[p].key
<1>1. /\ p \in Procs /\ Running(p) /\ a \in DOMAIN approvals /\ a \in Claims(tx[p])
      /\ approvals[a].status = "waiting_decision" /\ approvals[a] \in Row
      /\ approvals[a].actor = ""
  BY TargetReady DEF SubmitCommits, At, Claimed, Story
<1>2. /\ DOMAIN approvals' = DOMAIN approvals /\ DOMAIN deliveries' = DOMAIN deliveries
      /\ DOMAIN actions' = DOMAIN actions
      /\ \A b \in DOMAIN approvals \ {a} : /\ approvals'[b] = approvals[b]
                                           /\ deliveries'[b] = deliveries[b]
                                           /\ actions'[b] = actions[b]
      /\ Story(approvals'[a], deliveries'[a], actions'[a])
      /\ approvals'[a] = [approvals[a] EXCEPT !.status = "delivering",
                            !.decision = d, !.actor = "user"]
      /\ k \in Keys
  BY SubmitCommitsForm
<1>3. /\ approvals'[a].status = "delivering" /\ approvals'[a].session = approvals[a].session
      /\ approvals'[a].key = approvals[a].key /\ approvals'[a].decision = d
      /\ approvals'[a].actor = "user"
  BY <1>1, <1>2 DEF Row
<1>4. Ends(p) /\ UNCHANGED pending /\ replays' = Put(replays, <<a, k>>, d)
  BY DEF SubmitCommits
<1> HIDE DEF a, k, d
<1>5. /\ \A b \in DOMAIN approvals : approvals'[b].session = approvals[b].session
      /\ \A b \in DOMAIN approvals : approvals'[b].key = approvals[b].key
      /\ \A b \in DOMAIN approvals \ Claims(tx[p]) : approvals'[b] = approvals[b]
  BY <1>1, <1>2, <1>3
<1>6. TransactionsOK'
  BY <1>1, <1>2, <1>4, <1>5, CommitKeepsOthers
<1>7. \A b \in DOMAIN approvals : Live(b)' <=> Live(b)
  BY <1>1, <1>2, <1>3 DEF Live
<1>8. PendingCountExact'
  BY <1>2, <1>4, <1>5, <1>7, CountStays DEF IInv
<1>9. Stories'
  BY <1>2 DEF IInv, TablesOK, Stories
<1>10. KeyNamesOneApproval'
  BY <1>2, <1>5 DEF IInv, TablesOK, KeyNamesOneApproval
<1>11. Columns'
  <2>1. DOMAIN replays' = DOMAIN replays \cup {<<a, k>>}
    BY <1>4 DEF Put
  <2>2. DOMAIN replays' \subseteq (DOMAIN approvals') \X Keys
    <3>1. DOMAIN replays \subseteq (DOMAIN approvals) \X Keys
      BY DEF IInv, TablesOK, Columns
    <3>2. <<a, k>> \in (DOMAIN approvals) \X Keys
      BY <1>1, <1>2
    <3>3. QED
      BY <1>2, <2>1, <3>1, <3>2
  <2>3. QED
    BY <1>2, <1>4, <2>2 DEF IInv, TablesOK, Columns
<1>12. ASSUME NEW entry \in DOMAIN replays'
       PROVE  approvals'[entry[1]].actor = "user" /\ approvals'[entry[1]].decision = replays'[entry]
  <2>1. CASE entry = <<a, k>>
    <3>1. replays'[entry] = d /\ entry[1] = a
      BY <1>4, <2>1 DEF Put
    <3>2. QED
      BY <1>3, <3>1
  <2>2. CASE entry # <<a, k>>
    <3>1. entry \in DOMAIN replays /\ replays'[entry] = replays[entry]
      BY <1>4, <2>2 DEF Put
    <3>2. /\ entry[1] \in DOMAIN approvals /\ approvals[entry[1]].actor = "user"
          /\ approvals[entry[1]].decision = replays[entry]
      BY <3>1 DEF IInv, TablesOK, Columns, ReplayTellsTheDecision
    <3>3. QED
      BY <1>1, <1>2, <3>1, <3>2
  <2>3. QED
    BY <2>1, <2>2
<1>13. ReplayTellsTheDecision'
  BY <1>12 DEF ReplayTellsTheDecision
<1>14. QED
  BY <1>6, <1>8, <1>9, <1>10, <1>11, <1>13 DEF IInv, TablesOK

\* The row and the delivery an ack leaves.
LEMMA AckCommitsForm ==
  ASSUME IInv, NEW p \in Handlers, NEW written \in BOOLEAN, AckCommits(p, written)
  PROVE  LET a == tx[p].a IN
           /\ DOMAIN approvals' = DOMAIN approvals /\ DOMAIN deliveries' = DOMAIN deliveries
           /\ \A b \in DOMAIN approvals \ {a} : /\ approvals'[b] = approvals[b]
                                                /\ deliveries'[b] = deliveries[b]
           /\ Story(approvals'[a], deliveries'[a], actions'[a])
           /\ approvals'[a] = [approvals[a] EXCEPT
                !.status = IF written THEN "delivered" ELSE "delivery_failed"]
<1> DEFINE a == tx[p].a
           n == Len(deliveries[a])
           status == IF written THEN "delivered" ELSE "delivery_failed"
           ended == IF written THEN "acked" ELSE "failed"
           row == [approvals[a] EXCEPT !.status = status]
<1>1. tx[p].op = "ack" /\ tx[p].step = "ready"
  BY DEF AckCommits, At
<1>2. /\ p \in Procs /\ a \in DOMAIN approvals /\ approvals[a].status = "delivering"
      /\ Story(approvals[a], deliveries[a], actions[a]) /\ approvals[a] \in Row
  BY <1>1, TargetReady DEF Claimed
<1>3. DOMAIN deliveries = DOMAIN approvals
  BY DEF IInv, TablesOK, Columns
<1>4. /\ approvals' = [approvals EXCEPT ![a].status = status]
      /\ deliveries' = [deliveries EXCEPT ![a][n].status = ended]
      /\ UNCHANGED actions
  BY DEF AckCommits
<1>5. status \in {"delivered", "delivery_failed"} /\ ended = DeliveryStatus(status)
  BY DEF DeliveryStatus
<1>6. PICK m \in Nat : deliveries[a] = <<[status |-> "sent", attempts |-> m]>>
  BY <1>2 DEF Story, Undelivered, DeliveryStatus
<1>7. n = 1
  BY <1>6
<1> HIDE DEF n, status, ended, a
<1>8. deliveries'[a] = [deliveries[a] EXCEPT ![1].status = ended]
  BY <1>2, <1>3, <1>4, <1>7
<1>9. deliveries'[a] = <<[status |-> ended, attempts |-> m]>>
  BY <1>6, <1>8
<1>10. /\ DOMAIN approvals' = DOMAIN approvals /\ approvals'[a] = row
       /\ \A b \in DOMAIN approvals \ {a} : approvals'[b] = approvals[b]
  BY <1>2, <1>4
<1>11. /\ DOMAIN deliveries' = DOMAIN deliveries
       /\ \A b \in DOMAIN approvals \ {a} : deliveries'[b] = deliveries[b]
  BY <1>2, <1>3, <1>4
<1>12. /\ row \in Row /\ row.status = status /\ row.actor = approvals[a].actor
       /\ row.decision = approvals[a].decision
  BY <1>2, <1>5 DEF Row, Statuses
<1>13. actions'[a] = IF row.actor \in {"", "policy"} THEN << >> ELSE <<row.decision>>
  BY <1>2, <1>4, <1>12 DEF Story
<1> HIDE DEF row
<1>14. Story(row, deliveries'[a], actions'[a])
  BY <1>5, <1>9, <1>12, <1>13 DEF Story, Undelivered
<1>15. QED
  BY <1>10, <1>11, <1>14 DEF row, a, status

\* An approval that leaves the count, in a commit of the handler that holds it.
LEMMA ClosingCommitKeeps ==
  ASSUME IInv, NEW p \in Handlers, tx[p].op \in {"ack", "supersede"}, tx[p].step = "ready",
         NEW row, row.status \notin {"waiting_decision", "delivering"},
         row.session = approvals[tx[p].a].session, row.key = approvals[tx[p].a].key,
         \/ approvals[tx[p].a].status = "waiting_decision"
         \/ /\ row.decision = approvals[tx[p].a].decision
            /\ row.actor = approvals[tx[p].a].actor,
         DOMAIN approvals' = DOMAIN approvals, DOMAIN deliveries' = DOMAIN deliveries,
         DOMAIN actions' = DOMAIN actions, UNCHANGED replays,
         \A b \in DOMAIN approvals \ {tx[p].a} : /\ approvals'[b] = approvals[b]
                                                 /\ deliveries'[b] = deliveries[b]
                                                 /\ actions'[b] = actions[b],
         approvals'[tx[p].a] = row,
         Story(row, deliveries'[tx[p].a], actions'[tx[p].a]),
         pending' = [pending EXCEPT ![approvals[tx[p].a].session] = Released(@, 1)],
         Ends(p)
  PROVE  IInv'
<1>1. PICK a : a = tx[p].a
  OBVIOUS
<1> DEFINE F == {a}
<1>2. /\ p \in Procs /\ Running(p) /\ a \in DOMAIN approvals /\ a \in Claims(tx[p])
      /\ approvals[a].status \in {"waiting_decision", "delivering"}
  BY <1>1, TargetReady DEF Claimed
<1>3. approvals'[a] = row
  BY <1>1
<1>4. \A b \in DOMAIN approvals \ {a} : /\ approvals'[b] = approvals[b]
                                        /\ deliveries'[b] = deliveries[b]
                                        /\ actions'[b] = actions[b]
  BY <1>1
<1>5. /\ \A b \in DOMAIN approvals : approvals'[b].session = approvals[b].session
      /\ \A b \in DOMAIN approvals : approvals'[b].key = approvals[b].key
      /\ \A b \in DOMAIN approvals \ Claims(tx[p]) : approvals'[b] = approvals[b]
  BY <1>2, <1>3, <1>4
<1>6. TransactionsOK'
  BY <1>2, <1>5, CommitKeepsOthers
<1>7. Live(a) /\ ~ Live(a)' /\ \A b \in DOMAIN approvals \ {a} : Live(b)' <=> Live(b)
  BY <1>2, <1>3, <1>4 DEF Live
<1>8. pending' = [pending EXCEPT ![approvals[a].session] = Released(@, 1)]
  BY <1>1
<1>9. PendingCountExact' /\ pending' \in [Sessions -> Nat]
  BY <1>2, <1>5, <1>7, <1>8, CountsOneDown DEF IInv
<1>10. OnlyChange(F)
  BY <1>1, <1>2, <1>3, <1>4, <1>5 DEF OnlyChange
<1> HIDE DEF F
<1>11. Columns' /\ ReplayTellsTheDecision' /\ Stories' /\ KeyNamesOneApproval'
  BY <1>9, <1>10, TablesGoOn DEF IInv
<1>12. QED
  BY <1>6, <1>9, <1>11 DEF IInv, TablesOK

LEMMA AckCommitsKeeps ==
  ASSUME IInv, NEW p \in Handlers, NEW written \in BOOLEAN, AckCommits(p, written)
  PROVE  IInv'
<1> DEFINE a == tx[p].a
           row == [approvals[a] EXCEPT
                     !.status = IF written THEN "delivered" ELSE "delivery_failed"]
<1>1. tx[p].op = "ack" /\ tx[p].step = "ready" /\ approvals[a] \in Row
  BY TargetReady DEF AckCommits, At
<1>2. /\ row.status \notin {"waiting_decision", "delivering"}
      /\ row.session = approvals[a].session /\ row.key = approvals[a].key
      /\ row.decision = approvals[a].decision /\ row.actor = approvals[a].actor
  BY <1>1 DEF Row
<1>3. /\ DOMAIN approvals' = DOMAIN approvals /\ DOMAIN deliveries' = DOMAIN deliveries
      /\ \A b \in DOMAIN approvals \ {a} : /\ approvals'[b] = approvals[b]
                                           /\ deliveries'[b] = deliveries[b]
      /\ Story(approvals'[a], deliveries'[a], actions'[a])
      /\ approvals'[a] = row
  BY AckCommitsForm
<1>4. /\ UNCHANGED <<actions, replays>> /\ Ends(p)
      /\ pending' = [pending EXCEPT ![approvals[a].session] = Released(@, 1)]
  BY DEF AckCommits
<1> HIDE DEF row
<1>5. QED
  BY <1>1, <1>2, <1>3, <1>4, ClosingCommitKeeps

\* The row, the delivery and the action a takeover leaves.
LEMMA SupersedeCommitsForm ==
  ASSUME IInv, NEW p \in Handlers, SupersedeCommits(p)
  PROVE  LET a == tx[p].a IN
           /\ DOMAIN approvals' = DOMAIN approvals /\ DOMAIN deliveries' = DOMAIN deliveries
           /\ DOMAIN actions' = DOMAIN actions
           /\ \A b \in DOMAIN approvals \ {a} : /\ approvals'[b] = approvals[b]
                                                /\ deliveries'[b] = deliveries[b]
                                                /\ actions'[b] = actions[b]
           /\ Story(approvals'[a], deliveries'[a], actions'[a])
           /\ approvals'[a] = [approvals[a] EXCEPT !.status = "cancelled_by_local_input",
                                 !.decision = "local_input", !.actor = "local"]
<1> DEFINE a == tx[p].a
           row == [approvals[a] EXCEPT !.status = "cancelled_by_local_input",
                     !.decision = "local_input", !.actor = "local"]
           Cancelled(sent) == [i \in DOMAIN sent |-> IF sent[i].status \in {"pending", "sent"}
                                 THEN [sent[i] EXCEPT !.status = "cancelled"] ELSE sent[i]]
<1>1. tx[p].op = "supersede" /\ tx[p].step = "ready"
  BY DEF SupersedeCommits, At
<1>2. /\ p \in Procs /\ a \in DOMAIN approvals /\ approvals[a].status = "waiting_decision"
      /\ Story(approvals[a], deliveries[a], actions[a]) /\ approvals[a] \in Row
  BY <1>1, TargetReady DEF Claimed
<1>3. DOMAIN deliveries = DOMAIN approvals /\ DOMAIN actions = DOMAIN approvals
  BY DEF IInv, TablesOK, Columns
<1>4. /\ approvals' = [approvals EXCEPT ![a].status = "cancelled_by_local_input",
                          ![a].decision = "local_input", ![a].actor = "local"]
      /\ deliveries' = [deliveries EXCEPT ![a] = Cancelled(@)]
      /\ actions' = [actions EXCEPT ![a] = Append(@, "local_input")]
  BY DEF SupersedeCommits
<1>5. deliveries[a] = << >> /\ actions[a] = << >>
  BY <1>2 DEF Story, Undelivered
<1>6. Cancelled(deliveries[a]) = << >>
  BY <1>5
<1> HIDE DEF Cancelled
<1>7. deliveries'[a] = << >> /\ actions'[a] = <<"local_input">>
  BY <1>2, <1>3, <1>4, <1>5, <1>6
<1>8. /\ DOMAIN approvals' = DOMAIN approvals /\ approvals'[a] = row
      /\ \A b \in DOMAIN approvals \ {a} : approvals'[b] = approvals[b]
  BY <1>2, <1>4
<1>9. /\ DOMAIN deliveries' = DOMAIN deliveries /\ DOMAIN actions' = DOMAIN actions
      /\ \A b \in DOMAIN approvals \ {a} : /\ deliveries'[b] = deliveries[b]
                                           /\ actions'[b] = actions[b]
  BY <1>2, <1>3, <1>4
<1>10. /\ row \in Row /\ row.status = "cancelled_by_local_input" /\ row.actor = "local"
       /\ row.decision = "local_input"
  BY <1>2 DEF Row, Statuses, DecisionTypes
<1> HIDE DEF row
<1>11. Story(row, << >>, <<"local_input">>)
  BY <1>10 DEF Story, Undelivered
<1>12. QED
  BY <1>7, <1>8, <1>9, <1>11 DEF row

LEMMA SupersedeCommitsKeeps ==
  ASSUME IInv, NEW p \in Handlers, SupersedeCommits(p)
  PROVE  IInv'
<1> DEFINE a == tx[p].a
           row == [approvals[a] EXCEPT !.status = "cancelled_by_local_input",
                     !.decision = "local_input", !.actor = "local"]
<1>1. /\ tx[p].op = "supersede" /\ tx[p].step = "ready" /\ approvals[a] \in Row
      /\ approvals[a].status = "waiting_decision"
  BY TargetReady DEF SupersedeCommits, At, Claimed
<1>2. /\ row.status \notin {"waiting_decision", "delivering"}
      /\ row.session = approvals[a].session /\ row.key = approvals[a].key
  BY <1>1 DEF Row
<1>3. /\ DOMAIN approvals' = DOMAIN approvals /\ DOMAIN deliveries' = DOMAIN deliveries
      /\ DOMAIN actions' = DOMAIN actions
      /\ \A b \in DOMAIN approvals \ {a} : /\ approvals'[b] = approvals[b]
                                           /\ deliveries'[b] = deliveries[b]
                                           /\ actions'[b] = actions[b]
      /\ Story(approvals'[a], deliveries'[a], actions'[a])
      /\ approvals'[a] = row
  BY SupersedeCommitsForm
<1>4. /\ UNCHANGED replays /\ Ends(p)
      /\ pending' = [pending EXCEPT ![approvals[a].session] = Released(@, 1)]
  BY DEF SupersedeCommits
<1> HIDE DEF row
<1>5. QED
  BY <1>1, <1>2, <1>3, <1>4, ClosingCommitKeeps

\* What a scan that holds its approvals and their sessions makes certain.
LEMMA ScanReady ==
  ASSUME IInv, NEW p \in Workers, tx[p].op \in {"expire", "retry"}
  PROVE  /\ p \in Procs /\ Running(p)
         /\ Due(p) \subseteq DOMAIN approvals /\ Due(p) \subseteq Claims(tx[p])
         /\ \A a \in Due(p) : /\ approvals[a].status = Claimed(tx[p].op)
                              /\ Story(approvals[a], deliveries[a], actions[a])
                              /\ approvals[a] \in Row
<1>1. p \in Procs /\ Running(p)
  BY DEF Procs, Running
<1>2. GoodScan(p, tx[p])
  BY <1>1, GoodNow
<1>3. Claims(tx[p]) = tx[p].locks
  BY <1>1 DEF Claims, Running
<1>4. QED
  BY <1>1, <1>2, <1>3 DEF GoodScan, Due, IInv, TablesOK, Stories, Story

\* Every approval the scan holds is rejected by the timeout.
LEMMA ExpireCommitsForm ==
  ASSUME IInv, NEW p \in Workers, ExpireCommits(p), NEW F, F = Due(p)
  PROVE  /\ OnlyChange(F)
         /\ \A a \in F : approvals'[a] = [approvals[a] EXCEPT !.status = "delivering",
                                            !.decision = "reject", !.actor = "system"]
<1>1. tx[p].op = "expire"
  BY DEF ExpireCommits, At
<1>2. /\ F \subseteq DOMAIN approvals
      /\ \A a \in F : /\ approvals[a].status = "waiting_decision"
                      /\ Story(approvals[a], deliveries[a], actions[a])
                      /\ approvals[a] \in Row
  BY <1>1, ScanReady DEF Claimed
<1>3. DOMAIN deliveries = DOMAIN approvals /\ DOMAIN actions = DOMAIN approvals
  BY DEF IInv, TablesOK, Columns
<1>4. /\ DOMAIN approvals' = DOMAIN approvals
      /\ \A a \in DOMAIN approvals \ F : approvals'[a] = approvals[a]
      /\ \A a \in F : approvals'[a] = [approvals[a] EXCEPT !.status = "delivering",
                                         !.decision = "reject", !.actor = "system"]
  BY <1>2 DEF ExpireCommits
<1>5. /\ DOMAIN deliveries' = DOMAIN deliveries
      /\ \A a \in DOMAIN approvals \ F : deliveries'[a] = deliveries[a]
      /\ \A a \in F : deliveries'[a] = Append(deliveries[a], Sent)
  BY <1>2, <1>3 DEF ExpireCommits
<1>6. /\ DOMAIN actions' = DOMAIN actions
      /\ \A a \in DOMAIN approvals \ F : actions'[a] = actions[a]
      /\ \A a \in F : actions'[a] = Append(actions[a], "reject")
  BY <1>2, <1>3 DEF ExpireCommits
<1>7. ASSUME NEW a \in F
      PROVE  /\ Story(approvals'[a], deliveries'[a], actions'[a])
             /\ approvals'[a].key = approvals[a].key
  <2> DEFINE row == [approvals[a] EXCEPT !.status = "delivering",
                       !.decision = "reject", !.actor = "system"]
  <2>1. /\ row \in Row /\ row.status = "delivering" /\ row.decision = "reject"
        /\ row.actor = "system" /\ row.key = approvals[a].key
    BY <1>2 DEF Row, Statuses, DecisionTypes
  <2>2. deliveries[a] = << >> /\ actions[a] = << >>
    BY <1>2 DEF Story, Undelivered
  <2>3. deliveries'[a] = <<Sent>> /\ actions'[a] = <<"reject">>
    BY <1>5, <1>6, <2>2
  <2>4. <<Sent>> = <<[status |-> DeliveryStatus("delivering"), attempts |-> 1]>>
    BY DEF Sent, DeliveryStatus
  <2>5. "reject" # NoDecision
    BY DEF NoDecision
  <2>6. approvals'[a] = row
    BY <1>4
  <2> HIDE DEF row
  <2>7. Story(row, <<Sent>>, <<"reject">>)
    BY <2>1, <2>4, <2>5 DEF Story, Undelivered
  <2>8. QED
    BY <2>1, <2>3, <2>6, <2>7
<1>8. OnlyChange(F)
  BY <1>2, <1>4, <1>5, <1>6, <1>7 DEF OnlyChange
<1>9. QED
  BY <1>4, <1>8

LEMMA ExpireCommitsKeeps ==
  ASSUME IInv, NEW p \in Workers, ExpireCommits(p)
  PROVE  IInv'
<1>1. PICK F : F = Due(p)
  OBVIOUS
<1>2. /\ p \in Procs /\ Running(p) /\ F \subseteq Claims(tx[p]) /\ F \subseteq DOMAIN approvals
      /\ \A a \in F : approvals[a].status = "waiting_decision" /\ approvals[a] \in Row
  BY <1>1, ScanReady DEF ExpireCommits, At, Claimed
<1>3. Ends(p) /\ UNCHANGED pending /\ UNCHANGED replays
  BY DEF ExpireCommits
<1>4. /\ OnlyChange(F)
      /\ \A a \in F : approvals'[a] = [approvals[a] EXCEPT !.status = "delivering",
                                         !.decision = "reject", !.actor = "system"]
  BY <1>1, ExpireCommitsForm
<1>5. \A a \in F : /\ approvals'[a].session = approvals[a].session
                   /\ approvals'[a].key = approvals[a].key
                   /\ approvals'[a].status = "delivering"
  BY <1>2, <1>4 DEF Row
<1>6. /\ DOMAIN approvals' = DOMAIN approvals
      /\ \A a \in DOMAIN approvals : approvals'[a].session = approvals[a].session
      /\ \A a \in DOMAIN approvals : approvals'[a].key = approvals[a].key
      /\ \A a \in DOMAIN approvals \ Claims(tx[p]) : approvals'[a] = approvals[a]
  BY <1>2, <1>4, <1>5 DEF OnlyChange
<1>7. TransactionsOK'
  BY <1>2, <1>3, <1>6, CommitKeepsOthers
<1>8. \A a \in DOMAIN approvals : Live(a)' <=> Live(a)
  BY <1>2, <1>4, <1>5 DEF Live, OnlyChange
<1>9. PendingCountExact'
  BY <1>3, <1>6, <1>8, CountStays DEF IInv
<1>10. pending' \in [Sessions -> Nat]
  BY <1>3 DEF IInv, TablesOK, Columns
<1>11. Columns' /\ ReplayTellsTheDecision' /\ Stories' /\ KeyNamesOneApproval'
  BY <1>3, <1>4, <1>10, TablesGoOn DEF IInv
<1>12. QED
  BY <1>7, <1>9, <1>11 DEF IInv, TablesOK

\* The approvals whose delivery the scan gives up.
GivenUp(p) == { a \in Due(p) : Exhausted(a) }

\* A delivery is sent again, or is given up with its approval.
LEMMA RetryCommitsForm ==
  ASSUME IInv, NEW p \in Workers, RetryCommits(p), NEW F, F = Due(p),
         NEW failed, failed = GivenUp(p)
  PROVE  /\ OnlyChange(F)
         /\ \A a \in F \ failed : approvals'[a] = approvals[a]
         /\ \A a \in failed : approvals'[a] = [approvals[a] EXCEPT !.status = "delivery_failed"]
<1>1. tx[p].op = "retry"
  BY DEF RetryCommits, At
<1>2. /\ F \subseteq DOMAIN approvals /\ failed \subseteq F
      /\ \A a \in F : /\ approvals[a].status = "delivering"
                      /\ Story(approvals[a], deliveries[a], actions[a])
                      /\ approvals[a] \in Row
  BY <1>1, ScanReady DEF Claimed, GivenUp
<1>3. DOMAIN deliveries = DOMAIN approvals /\ DOMAIN actions = DOMAIN approvals
  BY DEF IInv, TablesOK, Columns
<1>4. /\ DOMAIN approvals' = DOMAIN approvals
      /\ \A a \in DOMAIN approvals \ failed : approvals'[a] = approvals[a]
      /\ \A a \in failed : approvals'[a] = [approvals[a] EXCEPT !.status = "delivery_failed"]
  BY <1>2 DEF RetryCommits, GivenUp
<1>5. /\ DOMAIN deliveries' = DOMAIN deliveries
      /\ \A a \in DOMAIN approvals \ F : deliveries'[a] = deliveries[a]
      /\ \A a \in failed :
           deliveries'[a] = [deliveries[a] EXCEPT ![Len(deliveries[a])].status = "failed"]
      /\ \A a \in F \ failed :
           deliveries'[a] = [deliveries[a] EXCEPT ![Len(deliveries[a])].attempts = @ + 1]
  <2>1. deliveries' = [a \in DOMAIN deliveries |->
            CASE a \in failed -> [deliveries[a] EXCEPT ![Len(deliveries[a])].status = "failed"]
              [] a \in F \ failed ->
                   [deliveries[a] EXCEPT ![Len(deliveries[a])].attempts = @ + 1]
              [] OTHER -> deliveries[a]]
    BY DEF RetryCommits, GivenUp
  <2>2. QED
    BY <1>2, <1>3, <2>1
<1>6. UNCHANGED actions
  BY DEF RetryCommits
<1>7. ASSUME NEW a \in F
      PROVE  /\ Story(approvals'[a], deliveries'[a], actions'[a])
             /\ approvals'[a].key = approvals[a].key
             /\ approvals'[a].decision = approvals[a].decision
             /\ approvals'[a].actor = approvals[a].actor
  <2>1. PICK n \in Nat : deliveries[a] = <<[status |-> "sent", attempts |-> n]>>
    BY <1>2 DEF Story, Undelivered, DeliveryStatus
  <2>2. Len(deliveries[a]) = 1
    BY <2>1
  <2>3. CASE a \in failed
    <3> DEFINE row == [approvals[a] EXCEPT !.status = "delivery_failed"]
    <3>1. /\ row \in Row /\ row.status = "delivery_failed" /\ row.key = approvals[a].key
          /\ row.decision = approvals[a].decision /\ row.actor = approvals[a].actor
      BY <1>2 DEF Row, Statuses
    <3>2. deliveries'[a] = [deliveries[a] EXCEPT ![1].status = "failed"]
      BY <1>5, <2>2, <2>3
    <3>3. deliveries'[a] = <<[status |-> DeliveryStatus("delivery_failed"), attempts |-> n]>>
      BY <2>1, <3>2 DEF DeliveryStatus
    <3>4. approvals'[a] = row
      BY <1>4, <2>3
    <3> HIDE DEF row
    <3>5. actions'[a] = IF row.actor \in {"", "policy"} THEN << >> ELSE <<row.decision>>
      BY <1>2, <1>6, <3>1 DEF Story
    <3>6. Story(row, deliveries'[a], actions'[a])
      BY <3>1, <3>3, <3>5 DEF Story, Undelivered
    <3>7. QED
      BY <3>1, <3>4, <3>6
  <2>4. CASE a \notin failed
    <3>1. deliveries'[a] = [deliveries[a] EXCEPT ![1].attempts = @ + 1]
      BY <1>5, <2>2, <2>4
    <3>2. deliveries'[a] = <<[status |-> "sent", attempts |-> n + 1]>>
      BY <2>1, <3>1
    <3>3. approvals'[a] = approvals[a] /\ actions'[a] = actions[a]
      BY <1>2, <1>4, <1>6, <2>4
    <3>4. DeliveryStatus("delivering") = "sent"
      BY DEF DeliveryStatus
    <3>5. Story(approvals[a], deliveries'[a], actions[a])
      <4>1. deliveries'[a] =
              <<[status |-> DeliveryStatus(approvals[a].status), attempts |-> n + 1]>>
        BY <1>2, <3>2, <3>4
      <4>2. n + 1 \in Nat
        OBVIOUS
      <4>3. QED
        BY <1>2, <4>1, <4>2 DEF Story, Undelivered
    <3>6. QED
      BY <3>3, <3>5
  <2>5. QED
    BY <2>3, <2>4
<1>8. OnlyChange(F)
  BY <1>2, <1>4, <1>5, <1>6, <1>7 DEF OnlyChange
<1>9. QED
  BY <1>2, <1>4, <1>8

LEMMA RetryCommitsKeeps ==
  ASSUME IInv, NEW p \in Workers, RetryCommits(p)
  PROVE  IInv'
<1>1. PICK F : F = Due(p)
  OBVIOUS
<1>2. PICK failed : failed = GivenUp(p)
  OBVIOUS
<1>3. /\ p \in Procs /\ Running(p) /\ F \subseteq Claims(tx[p]) /\ F \subseteq DOMAIN approvals
      /\ \A a \in F : approvals[a].status = "delivering" /\ approvals[a] \in Row
  BY <1>1, ScanReady DEF RetryCommits, At, Claimed
<1>4. failed \subseteq F
  BY <1>1, <1>2 DEF GivenUp
<1>5. Ends(p) /\ UNCHANGED replays
  BY DEF RetryCommits
<1>6. /\ OnlyChange(F)
      /\ \A a \in F \ failed : approvals'[a] = approvals[a]
      /\ \A a \in failed : approvals'[a] = [approvals[a] EXCEPT !.status = "delivery_failed"]
  BY <1>1, <1>2, RetryCommitsForm
<1>7. \A a \in failed : /\ approvals'[a].session = approvals[a].session
                        /\ approvals'[a].key = approvals[a].key
                        /\ approvals'[a].status = "delivery_failed"
  BY <1>3, <1>4, <1>6 DEF Row
<1>8. \A a \in DOMAIN approvals \ failed : approvals'[a] = approvals[a]
  BY <1>6 DEF OnlyChange
<1>9. /\ DOMAIN approvals' = DOMAIN approvals
      /\ \A a \in DOMAIN approvals : approvals'[a].session = approvals[a].session
      /\ \A a \in DOMAIN approvals : approvals'[a].key = approvals[a].key
      /\ \A a \in DOMAIN approvals \ Claims(tx[p]) : approvals'[a] = approvals[a]
  BY <1>3, <1>4, <1>6, <1>7, <1>8 DEF OnlyChange
<1>10. TransactionsOK'
  BY <1>3, <1>5, <1>9, CommitKeepsOthers
<1>11. /\ failed \subseteq DOMAIN approvals /\ (\A a \in failed : Live(a))
       /\ (\A a \in DOMAIN approvals \ failed : Live(a)' <=> Live(a))
       /\ \A a \in failed : ~ Live(a)'
  BY <1>3, <1>4, <1>7, <1>8 DEF Live
<1>12. pending' = [s \in Sessions |-> Released(pending[s], Cardinality(OfSession(failed, s)))]
  BY <1>2 DEF RetryCommits, GivenUp
<1>13. \A s \in Sessions : pending'[s] = Released(pending[s], Cardinality(OfSession(failed, s)))
  BY <1>12
<1>14. PendingCountExact' /\ \A s \in Sessions : pending'[s] \in Nat
  BY <1>9, <1>11, <1>13, CountsDown DEF IInv
<1>15. pending' \in [Sessions -> Nat]
  BY <1>12, <1>14
<1>16. Columns' /\ ReplayTellsTheDecision' /\ Stories' /\ KeyNamesOneApproval'
  BY <1>5, <1>6, <1>15, TablesGoOn DEF IInv
<1>17. QED
  BY <1>10, <1>14, <1>16 DEF IInv, TablesOK

--------------------------------------------------------------------------------
(* The invariant, and what follows from it. *)

LEMMA InitIInv == Init => IInv
<1> SUFFICES ASSUME Init PROVE IInv
  OBVIOUS
<1>1. /\ approvals = << >> /\ DOMAIN approvals = {}
      /\ DOMAIN deliveries = {} /\ DOMAIN actions = {} /\ DOMAIN replays = {}
      /\ pending = [s \in Sessions |-> 0] /\ tx = [p \in Procs |-> Idle]
  BY DEF Init
<1>2. Columns
  BY <1>1, FS_EmptySet DEF Columns
<1>3. Stories /\ KeyNamesOneApproval /\ ReplayTellsTheDecision
  BY <1>1 DEF Stories, KeyNamesOneApproval, ReplayTellsTheDecision
<1>4. PendingCountExact
  <2>1. \A s \in Sessions : { a \in OfSession(DOMAIN approvals, s) : Live(a) } = {}
    BY <1>1 DEF OfSession
  <2>2. QED
    BY <1>1, <2>1, FS_EmptySet DEF PendingCountExact
<1>5. TransactionsOK
  BY <1>1 DEF TransactionsOK, Exclusive, Claims, Idle, Good
<1>6. QED
  BY <1>2, <1>3, <1>4, <1>5 DEF IInv, TablesOK

\* Every statement, every commit and every failure keeps the invariant.
LEMMA NextIInv == IInv /\ [Next]_vars => IInv'
<1> SUFFICES ASSUME IInv, [Next]_vars PROVE IInv'
  OBVIOUS
<1>1. CASE UNCHANGED vars
  <2>1. UNCHANGED tables /\ tx' = tx
    BY <1>1 DEF vars
  <2>2. TransactionsOK'
    <3>1. \A p, t : Good(p, t) => Good(p, t)'
      BY <2>1, GoodIsStable
    <3>2. \A p \in Procs : Good(p, tx[p])'
      BY <2>1, <3>1 DEF IInv, TransactionsOK
    <3>3. QED
      BY <2>1, <3>2 DEF IInv, TransactionsOK, Exclusive, Claims
  <2>3. QED
    BY <2>1, <2>2, TablesStay DEF IInv
<1>2. ASSUME NEW p \in Handlers, HandlerNext(p) PROVE IInv'
  BY <1>2, CreateLocksSessionKeeps, CreateInsertsKeeps, CreateCommitsKeeps,
     SubmitReadsReplayKeeps, SubmitLocksApprovalKeeps, SubmitCommitsKeeps,
     AckReadsKeeps, AckLocksApprovalKeeps, AckCommitsKeeps,
     SupersedeLocksApprovalKeeps, SupersedeCommitsKeeps, LocksSessionKeeps
  DEF HandlerNext
<1>3. ASSUME NEW p \in Workers, WorkerNext(p) PROVE IInv'
  <2>1. CASE ScanExpired(p)
    BY <2>1, ScanStartsKeeps DEF ScanExpired
  <2>2. CASE ScanOverdue(p)
    BY <2>2, ScanStartsKeeps DEF ScanOverdue
  <2>3. QED
    BY <1>3, <2>1, <2>2, ExpireLocksKeeps, RetryLocksKeeps, ScanUpdatesSessionKeeps,
       ExpireCommitsKeeps, RetryCommitsKeeps
    DEF WorkerNext
<1>4. ASSUME NEW p \in Procs, Fails(p) PROVE IInv'
  BY <1>4, FailsKeeps DEF Fails
<1>5. QED
  BY <1>1, <1>2, <1>3, <1>4 DEF Next

LEMMA InvariantHolds == Spec => []IInv
BY InitIInv, NextIInv, PTL DEF Spec

\* The rows of every table, and the transactions, have the shape the statements give.
THEOREM TypeCorrect == Spec => []TypeOK
<1>1. IInv => TypeOK
  <2> SUFFICES ASSUME IInv PROVE TypeOK
    OBVIOUS
  <2>1. \A a \in DOMAIN approvals : approvals[a] \in Row
    BY DEF IInv, TablesOK, Stories, Story
  <2>2. ASSUME NEW p \in Procs, Running(p)
        PROVE  /\ tx[p].step \in {"checked", "locked", "half", "ready", "scanning", "updating"}
               /\ tx[p].locks \subseteq Rows
    <3>1. GoodCreate(p, tx[p]) \/ GoodTarget(p, tx[p]) \/ GoodScan(p, tx[p])
      BY <2>2, GoodNow DEF Good
    <3>2. \/ tx[p] \in CreateChecked \/ tx[p] \in CreateReady \/ tx[p] \in SubmitTx
          \/ tx[p] \in OneApprovalTx \/ tx[p] \in ScanTx
      BY <3>1 DEF GoodCreate, GoodTarget, GoodScan
    <3>3. QED
      BY <3>2 DEF CreateChecked, CreateReady, SubmitTx, OneApprovalTx, ScanTx
  <2>3. QED
    BY <2>1, <2>2 DEF TypeOK, IInv, TablesOK, Columns, Row, Rows
<1>2. QED
  BY <1>1, InvariantHolds, PTL

\* pending_approval_count, changed by concurrent transactions, is exact: every
\* transaction that counts an approval down holds the approval, which still counts.
THEOREM PendingCountCorrect == Spec => []PendingCountExact
<1>1. IInv => PendingCountExact
  BY DEF IInv, TablesOK
<1>2. QED
  BY <1>1, InvariantHolds, PTL

\* Two creations with one key leave one approval.
THEOREM KeysNameOneApproval == Spec => []KeyNamesOneApproval
<1>1. IInv => KeyNamesOneApproval
  BY DEF IInv, TablesOK
<1>2. QED
  BY <1>1, InvariantHolds, PTL

\* Approvals, deliveries and actions tell one story of each approval.
THEOREM RowsAreCoherent == Spec => []RowsTellOneStory
<1>1. IInv => RowsTellOneStory
  <2> SUFFICES ASSUME IInv, NEW a \in DOMAIN approvals, NEW row, row = approvals[a]
               PROVE  /\ LastDelivery(a) = CASE row.status = "delivering" -> "sent"
                                             [] row.status = "delivered" -> "acked"
                                             [] row.status = "delivery_failed" -> "failed"
                                             [] OTHER -> "none"
                      /\ Len(deliveries[a]) <= 1
                      /\ actions[a] = IF row.actor \in {"", "policy"} THEN << >>
                                        ELSE <<row.decision>>
    BY DEF RowsTellOneStory
  <2>1. Story(row, deliveries[a], actions[a]) /\ row.status \in Statuses
    BY DEF IInv, TablesOK, Stories, Story, Row
  <2>2. CASE row.status \in Undelivered
    <3>1. deliveries[a] = << >>
      BY <2>1, <2>2 DEF Story
    <3>2. LastDelivery(a) = "none" /\ Len(deliveries[a]) <= 1
      BY <3>1 DEF LastDelivery
    <3>3. QED
      BY <2>1, <2>2, <3>2 DEF Story, Undelivered
  <2>3. CASE row.status \notin Undelivered
    <3>1. PICK n \in Nat : deliveries[a] = <<[status |-> DeliveryStatus(row.status), attempts |-> n]>>
      BY <2>1, <2>3 DEF Story
    <3>2. LastDelivery(a) = DeliveryStatus(row.status) /\ Len(deliveries[a]) <= 1
      BY <3>1 DEF LastDelivery, Last
    <3>3. row.status \in {"delivering", "delivered", "delivery_failed"}
      BY <2>1, <2>3 DEF Statuses, Undelivered
    <3>4. QED
      BY <2>1, <3>2, <3>3 DEF Story, DeliveryStatus
  <2>4. QED
    BY <2>2, <2>3
<1>2. QED
  BY <1>1, InvariantHolds, PTL

\* The reply a repeated request gets is the decision in force.
THEOREM RepliesTellTheDecision == Spec => []ReplayTellsTheDecision
<1>1. IInv => ReplayTellsTheDecision
  BY DEF IInv, TablesOK
<1>2. QED
  BY <1>1, InvariantHolds, PTL

--------------------------------------------------------------------------------
(* No circle of waiting transactions. *)

\* main starts one retry worker.
OneWorker == \A v, w \in Workers : v = w

\* How far a transaction is from its commit: it only waits for ones that are nearer.
Rank(t) ==
  CASE t.op = "none" -> 0
    [] t.op # "none" /\ t.step = "ready" -> 0
    [] t.op = "create" /\ t.step = "checked" -> 1
    [] t.op \in {"expire", "retry"} /\ t.step = "updating" -> 2
    [] t.op \in {"submit", "ack", "supersede"} /\ t.step = "locked" -> 3
    [] t.op \in {"expire", "retry"} /\ t.step = "scanning" -> 4
    [] t.op \in {"submit", "ack", "supersede"} /\ t.step = "checked" -> 5

\* The operation and step of a transaction, its rank, and what it holds and looks for.
Place(p, t) ==
  \/ t.op = "none" /\ Rank(t) = 0
  \/ /\ t.op \in {"create", "submit", "ack", "supersede"} /\ t.step = "ready"
     /\ Rank(t) = 0
  \/ /\ t.op = "create" /\ t.step = "checked" /\ Rank(t) = 1
     /\ t.locks \subseteq Sessions /\ t.key \in Keys \cup {NoKey}
  \/ /\ t.op \in {"expire", "retry"} /\ t.step = "updating" /\ Rank(t) = 2
     /\ p \in Workers /\ t.locks \subseteq Approvals \cup Sessions
     /\ t.todo \subseteq DOMAIN approvals
  \/ /\ t.op \in {"submit", "ack", "supersede"} /\ t.step = "locked" /\ Rank(t) = 3
     /\ t.locks \subseteq Approvals /\ t.a \in DOMAIN approvals
  \/ /\ t.op \in {"expire", "retry"} /\ t.step = "scanning" /\ Rank(t) = 4
     /\ p \in Workers /\ t.locks \subseteq Approvals /\ t.todo \subseteq Approvals
  \/ /\ t.op \in {"submit", "ack", "supersede"} /\ t.step = "checked" /\ Rank(t) = 5
     /\ t.locks = {} /\ t.a \in Approvals

LEMMA RankOfGood ==
  ASSUME NEW p, NEW t, Good(p, t)
  PROVE  Place(p, t)
<1>1. CASE t = Idle
  BY <1>1 DEF Idle, Rank, Place
<1>2. CASE GoodCreate(p, t)
  <2>1. /\ t.op = "create" /\ t.key \in Keys \cup {NoKey}
        /\ \/ t.step = "ready"
           \/ t.step = "checked" /\ t.locks \subseteq Sessions
    BY <1>2 DEF GoodCreate, CreateChecked, CreateReady
  <2>2. QED
    BY <2>1 DEF Rank, Place
<1>3. CASE GoodTarget(p, t)
  <2>1. /\ t.op \in {"submit", "ack", "supersede"} /\ t.step \in {"checked", "locked", "ready"}
        /\ t.a \in Approvals
    BY <1>3 DEF GoodTarget, SubmitTx, OneApprovalTx
  <2>2. /\ t.a \in DOMAIN approvals
        /\ t.step = "checked" => t.locks = {}
        /\ t.step = "locked" => t.locks \subseteq Approvals
    BY <1>3, <2>1 DEF GoodTarget
  <2>3. CASE t.step = "checked"
    <3>1. Rank(t) = 5
      BY <2>1, <2>3 DEF Rank
    <3>2. QED
      BY <2>1, <2>2, <2>3, <3>1 DEF Place
  <2>4. CASE t.step = "locked"
    <3>1. Rank(t) = 3
      BY <2>1, <2>4 DEF Rank
    <3>2. QED
      BY <2>1, <2>2, <2>4, <3>1 DEF Place
  <2>5. CASE t.step = "ready"
    <3>1. Rank(t) = 0
      BY <2>1, <2>5 DEF Rank
    <3>2. QED
      BY <2>1, <2>5, <3>1 DEF Place
  <2>6. QED
    BY <2>1, <2>3, <2>4, <2>5
<1>4. CASE GoodScan(p, t)
  <2>1. /\ t.op \in {"expire", "retry"} /\ t.step \in {"scanning", "updating"}
        /\ t.todo \subseteq Approvals
    BY <1>4 DEF GoodScan, ScanTx
  <2>2. QED
    BY <1>4, <2>1 DEF GoodScan, Rank, Place
<1>5. QED
  BY <1>1, <1>2, <1>3, <1>4 DEF Good

\* What a transaction at each step waits for.
LEMMA WantsByStep ==
  ASSUME NEW p, NEW t, t = tx[p]
  PROVE  /\ t.op = "none" => Wants(p) = {}
         /\ t.op # "none" /\ t.step = "ready" => Wants(p) = {}
         /\ t.op # "none" /\ t.step = "locked" => Wants(p) = {approvals[t.a].session}
         /\ t.op # "none" /\ t.step = "scanning" => Wants(p) = t.todo
         /\ t.op # "none" /\ t.step = "updating" =>
              Wants(p) = { approvals[a].session : a \in t.todo }
         /\ t.op = "create" /\ t.step = "checked" => Wants(p) = KeyRows(t.key)
         /\ t.op \notin {"none", "create"} /\ t.step = "checked" => Wants(p) = {t.a}
<1>1. t.op = "none" => Wants(p) = {}
  BY DEF Wants, Running
<1>2. t.op # "none" /\ t.step = "ready" => Wants(p) = {}
  BY DEF Wants, Running
<1>3. t.op # "none" /\ t.step = "locked" => Wants(p) = {approvals[t.a].session}
  BY DEF Wants, Running
<1>4. t.op # "none" /\ t.step = "scanning" => Wants(p) = t.todo
  BY DEF Wants, Running
<1>5. t.op # "none" /\ t.step = "updating" => Wants(p) = { approvals[a].session : a \in t.todo }
  BY DEF Wants, Running
<1>6. t.op = "create" /\ t.step = "checked" => Wants(p) = KeyRows(t.key)
  BY DEF Wants, Running
<1>7. t.op \notin {"none", "create"} /\ t.step = "checked" => Wants(p) = {t.a}
  BY DEF Wants, Running
<1>8. QED
  BY <1>1, <1>2, <1>3, <1>4, <1>5, <1>6, <1>7

\* A transaction that waits, waits for one of a lower rank.
LEMMA WaitsForNearer ==
  ASSUME IInv, OneWorker, NEW p \in Procs, NEW q \in WaitsFor(p)
  PROVE  Rank(tx[q]) < Rank(tx[p])
<1>1. q \in Procs /\ q # p
  BY DEF WaitsFor
<1>2. PICK row \in Wants(p) : Holds(q, row)
  BY DEF WaitsFor
<1>3. PICK t : t = tx[p]
  OBVIOUS
<1>4. PICK u : u = tx[q]
  OBVIOUS
<1>5. Place(p, t) /\ Place(q, u)
  BY <1>1, <1>3, <1>4, GoodNow, RankOfGood
<1>6. u.op # "none" /\ row \in u.locks
  BY <1>2, <1>4 DEF Holds, Running
<1>7. \A a \in DOMAIN approvals : approvals[a].session \in Sessions
  BY DEF IInv, TablesOK, Stories, Story, Row
<1>8. row \in Sessions => Rank(u) \in 0 .. 1 \/ (Rank(u) = 2 /\ q \in Workers)
  BY <1>5, <1>6, RowsDiffer DEF Place
<1>9. row \in Approvals => Rank(u) \in 0 .. 3 \/ (Rank(u) = 4 /\ q \in Workers)
  BY <1>5, <1>6, RowsDiffer DEF Place
<1>10. ASSUME NEW key \in Keys, row = <<"key", key>>
       PROVE  Rank(u) = 0
  <2>1. row \notin Approvals /\ row \notin Sessions
    BY <1>10, RowsDiffer
  <2>2. QED
    BY <1>5, <1>6, <2>1 DEF Place
<1>11. t.op # "none" /\ t.step # "ready"
  BY <1>2, <1>3, WantsByStep
<1>12. CASE t.op = "create" /\ t.step = "checked"
  <2>1. Rank(t) = 1 /\ t.key \in Keys \cup {NoKey}
    BY <1>5, <1>12 DEF Place
  <2>2. row \in KeyRows(t.key)
    BY <1>2, <1>3, <1>12, WantsByStep
  <2>3. t.key \in Keys /\ row = <<"key", t.key>>
    BY <2>1, <2>2 DEF KeyRows
  <2>4. QED
    BY <1>3, <1>4, <1>10, <2>1, <2>3
<1>13. CASE t.op \in {"expire", "retry"} /\ t.step = "updating"
  <2>1. Rank(t) = 2 /\ p \in Workers /\ t.todo \subseteq DOMAIN approvals
    BY <1>5, <1>13 DEF Place
  <2>2. Wants(p) = { approvals[a].session : a \in t.todo }
    BY <1>3, <1>13, WantsByStep
  <2>3. row \in Sessions
    BY <1>2, <1>7, <2>1, <2>2
  <2>4. QED
    BY <1>1, <1>3, <1>4, <1>8, <2>1, <2>3 DEF OneWorker
<1>14. CASE t.op \in {"submit", "ack", "supersede"} /\ t.step = "locked"
  <2>1. Rank(t) = 3 /\ t.a \in DOMAIN approvals
    BY <1>5, <1>14 DEF Place
  <2>2. Wants(p) = {approvals[t.a].session}
    BY <1>3, <1>14, WantsByStep
  <2>3. row \in Sessions
    BY <1>2, <1>7, <2>1, <2>2
  <2>4. QED
    BY <1>3, <1>4, <1>8, <2>1, <2>3
<1>15. CASE t.op \in {"expire", "retry"} /\ t.step = "scanning"
  <2>1. Rank(t) = 4 /\ p \in Workers /\ t.todo \subseteq Approvals
    BY <1>5, <1>15 DEF Place
  <2>2. row \in Approvals
    BY <1>2, <1>3, <1>15, <2>1, WantsByStep
  <2>3. QED
    BY <1>1, <1>3, <1>4, <1>9, <2>1, <2>2 DEF OneWorker
<1>16. CASE t.op \in {"submit", "ack", "supersede"} /\ t.step = "checked"
  <2>1. Rank(t) = 5 /\ t.a \in Approvals
    BY <1>5, <1>16 DEF Place
  <2>2. row \in Approvals
    BY <1>2, <1>3, <1>16, <2>1, WantsByStep
  <2>3. QED
    BY <1>3, <1>4, <1>9, <2>1, <2>2
<1>17. QED
  BY <1>5, <1>11, <1>12, <1>13, <1>14, <1>15, <1>16 DEF Place

\* With the one worker the server starts, transactions never wait in a circle, however
\* many requests run at the same time.
THEOREM NoDeadlock == ASSUME OneWorker PROVE Spec => []NoLockCycle
<1>1. IInv => NoLockCycle
  <2> SUFFICES ASSUME IInv, NEW S \in SUBSET Procs, S # {},
                      \A p \in S : WaitsFor(p) \cap S # {}
               PROVE  FALSE
    BY DEF NoLockCycle
  <2>1. \A p \in S : \E q \in S : Rank(tx[q]) < Rank(tx[p])
    BY WaitsForNearer
  <2>2. ASSUME NEW p \in S
        PROVE  Rank(tx[p]) \in 0 .. 5
    <3>1. Good(p, tx[p])
      BY GoodNow
    <3>2. QED
      BY <3>1, RankOfGood DEF Place
  <2>3. \A p \in S : Rank(tx[p]) # 0
    BY <2>1, <2>2
  <2>4. \A p \in S : Rank(tx[p]) # 1
    BY <2>1, <2>2, <2>3
  <2>5. \A p \in S : Rank(tx[p]) # 2
    BY <2>1, <2>2, <2>3, <2>4
  <2>6. \A p \in S : Rank(tx[p]) # 3
    BY <2>1, <2>2, <2>3, <2>4, <2>5
  <2>7. \A p \in S : Rank(tx[p]) # 4
    BY <2>1, <2>2, <2>3, <2>4, <2>5, <2>6
  <2>8. QED
    BY <2>1, <2>2, <2>3, <2>4, <2>5, <2>6, <2>7
<1>2. QED
  BY <1>1, InvariantHolds, PTL

--------------------------------------------------------------------------------
(* The transactions implement the abstract life of an approval. *)

\* The ledger's entry for one row.
View(row) ==
  [owner |-> row.session, phase |-> PhaseOf(row.status),
   decision |-> row.decision, by |-> row.actor]

LEMMA LedgerViews ==
  /\ DOMAIN Ledger = DOMAIN approvals
  /\ \A a \in DOMAIN approvals : Ledger[a] = View(approvals[a])
  /\ DOMAIN Ledger' = DOMAIN approvals'
  /\ \A a \in DOMAIN approvals' : Ledger'[a] = View(approvals'[a])
BY DEF Ledger, View

\* The phases of the five statuses.
LEMMA Phases ==
  /\ PhaseOf("waiting_decision") = "open"
  /\ PhaseOf("delivering") = "decided"
  /\ PhaseOf("delivered") = "done"
  /\ PhaseOf("delivery_failed") = "failed"
  /\ PhaseOf("cancelled_by_local_input") = "withdrawn"
BY DEF PhaseOf

\* A row of the table makes an entry of the ledger.
LEMMA ViewType ==
  ASSUME NEW row \in Row
  PROVE  View(row) \in Lifecycle!Entry
<1>1. PhaseOf(row.status) \in {"open", "decided", "done", "failed", "withdrawn"}
  BY DEF PhaseOf, Row, Statuses
<1>2. QED
  BY <1>1 DEF View, Row, DecisionTypes, Lifecycle!Entry

\* Rows that change their status together make an abstract move.
LEMMA MovesTogether ==
  ASSUME IInv', NEW S, S \subseteq DOMAIN approvals, S # {}, NEW from, NEW to,
         DOMAIN approvals' = DOMAIN approvals,
         \A a \in DOMAIN approvals \ S : approvals'[a] = approvals[a],
         \A a \in S : /\ PhaseOf(approvals[a].status) = from
                      /\ PhaseOf(approvals'[a].status) = to
                      /\ approvals'[a].session = approvals[a].session
  PROVE  Lifecycle!Move(S, from, to)
<1>1. \A a \in S : a \in DOMAIN Ledger /\ Ledger[a].phase = from
  BY LedgerViews DEF View
<1>2. DOMAIN Ledger' = DOMAIN Ledger
  BY LedgerViews
<1>3. \A a \in DOMAIN Ledger \ S : Ledger'[a] = Ledger[a]
  BY LedgerViews
<1>4. ASSUME NEW a \in S
      PROVE  /\ Ledger'[a] \in Lifecycle!Entry
             /\ Ledger'[a].owner = Ledger[a].owner
             /\ Ledger'[a].phase = to
  <2>1. approvals'[a] \in Row
    BY DEF IInv, TablesOK, Stories, Story
  <2>2. Ledger'[a] \in Lifecycle!Entry
    BY <2>1, LedgerViews, ViewType
  <2>3. QED
    BY <2>2, LedgerViews DEF View
<1>5. QED
  BY <1>1, <1>2, <1>3, <1>4 DEF Lifecycle!Move

\* The commit of a creation raises the approval.
LEMMA CreateRaises ==
  ASSUME IInv, NEW p \in Handlers, NEW verdict \in Verdicts, CreateCommits(p, verdict)
  PROVE  \E a \in Approvals : Lifecycle!Raise(a)
<1>1. PICK a : a = tx[p].a
  OBVIOUS
<1>2. /\ a \in Approvals \ DOMAIN approvals
      /\ DOMAIN approvals' = DOMAIN approvals \cup {a}
      /\ \A b \in DOMAIN approvals : approvals'[b] = approvals[b]
      /\ Story(approvals'[a], deliveries'[a], actions'[a])
      /\ approvals'[a].status \in {"waiting_decision", "delivering"}
      /\ approvals'[a].decision = NoDecision <=> approvals'[a].status = "waiting_decision"
  BY <1>1, CreateCommitsForm
<1>3. Ledger'[a] \in Lifecycle!Entry
  BY <1>2, LedgerViews, ViewType DEF Story
<1>4. \/ Ledger'[a].phase = "open" /\ Ledger'[a].decision = NoDecision
      \/ Ledger'[a].phase = "decided" /\ Ledger'[a].decision # NoDecision
  <2>1. /\ Ledger'[a].phase = PhaseOf(approvals'[a].status)
        /\ Ledger'[a].decision = approvals'[a].decision
    <3>1. Ledger'[a] = View(approvals'[a])
      BY <1>2, LedgerViews
    <3>2. QED
      BY <3>1 DEF View
  <2>2. CASE approvals'[a].status = "waiting_decision"
    BY <1>2, <2>1, <2>2, Phases
  <2>3. CASE approvals'[a].status = "delivering"
    BY <1>2, <2>1, <2>3, Phases
  <2>4. QED
    BY <1>2, <2>2, <2>3
<1>5. /\ a \notin DOMAIN Ledger /\ DOMAIN Ledger' = DOMAIN Ledger \cup {a}
      /\ \A b \in DOMAIN Ledger : Ledger'[b] = Ledger[b]
  BY <1>2, LedgerViews
<1>6. Lifecycle!Raise(a)
  BY <1>3, <1>4, <1>5 DEF Lifecycle!Raise, Lifecycle!NoDecision, NoDecision
<1>7. QED
  BY <1>2, <1>6

\* Approvals that waited and are decided together make one Decide.
LEMMA DecideTogether ==
  ASSUME IInv, IInv', NEW S, S \subseteq DOMAIN approvals, S # {},
         DOMAIN approvals' = DOMAIN approvals,
         \A a \in DOMAIN approvals \ S : approvals'[a] = approvals[a],
         \A a \in S : /\ approvals[a].status = "waiting_decision"
                      /\ approvals'[a].status = "delivering"
                      /\ approvals'[a].session = approvals[a].session
  PROVE  Lifecycle!Next
<1>1. Lifecycle!Move(S, "open", "decided")
  BY Phases, MovesTogether
<1>2. \A a \in S : Ledger'[a].decision # NoDecision
  <2>1. \A a \in S : approvals'[a].decision # NoDecision
    BY DEF IInv, TablesOK, Stories, Story
  <2>2. QED
    BY <2>1, LedgerViews DEF View
<1>3. Lifecycle!Decide(S)
  BY <1>1, <1>2 DEF Lifecycle!Decide, Lifecycle!NoDecision, NoDecision
<1>4. S \in SUBSET Approvals
  BY DEF IInv, TablesOK, Columns
<1>5. QED
  BY <1>3, <1>4 DEF Lifecycle!Next

\* Deliveries that end together, in the same way, make one Close.
LEMMA CloseTogether ==
  ASSUME IInv, IInv', NEW S, S \subseteq DOMAIN approvals, S # {},
         NEW status \in {"delivered", "delivery_failed"},
         DOMAIN approvals' = DOMAIN approvals,
         \A a \in DOMAIN approvals \ S : approvals'[a] = approvals[a],
         \A a \in S : /\ approvals[a].status = "delivering"
                      /\ approvals'[a] = [approvals[a] EXCEPT !.status = status]
  PROVE  Lifecycle!Next
<1>1. ASSUME NEW a \in S
      PROVE  /\ approvals'[a].status = status
             /\ approvals'[a].session = approvals[a].session
             /\ approvals'[a].decision = approvals[a].decision
             /\ approvals'[a].actor = approvals[a].actor
  <2>1. approvals[a] \in Row
    BY DEF IInv, TablesOK, Stories, Story
  <2>2. QED
    BY <2>1 DEF Row
<1>2. Lifecycle!Move(S, "decided", PhaseOf(status))
  BY <1>1, Phases, MovesTogether
<1>3. Lifecycle!KeepsDecision(S)
  BY <1>1, LedgerViews DEF Lifecycle!KeepsDecision, View
<1>4. PhaseOf(status) \in {"done", "failed"}
  BY Phases
<1>5. Lifecycle!Close(S)
  BY <1>2, <1>3, <1>4 DEF Lifecycle!Close
<1>6. S \in SUBSET Approvals
  BY DEF IInv, TablesOK, Columns
<1>7. QED
  BY <1>5, <1>6 DEF Lifecycle!Next

LEMMA SubmitDecides ==
  ASSUME IInv, IInv', NEW p \in Handlers, SubmitCommits(p)
  PROVE  Lifecycle!Next
<1>1. PICK a : a = tx[p].a
  OBVIOUS
<1>2. /\ a \in DOMAIN approvals /\ approvals[a].status = "waiting_decision"
      /\ approvals[a] \in Row
  BY <1>1, TargetReady DEF SubmitCommits, At, Claimed
<1>3. /\ DOMAIN approvals' = DOMAIN approvals
      /\ \A b \in DOMAIN approvals \ {a} : approvals'[b] = approvals[b]
      /\ approvals'[a] = [approvals[a] EXCEPT !.status = "delivering",
                            !.decision = tx[p].decision, !.actor = "user"]
  BY <1>1, SubmitCommitsForm
<1>4. approvals'[a].status = "delivering" /\ approvals'[a].session = approvals[a].session
  BY <1>2, <1>3 DEF Row
<1> DEFINE S == {a}
<1>5. /\ S \subseteq DOMAIN approvals /\ S # {}
      /\ \A b \in DOMAIN approvals \ S : approvals'[b] = approvals[b]
      /\ \A b \in S : /\ approvals[b].status = "waiting_decision"
                      /\ approvals'[b].status = "delivering"
                      /\ approvals'[b].session = approvals[b].session
  BY <1>2, <1>3, <1>4
<1> HIDE DEF S
<1>6. QED
  BY <1>3, <1>5, DecideTogether

LEMMA AckCloses ==
  ASSUME IInv, IInv', NEW p \in Handlers, NEW written \in BOOLEAN, AckCommits(p, written)
  PROVE  Lifecycle!Next
<1>1. PICK a : a = tx[p].a
  OBVIOUS
<1>2. PICK status : status = IF written THEN "delivered" ELSE "delivery_failed"
  OBVIOUS
<1>3. /\ a \in DOMAIN approvals /\ approvals[a].status = "delivering"
      /\ status \in {"delivered", "delivery_failed"}
  BY <1>1, <1>2, TargetReady DEF AckCommits, At, Claimed
<1>4. /\ DOMAIN approvals' = DOMAIN approvals
      /\ \A b \in DOMAIN approvals \ {a} : approvals'[b] = approvals[b]
      /\ approvals'[a] = [approvals[a] EXCEPT !.status = status]
  BY <1>1, <1>2, AckCommitsForm
<1> DEFINE S == {a}
<1>5. /\ S \subseteq DOMAIN approvals /\ S # {}
      /\ \A b \in DOMAIN approvals \ S : approvals'[b] = approvals[b]
      /\ \A b \in S : /\ approvals[b].status = "delivering"
                      /\ approvals'[b] = [approvals[b] EXCEPT !.status = status]
  BY <1>3, <1>4
<1> HIDE DEF S
<1>6. QED
  BY <1>3, <1>4, <1>5, CloseTogether

LEMMA SupersedeWithdraws ==
  ASSUME IInv, IInv', NEW p \in Handlers, SupersedeCommits(p)
  PROVE  Lifecycle!Next
<1>1. PICK a : a = tx[p].a
  OBVIOUS
<1>2. /\ a \in DOMAIN approvals /\ approvals[a].status = "waiting_decision"
      /\ approvals[a] \in Row
  BY <1>1, TargetReady DEF SupersedeCommits, At, Claimed
<1>3. /\ DOMAIN approvals' = DOMAIN approvals
      /\ \A b \in DOMAIN approvals \ {a} : approvals'[b] = approvals[b]
      /\ approvals'[a] = [approvals[a] EXCEPT !.status = "cancelled_by_local_input",
                            !.decision = "local_input", !.actor = "local"]
  BY <1>1, SupersedeCommitsForm
<1>4. /\ approvals'[a].status = "cancelled_by_local_input"
      /\ approvals'[a].session = approvals[a].session
  BY <1>2, <1>3 DEF Row
<1>5. /\ PhaseOf(approvals[a].status) = "open"
      /\ PhaseOf(approvals'[a].status) = "withdrawn"
  BY <1>2, <1>4, Phases
<1> DEFINE S == {a}
<1>6. /\ S \subseteq DOMAIN approvals /\ S # {}
      /\ \A b \in DOMAIN approvals \ S : approvals'[b] = approvals[b]
      /\ \A b \in S : /\ PhaseOf(approvals[b].status) = "open"
                      /\ PhaseOf(approvals'[b].status) = "withdrawn"
                      /\ approvals'[b].session = approvals[b].session
  BY <1>2, <1>3, <1>4, <1>5
<1> HIDE DEF S
<1>7. Lifecycle!Move(S, "open", "withdrawn")
  BY <1>3, <1>6, MovesTogether
<1>8. Lifecycle!Withdraw(a) /\ a \in Approvals
  BY <1>2, <1>7 DEF Lifecycle!Withdraw, S, IInv, TablesOK, Columns
<1>9. QED
  BY <1>8 DEF Lifecycle!Next

LEMMA ExpireDecides ==
  ASSUME IInv, IInv', NEW p \in Workers, ExpireCommits(p)
  PROVE  Lifecycle!Next \/ UNCHANGED Ledger
<1>1. PICK F : F = Due(p)
  OBVIOUS
<1>2. /\ F \subseteq DOMAIN approvals
      /\ \A a \in F : approvals[a].status = "waiting_decision" /\ approvals[a] \in Row
  BY <1>1, ScanReady DEF ExpireCommits, At, Claimed
<1>3. /\ OnlyChange(F)
      /\ \A a \in F : approvals'[a] = [approvals[a] EXCEPT !.status = "delivering",
                                         !.decision = "reject", !.actor = "system"]
  BY <1>1, ExpireCommitsForm
<1>4. \A a \in F : /\ approvals[a].status = "waiting_decision"
                   /\ approvals'[a].status = "delivering"
                   /\ approvals'[a].session = approvals[a].session
  BY <1>2, <1>3 DEF Row
<1>5. /\ DOMAIN approvals' = DOMAIN approvals
      /\ \A a \in DOMAIN approvals \ F : approvals'[a] = approvals[a]
  BY <1>3 DEF OnlyChange
<1>6. CASE F = {}
  BY <1>5, <1>6 DEF Ledger
<1>7. CASE F # {}
  BY <1>2, <1>4, <1>5, <1>7, DecideTogether
<1>8. QED
  BY <1>6, <1>7

LEMMA RetryCloses ==
  ASSUME IInv, IInv', NEW p \in Workers, RetryCommits(p)
  PROVE  Lifecycle!Next \/ UNCHANGED Ledger
<1>1. PICK F : F = Due(p)
  OBVIOUS
<1>2. PICK failed : failed = GivenUp(p)
  OBVIOUS
<1>3. /\ F \subseteq DOMAIN approvals /\ failed \subseteq F
      /\ \A a \in F : approvals[a].status = "delivering"
  BY <1>1, <1>2, ScanReady DEF RetryCommits, At, Claimed, GivenUp
<1>4. /\ OnlyChange(F)
      /\ \A a \in F \ failed : approvals'[a] = approvals[a]
      /\ \A a \in failed : approvals'[a] = [approvals[a] EXCEPT !.status = "delivery_failed"]
  BY <1>1, <1>2, RetryCommitsForm
<1>5. /\ DOMAIN approvals' = DOMAIN approvals
      /\ \A a \in DOMAIN approvals \ failed : approvals'[a] = approvals[a]
  BY <1>4 DEF OnlyChange
<1>6. CASE failed = {}
  BY <1>5, <1>6 DEF Ledger
<1>7. CASE failed # {}
  <2>1. /\ failed \subseteq DOMAIN approvals
        /\ \A a \in failed :
             /\ approvals[a].status = "delivering"
             /\ approvals'[a] = [approvals[a] EXCEPT !.status = "delivery_failed"]
    BY <1>3, <1>4
  <2>2. QED
    BY <1>5, <1>7, <2>1, CloseTogether
<1>8. QED
  BY <1>6, <1>7

\* A commit is a step of the abstract specification; every other statement, and every
\* failure, leaves the ledger alone.
LEMMA StepImplements ==
  ASSUME IInv, IInv', [Next]_vars
  PROVE  [Lifecycle!Next]_Ledger
<1>1. CASE UNCHANGED approvals
  <2>1. UNCHANGED Ledger
    BY <1>1 DEF Ledger
  <2>2. QED
    BY <2>1
<1>2. CASE UNCHANGED vars \/ UNCHANGED tables
  BY <1>1, <1>2 DEF vars, tables
<1>3. ASSUME NEW p \in Handlers, HandlerNext(p) PROVE [Lifecycle!Next]_Ledger
  <2>1. CASE \E verdict \in Verdicts : CreateCommits(p, verdict)
    <3>1. \E a \in Approvals : Lifecycle!Raise(a)
      BY <2>1, CreateRaises
    <3>2. Lifecycle!Next
      BY <3>1 DEF Lifecycle!Next
    <3>3. QED
      BY <3>2
  <2>2. CASE SubmitCommits(p)
    BY <2>2, SubmitDecides
  <2>3. CASE \E written \in BOOLEAN : AckCommits(p, written)
    BY <2>3, AckCloses
  <2>4. CASE SupersedeCommits(p)
    BY <2>4, SupersedeWithdraws
  <2>5. CASE UNCHANGED tables
    BY <1>2, <2>5
  <2>6. QED
    BY <1>3, <2>1, <2>2, <2>3, <2>4, <2>5
    DEF HandlerNext, CreateLocksSession, CreateInserts, SubmitReadsReplay, SubmitLocksApproval,
        AckReads, AckLocksApproval, SupersedeLocksApproval, LocksSession
<1>4. ASSUME NEW p \in Workers, WorkerNext(p) PROVE [Lifecycle!Next]_Ledger
  <2>1. CASE ExpireCommits(p)
    BY <2>1, ExpireDecides
  <2>2. CASE RetryCommits(p)
    BY <2>2, RetryCloses
  <2>3. CASE ExpireLocks(p) \/ RetryLocks(p)
    <3>1. UNCHANGED tables
      BY <2>3 DEF ExpireLocks, RetryLocks, ScanLocks
    <3>2. QED
      BY <1>2, <3>1
  <2>4. CASE UNCHANGED tables
    BY <1>2, <2>4
  <2>5. QED
    BY <1>4, <2>1, <2>2, <2>3, <2>4
    DEF WorkerNext, ScanExpired, ScanOverdue, Scan, ScanUpdatesSession
<1>5. ASSUME NEW p \in Procs, Fails(p) PROVE [Lifecycle!Next]_Ledger
  BY <1>2, <1>5 DEF Fails
<1>6. QED
  BY <1>2, <1>3, <1>4, <1>5 DEF Next

\* Transactions that interleave statement by statement, and may fail at any of them,
\* implement the abstract life of an approval.
THEOREM TransactionsImplementLifecycle == Spec => ImplementsLifecycle
<1>1. Init => Lifecycle!Init
  <2>1. ASSUME Init PROVE Ledger = << >>
    <3>1. DOMAIN approvals = {}
      BY <2>1 DEF Init
    <3>2. QED
      BY <3>1 DEF Ledger
  <2>2. QED
    BY <2>1 DEF Lifecycle!Init
<1>2. IInv /\ IInv' /\ [Next]_vars => [Lifecycle!Next]_Ledger
  BY StepImplements
<1>3. QED
  BY <1>1, <1>2, InvariantHolds, PTL DEF Spec, ImplementsLifecycle, Lifecycle!Spec
================================================================================
