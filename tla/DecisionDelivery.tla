--------------------------- MODULE DecisionDelivery ---------------------------
(***************************************************************************)
(* How a decision travels from the server to the CLI that waits for it,    *)
(* for one device: the handlers and the worker that push decisions, the    *)
(* hub that knows one connection per device and the goroutine that serves  *)
(* each connection (src/server/cmd/server/ws.go), and the agent processes  *)
(* started by "gatepilot run" (runManagedCLI, connectAgent and             *)
(* waitForDelivery in src/agent/cmd/agent/main.go).                        *)
(*                                                                         *)
(* Each agent process runs one CLI, raises one approval, named after the   *)
(* process, and opens one connection.  The store's operations are atomic,  *)
(* but a push is made after the store's lock is released: it looks the     *)
(* connection up, then writes to it.  A process may crash or lose the      *)
(* network, which it answers by exiting, at any point.                     *)
(***************************************************************************)
EXTENDS Naturals, Sequences, SequencesExt, FiniteSets

CONSTANTS
  Procs,        \* agent processes of the device; also the approvals they raise
  None,         \* no process
  Connected,    \* the message agent.connected
  MaxAttempts,  \* GATEPILOT_DELIVERY_MAX_ATTEMPTS
  MaxPushes,    \* bound: pushes under way at one time
  OneAtATime    \* TRUE: a process starts when the one before it has ended and the
                \* server has served its hello

ASSUME DeliveryAssumption ==
  /\ None \notin Procs /\ Connected \notin Procs
  /\ MaxAttempts \in Nat \ {0} /\ MaxPushes \in Nat \ {0} /\ OneAtATime \in BOOLEAN

VARIABLES
  status,    \* of each approval in the store; "none" before it is raised
  attempts,  \* DeliveryAttempts of each approval
  author,    \* who decided it: a user, or the server by policy or timeout
  pushes,    \* pushes under way: [approval, by, to]; "to" is None before the lookup
  byDevice,  \* the hub's connection for the device, or None
  serving,   \* where the goroutine serving each connection stands
  wire,      \* messages sent to each process and not yet read
  agent,     \* where each agent process stands
  ack,       \* the ack each process has made and the server has not handled
  written    \* the approval whose decision each process wrote into its CLI

storeVars == <<status, attempts, author>>
vars == <<status, attempts, author, pushes, byDevice, serving, wire,
          agent, ack, written>>

NoAck == [approval |-> None, written |-> FALSE]

Ended(p) == agent[p] = "ended"

Decided(a) == status[a] \in {"delivering", "delivered", "delivery_failed"}

Init ==
  /\ status = [a \in Procs |-> "none"]
  /\ attempts = [a \in Procs |-> 0]
  /\ author = [a \in Procs |-> ""]
  /\ pushes = {}
  /\ byDevice = None
  /\ serving = [p \in Procs |-> "none"]
  /\ wire = [p \in Procs |-> << >>]
  /\ agent = [p \in Procs |-> "idle"]
  /\ ack = [p \in Procs |-> NoAck]
  /\ written = [p \in Procs |-> None]

--------------------------------------------------------------------------------
(* The store and those who push what it decided. *)

\* The approvals S are to be pushed.
Push(S, by) ==
  /\ pushes' = pushes \cup { [approval |-> a, by |-> by, to |-> None] : a \in S }
  /\ Cardinality(pushes') <= MaxPushes

\* The approvals S are decided; their deliveries are then pushed.
Dispatch(S, who, by) ==
  /\ status' = [a \in Procs |-> IF a \in S THEN "delivering" ELSE status[a]]
  /\ attempts' = [a \in Procs |-> IF a \in S THEN 1 ELSE attempts[a]]
  /\ author' = [a \in Procs |-> IF a \in S THEN who ELSE author[a]]
  /\ Push(S, by)

\* The CLI of process p asks for approval; the agent posts it, dials the server
\* and says hello.  A policy rule may decide at once.
Raise(p) ==
  /\ agent[p] = "idle"
  /\ OneAtATime => \A q \in Procs \ {p} :
       agent[q] = "idle" \/ (Ended(q) /\ serving[q] # "hello")
  /\ agent' = [agent EXCEPT ![p] = "connecting"]
  /\ serving' = [serving EXCEPT ![p] = "hello"]
  /\ \/ /\ status' = [status EXCEPT ![p] = "waiting_decision"]
        /\ UNCHANGED <<attempts, author, pushes>>
     \/ Dispatch({p}, "server", "handler")
  /\ UNCHANGED <<byDevice, wire, ack, written>>

Submit(a) ==
  /\ status[a] = "waiting_decision"
  /\ Dispatch({a}, "user", "handler")
  /\ UNCHANGED <<byDevice, serving, wire, agent, ack, written>>

\* A repeated submission gets the stored reply, which the handler pushes
\* again whatever has become of the approval.
ReplaySubmit(a) ==
  /\ author[a] = "user"
  /\ \A m \in pushes : m.by # "handler"
  /\ Push({a}, "handler")
  /\ UNCHANGED <<storeVars, byDevice, serving, wire, agent, ack, written>>

\* An agent whose report got no answer ends and leaves it in its queue, and a
\* later one reports it again: the handler answers with the approval that exists
\* and pushes it if it is being delivered.  One handler pushes repeats at a time,
\* which bounds them.
RepeatRaise(a) ==
  /\ Ended(a) /\ status[a] = "delivering"
  /\ \A m \in pushes : m.by # "handler"
  /\ Push({a}, "handler")
  /\ UNCHANGED <<storeVars, byDevice, serving, wire, agent, ack, written>>

\* The worker is one goroutine: it scans again when it has pushed everything.
WorkerIdle == \A m \in pushes : m.by # "worker"

ExpireScan ==
  /\ WorkerIdle
  /\ \E due \in (SUBSET { a \in Procs : status[a] = "waiting_decision" }) \ {{}} :
       Dispatch(due, "server", "worker")
  /\ UNCHANGED <<byDevice, serving, wire, agent, ack, written>>

\* Variant: the limit is passed by one attempt.
ExhaustedLate(S) == { a \in S : attempts[a] > MaxAttempts }

Exhausted(S) == { a \in S : attempts[a] >= MaxAttempts }

RetryScan ==
  /\ WorkerIdle
  /\ \E due \in (SUBSET { a \in Procs : status[a] = "delivering" }) \ {{}} :
       LET retry == due \ Exhausted(due) IN
         /\ status' = [a \in Procs |->
              IF a \in Exhausted(due) THEN "delivery_failed" ELSE status[a]]
         /\ attempts' = [a \in Procs |->
              IF a \in retry THEN attempts[a] + 1 ELSE attempts[a]]
         /\ Push(retry, "worker")
  /\ UNCHANGED <<author, byDevice, serving, wire, agent, ack, written>>

\* Variant: whichever connection the hub holds is dropped.
UnregisterWhoever(p) == byDevice' = None

\* The hub forgets p's connection if it is the one it holds.
Unregister(p) == byDevice' = IF byDevice = p THEN None ELSE byDevice

\* The first delivery p will take is on the wire: connectAgent reads one message,
\* waitForDelivery up to the first delivery, and nothing reads on.
DeliveryAhead(p) ==
  \/ agent[p] = "waiting" /\ Range(wire[p]) \cap Procs # {}
  \/ agent[p] = "connecting" /\ Range(SubSeq(wire[p], 2, Len(wire[p]))) \cap Procs # {}

\* A message is written to p's connection; one that p will never read is not kept.
\* If p is gone, the write may fail, after which the writer runs onError, or be
\* lost unnoticed.
Send(p, message, onError) ==
  \/ /\ ~ Ended(p)
     /\ wire' = IF DeliveryAhead(p) THEN wire ELSE [wire EXCEPT ![p] = Append(@, message)]
     /\ UNCHANGED byDevice
  \/ /\ Ended(p)
     /\ UNCHANGED wire
     /\ onError \/ UNCHANGED byDevice

\* agentConnectionHub.push: the lookup under the hub's lock ...
PushLookup(m) ==
  /\ m \in pushes /\ m.to = None
  /\ pushes' = (pushes \ {m}) \cup
       (IF byDevice = None THEN {} ELSE {[m EXCEPT !.to = byDevice]})
  /\ UNCHANGED <<storeVars, byDevice, serving, wire, agent, ack, written>>

\* ... and the write after it.
PushWrite(m) ==
  /\ m \in pushes /\ m.to # None
  /\ pushes' = pushes \ {m}
  /\ Send(m.to, m.approval, Unregister(m.to))
  /\ UNCHANGED <<storeVars, serving, agent, ack, written>>

--------------------------------------------------------------------------------
(* The server goroutine of each connection. *)

\* The newest connection of a device replaces the one before.
ServeHello(p) ==
  /\ serving[p] = "hello"
  /\ byDevice' = p
  /\ serving' = [serving EXCEPT ![p] = "registered"]
  /\ UNCHANGED <<storeVars, pushes, wire, agent, ack, written>>

ServeConnected(p) ==
  /\ serving[p] = "registered"
  /\ Send(p, Connected, FALSE)
  /\ serving' = [serving EXCEPT ![p] = "connected"]
  /\ UNCHANGED <<storeVars, pushes, agent, ack, written>>

\* Variant: only what was never sent is replayed.
PendingDeliveriesUnsent == { a \in Procs : status[a] = "delivering" /\ attempts[a] = 0 }

PendingDeliveries == { a \in Procs : status[a] = "delivering" }

\* The pending deliveries are written one after the other; the process takes the
\* first of them.
ReplayPending(p) ==
  /\ serving[p] = "connected"
  /\ IF PendingDeliveries = {} THEN UNCHANGED <<wire, byDevice>>
       ELSE \E a \in PendingDeliveries : Send(p, a, Unregister(p))
  /\ serving' = [serving EXCEPT ![p] = "reading"]
  /\ UNCHANGED <<storeVars, pushes, agent, ack, written>>

\* Variant: every ack counts as a delivery.
AckOutcomeAlways(isWritten) == "delivered"

AckOutcome(isWritten) == IF isWritten THEN "delivered" ELSE "delivery_failed"

\* Variant: an ack that comes after the retries were given up is accepted.
AckActiveOrFailed(a) == status[a] \in {"delivering", "delivery_failed"}

AckActive(a) == status[a] = "delivering"

Close(p) ==
  /\ serving' = [serving EXCEPT ![p] = "closed"]
  /\ Unregister(p)

\* approval.decision.ack: an ack of an approval already delivered changes
\* nothing; one that matches no active delivery ends the connection.
HandleAck(p) ==
  /\ serving[p] = "reading"
  /\ ack[p] # NoAck
  /\ LET a == ack[p].approval IN
       /\ status' = [status EXCEPT ![a] =
            IF AckActive(a) THEN AckOutcome(ack[p].written) ELSE @]
       /\ IF AckActive(a) \/ status[a] = "delivered"
            THEN UNCHANGED <<serving, byDevice>> ELSE Close(p)
  /\ ack' = [ack EXCEPT ![p] = NoAck]
  /\ UNCHANGED <<attempts, author, pushes, wire, agent, written>>

\* The goroutine notices that the process is gone and returns.
ServeEnd(p) ==
  /\ Ended(p) /\ ack[p] = NoAck
  /\ serving[p] \in {"hello", "connected", "reading"}
  /\ Close(p)
  /\ UNCHANGED <<storeVars, pushes, wire, agent, ack, written>>

--------------------------------------------------------------------------------
(* The agent process. *)

\* connectAgent takes the first message for the answer to its hello, whatever it is.
ReadConnected(p) ==
  /\ agent[p] = "connecting" /\ wire[p] # << >>
  /\ wire' = [wire EXCEPT ![p] = Tail(@)]
  /\ agent' = [agent EXCEPT ![p] = "waiting"]
  /\ UNCHANGED <<storeVars, pushes, byDevice, serving, ack, written>>

\* a is the first delivery p has not read.
NextDelivery(p, a) ==
  \E i \in DOMAIN wire[p] :
    /\ wire[p][i] = a /\ a \in Procs
    /\ \A j \in 1 .. i - 1 : wire[p][j] \notin Procs

\* waitForDelivery skips what is not a delivery and writes the first that is, of
\* any approval, to its CLI.  Then it sends its ack, which may be lost, closes the
\* connection and ends with its CLI.
WriteDecision(p) ==
  /\ agent[p] = "waiting"
  /\ \E a \in Procs, isWritten, isAcked \in BOOLEAN :
       /\ NextDelivery(p, a)
       /\ written' = [written EXCEPT ![p] = IF isWritten THEN a ELSE @]
       /\ ack' = [ack EXCEPT ![p] =
            IF isAcked THEN [approval |-> a, written |-> isWritten] ELSE NoAck]
  /\ agent' = [agent EXCEPT ![p] = "ended"]
  /\ wire' = [wire EXCEPT ![p] = << >>]
  /\ UNCHANGED <<storeVars, pushes, byDevice, serving>>

\* The process dies, or exits because its connection broke.
Crash(p) ==
  /\ agent[p] \in {"connecting", "waiting"}
  /\ agent' = [agent EXCEPT ![p] = "ended"]
  /\ wire' = [wire EXCEPT ![p] = << >>]
  /\ UNCHANGED <<storeVars, pushes, byDevice, serving, ack, written>>

--------------------------------------------------------------------------------

StoreNext ==
  \/ \E p \in Procs : Raise(p) \/ RepeatRaise(p) \/ Submit(p) \/ ReplaySubmit(p)
  \/ ExpireScan
  \/ RetryScan

PushNext == \E m \in pushes : PushLookup(m) \/ PushWrite(m)

ServeNext(p) ==
  \/ ServeHello(p) \/ ServeConnected(p) \/ ReplayPending(p)
  \/ HandleAck(p) \/ ServeEnd(p)

AgentNext(p) ==
  ReadConnected(p) \/ WriteDecision(p)

Next ==
  \/ StoreNext
  \/ PushNext
  \/ \E p \in Procs : ServeNext(p) \/ AgentNext(p) \/ Crash(p)

Spec == Init /\ [][Next]_vars

\* Goroutines and processes that can run do.  Users, the clock behind the
\* worker's scans and failures owe nothing.
FairSpec ==
  /\ Spec
  /\ WF_vars(PushNext)
  /\ \A p \in Procs : WF_vars(ServeNext(p)) /\ WF_vars(AgentNext(p))

--------------------------------------------------------------------------------
(* Properties. *)

TypeOK ==
  /\ status \in [Procs -> {"none", "waiting_decision", "delivering", "delivered",
                           "delivery_failed"}]
  /\ attempts \in [Procs -> 0 .. MaxAttempts]
  /\ author \in [Procs -> {"", "user", "server"}]
  /\ pushes \subseteq [approval: Procs, by: {"handler", "worker"}, to: Procs \cup {None}]
  /\ byDevice \in Procs \cup {None}
  /\ serving \in [Procs -> {"none", "hello", "registered", "connected", "reading", "closed"}]
  /\ wire \in [Procs -> Seq(Procs \cup {Connected})]
  /\ agent \in [Procs -> {"idle", "connecting", "waiting", "ended"}]
  /\ ack \in [Procs -> [approval: Procs \cup {None}, written: BOOLEAN]]
  /\ written \in [Procs -> Procs \cup {None}]

\* No decision is lost between the pushes and the replay of pending deliveries:
\* an agent that waits on the hub's connection, with no delivery to take yet, has
\* every decision not acknowledged on its way, whether the decision came before,
\* during or after its hello.
NoDecisionLost ==
  \A p, a \in Procs :
    /\ byDevice = p /\ serving[p] = "reading" /\ agent[p] = "waiting"
    /\ status[a] = "delivering"
    => \/ DeliveryAhead(p)
       \/ \E m \in pushes : m.approval = a /\ m.to \in {None, p}

\* What the server records as delivered was written into some CLI.
DeliveredWasWritten ==
  \A a \in Procs : status[a] = "delivered" => \E p \in Procs : written[p] = a

\* The approvals of the device live the abstract life, whatever their messages do.
PhaseOf(s) ==
  CASE s = "waiting_decision" -> "open"
    [] s = "delivering" -> "decided"
    [] s = "delivered" -> "done"
    [] s = "delivery_failed" -> "failed"

Ledger ==
  [a \in { x \in Procs : status[x] # "none" } |->
     [owner |-> a, phase |-> PhaseOf(status[a]),
      decision |-> IF author[a] = "" THEN "" ELSE "decided", by |-> author[a]]]

Lifecycle == INSTANCE ApprovalLifecycle WITH
  ledger <- Ledger, Approvals <- Procs, Sessions <- Procs,
  DecisionTypes <- {"", "decided"}, Actors <- {"", "user", "server"}

\* The protocol, with its lost, repeated and late messages, implements the
\* abstract specification of an approval.
ImplementsLifecycle == Lifecycle!Spec

\* On a device that runs one CLI after the other, an agent whose approval is
\* decided does not wait for ever, unless the worker had given the delivery up:
\* also when the server notices the end of the process before it only later.
DecidedAgentProceeds ==
  \A p \in Procs :
    agent[p] \in {"connecting", "waiting"} /\ Decided(p) ~>
      Ended(p) \/ status[p] = "delivery_failed"

(* A statement of the docs that the agent does not keep. *)

\* docs/10-agent-cli-integration.md: a delivery's approval and session are checked
\* before it is written.  waitForDelivery writes whatever arrives first.
DecisionStaysInItsSession == \A p \in Procs : written[p] \in {None, p}
================================================================================
