------------------------ MODULE DecisionDeliveryProofs ------------------------
(***************************************************************************)
(* Theorems about DecisionDelivery, for every number of agent processes,   *)
(* of pushes under way and of attempts, and whether or not the processes   *)
(* follow one after the other.                                             *)
(*                                                                         *)
(* No decision is lost is not inductive: an agent that has not yet read    *)
(* the answer to its hello may be sent a decision that it takes for that   *)
(* answer.  The invariant says besides that the answer is on the wire      *)
(* before the pending deliveries are replayed (AnswerComesFirst), so that  *)
(* the decisions sent after it are still read, and extends the promise to  *)
(* agents that have not read the answer (OnItsWay).                        *)
(***************************************************************************)
EXTENDS DecisionDelivery, TLAPS

--------------------------------------------------------------------------------
(* The inductive invariants. *)

\* A CLI that was written to has no agent any more, and the ack that says so names
\* the decision it was written.
AcksTellTheTruth ==
  \A p \in Procs :
    /\ written[p] # None => Ended(p)
    /\ ack[p].written => Ended(p) /\ written[p] = ack[p].approval

\* The server says that an agent is connected before it replays anything.
AnswerComesFirst ==
  \A p \in Procs :
    agent[p] = "connecting" /\ serving[p] \in {"connected", "reading"} => wire[p] # << >>

Listens(p) ==
  byDevice = p /\ serving[p] = "reading" /\ agent[p] \in {"connecting", "waiting"}

UnderWay(p, a) == \E m \in pushes : m.approval = a /\ m.to \in {None, p}

OnItsWay ==
  \A p, a \in Procs :
    Listens(p) /\ status[a] = "delivering" => DeliveryAhead(p) \/ UnderWay(p, a)

\* Who has not asked has no approval; an approval has an author once it is decided.
AuthorsDecide ==
  \A a \in Procs :
    /\ agent[a] = "idle" => status[a] = "none"
    /\ status[a] \in {"none", "waiting_decision"} <=> author[a] = ""

IInv ==
  /\ TypeOK
  /\ AcksTellTheTruth /\ DeliveredWasWritten
  /\ AnswerComesFirst /\ OnItsWay
  /\ AuthorsDecide

--------------------------------------------------------------------------------
(* What the helpers do to the wire and to the pushes. *)

\* The first delivery that is not read is a message of the wire.
LEMMA NextDeliveryType ==
  ASSUME NEW p, NEW a, NextDelivery(p, a)
  PROVE  a \in Procs
BY DEF NextDelivery

\* A message reaches a process that lives, or it has a delivery to take before it.
LEMMA SendType ==
  ASSUME TypeOK, NEW p \in Procs, NEW message \in Procs \cup {Connected}, NEW onError \in BOOLEAN,
         Send(p, message, onError)
  PROVE  /\ wire' \in [Procs -> Seq(Procs \cup {Connected})]
         /\ UNCHANGED byDevice \/ (onError /\ Ended(p))
         /\ \A q \in Procs \ {p} : wire'[q] = wire[q]
         /\ ~ Ended(p) => \/ DeliveryAhead(p) /\ wire'[p] = wire[p]
                          \/ wire'[p] = Append(wire[p], message)
<1>1. wire \in [Procs -> Seq(Procs \cup {Connected})]
  BY DEF TypeOK
<1>2. CASE Ended(p)
  BY <1>1, <1>2 DEF Send
<1>3. CASE ~ Ended(p)
  <2>1. wire' = IF DeliveryAhead(p) THEN wire ELSE [wire EXCEPT ![p] = Append(@, message)]
    BY <1>3 DEF Send
  <2>2. UNCHANGED byDevice
    BY <1>3 DEF Send
  <2>3. Append(wire[p], message) \in Seq(Procs \cup {Connected})
    BY <1>1
  <2>4. QED
    BY <1>1, <1>3, <2>1, <2>2, <2>3
<1>4. QED
  BY <1>2, <1>3

\* A wire holds a delivery, or one after its first message, if one of its messages is
\* one.
LEMMA HasDelivery ==
  ASSUME NEW w \in Seq(Procs \cup {Connected})
  PROVE  /\ Range(w) \cap Procs # {} <=> \E i \in DOMAIN w : w[i] \in Procs
         /\ Range(SubSeq(w, 2, Len(w))) \cap Procs # {} <=>
              \E i \in DOMAIN w : i > 1 /\ w[i] \in Procs
<1> DEFINE rest == SubSeq(w, 2, Len(w))
<1>1. /\ DOMAIN rest = 1 .. Len(w) - 1
      /\ \A i \in 1 .. Len(w) - 1 : rest[i] = w[i + 1]
  OBVIOUS
<1>2. /\ Range(w) \cap Procs # {} <=> \E i \in DOMAIN w : w[i] \in Procs
      /\ Range(rest) \cap Procs # {} <=> \E i \in DOMAIN rest : rest[i] \in Procs
  BY DEF Range
<1> HIDE DEF rest
<1>3. ASSUME NEW i \in DOMAIN rest, rest[i] \in Procs
      PROVE  \E k \in DOMAIN w : k > 1 /\ w[k] \in Procs
  <2>1. i + 1 \in DOMAIN w /\ i + 1 > 1 /\ w[i + 1] \in Procs
    BY <1>1, <1>3
  <2>2. QED
    BY <2>1
<1>4. ASSUME NEW i \in DOMAIN w, i > 1, w[i] \in Procs
      PROVE  \E k \in DOMAIN rest : rest[k] \in Procs
  <2>1. i - 1 \in DOMAIN rest /\ rest[i - 1] = w[i]
    BY <1>1, <1>4
  <2>2. QED
    BY <1>4, <2>1
<1>5. QED
  BY <1>2, <1>3, <1>4 DEF rest

\* A decision sent to a process that has not stopped reading is one it has to take,
\* unless it would be taken for the answer to the hello.
LEMMA SentIsAhead ==
  ASSUME TypeOK, TypeOK', NEW p \in Procs, NEW a \in Procs, NEW onError \in BOOLEAN,
         agent[p] \in {"connecting", "waiting"}, UNCHANGED agent,
         DeliveryAhead(p) \/ agent[p] = "waiting" \/ wire[p] # << >>,
         Send(p, a, onError)
  PROVE  DeliveryAhead(p)'
<1>1. wire[p] \in Seq(Procs \cup {Connected}) /\ wire'[p] \in Seq(Procs \cup {Connected})
  BY DEF TypeOK
<1>2. /\ ~ Ended(p)
      /\ (DeliveryAhead(p) /\ wire'[p] = wire[p]) \/ wire'[p] = Append(wire[p], a)
  BY SendType DEF Ended
<1>3. CASE DeliveryAhead(p) /\ wire'[p] = wire[p]
  BY <1>3 DEF DeliveryAhead
<1>4. CASE wire'[p] = Append(wire[p], a)
  <2>1. Len(wire[p]) + 1 \in DOMAIN wire'[p] /\ wire'[p][Len(wire[p]) + 1] \in Procs
    BY <1>1, <1>4
  <2>2. CASE agent[p] = "waiting"
    <3>1. Range(wire'[p]) \cap Procs # {}
      BY <1>1, <2>1, HasDelivery
    <3>2. QED
      BY <2>2, <3>1 DEF DeliveryAhead
  <2>3. CASE agent[p] = "connecting"
    <3>1. wire[p] # << >>
      <4>1. ASSUME DeliveryAhead(p) PROVE wire[p] # << >>
        BY <1>1, <2>3, <4>1, HasDelivery DEF DeliveryAhead
      <4>2. QED
        BY <2>3, <4>1
    <3>2. Len(wire[p]) + 1 > 1
      BY <1>1, <3>1
    <3>3. Range(SubSeq(wire'[p], 2, Len(wire'[p]))) \cap Procs # {}
      BY <1>1, <2>1, <3>2, HasDelivery
    <3>4. QED
      BY <2>3, <3>3 DEF DeliveryAhead
  <2>4. QED
    BY <2>2, <2>3
<1>5. QED
  BY <1>2, <1>3, <1>4

\* Pushes of decided approvals are well formed.
LEMMA PushType ==
  ASSUME TypeOK, NEW S \in SUBSET Procs, NEW by \in {"handler", "worker"}, Push(S, by)
  PROVE  /\ pushes' \subseteq [approval : Procs, by : {"handler", "worker"}, to : Procs \cup {None}]
         /\ pushes \subseteq pushes'
         /\ \A a \in S : \E m \in pushes' : m.approval = a /\ m.to = None
<1> DEFINE new(a) == [approval |-> a, by |-> by, to |-> None]
<1>1. pushes' = pushes \cup { new(a) : a \in S }
  BY DEF Push
<1>2. \A a \in S : /\ new(a) \in [approval : Procs, by : {"handler", "worker"}, to : Procs \cup {None}]
                  /\ new(a).approval = a /\ new(a).to = None
  OBVIOUS
<1> HIDE DEF new
<1>3. pushes' \subseteq [approval : Procs, by : {"handler", "worker"}, to : Procs \cup {None}]
  <2> DEFINE Pushes == [approval : Procs, by : {"handler", "worker"}, to : Procs \cup {None}]
  <2>1. pushes \subseteq Pushes /\ \A a \in S : new(a) \in Pushes
    BY <1>2 DEF TypeOK
  <2> HIDE DEF Pushes
  <2>2. pushes' \subseteq Pushes
    BY <1>1, <2>1
  <2>3. QED
    BY <2>2 DEF Pushes
<1>4. \A a \in S : new(a) \in pushes'
  BY <1>1
<1>5. QED
  BY <1>1, <1>2, <1>3, <1>4

--------------------------------------------------------------------------------
(* Type correctness. *)

\* A dispatch keeps the store and the pushes well formed.
LEMMA DispatchType ==
  ASSUME TypeOK, NEW S \in SUBSET Procs, NEW who \in {"user", "server"},
         NEW by \in {"handler", "worker"}, Dispatch(S, who, by)
  PROVE  /\ status' \in [Procs -> {"none", "waiting_decision", "delivering", "delivered",
                                   "delivery_failed"}]
         /\ attempts' \in [Procs -> 0 .. MaxAttempts]
         /\ author' \in [Procs -> {"", "user", "server"}]
         /\ pushes' \subseteq [approval : Procs, by : {"handler", "worker"}, to : Procs \cup {None}]
<1>1. 1 \in 0 .. MaxAttempts
  BY DeliveryAssumption
<1>2. Push(S, by)
  BY DEF Dispatch
<1>3. QED
  BY <1>1, <1>2, PushType DEF Dispatch, TypeOK

LEMMA TypeStep ==
  ASSUME TypeOK, [Next]_vars
  PROVE  TypeOK'
<1>1. CASE UNCHANGED vars
  BY <1>1 DEF vars, TypeOK
<1>2. ASSUME NEW p \in Procs, Raise(p) PROVE TypeOK'
  <2>1. /\ agent' \in [Procs -> {"idle", "connecting", "waiting", "ended"}]
        /\ serving' \in [Procs -> {"none", "hello", "registered", "connected", "reading", "closed"}]
        /\ UNCHANGED <<byDevice, wire, ack, written>>
    BY <1>2 DEF Raise, TypeOK
  <2>2. CASE Dispatch({p}, "server", "handler")
    BY <2>1, <2>2, DispatchType DEF TypeOK
  <2>3. CASE /\ status' = [status EXCEPT ![p] = "waiting_decision"]
             /\ UNCHANGED <<attempts, author, pushes>>
    BY <2>1, <2>3 DEF TypeOK
  <2>4. QED
    BY <1>2, <2>2, <2>3 DEF Raise
<1>3. ASSUME NEW a \in Procs, Submit(a) PROVE TypeOK'
  BY <1>3, DispatchType DEF Submit, TypeOK
<1>4. ASSUME NEW a \in Procs, ReplaySubmit(a) \/ RepeatRaise(a) PROVE TypeOK'
  BY <1>4, PushType DEF ReplaySubmit, RepeatRaise, storeVars, TypeOK
<1>5. ASSUME ExpireScan PROVE TypeOK'
  <2>1. PICK due \in SUBSET Procs : Dispatch(due, "server", "worker")
    BY <1>5 DEF ExpireScan
  <2>2. UNCHANGED <<byDevice, serving, wire, agent, ack, written>>
    BY <1>5 DEF ExpireScan
  <2>3. QED
    BY <2>1, <2>2, DispatchType DEF TypeOK
<1>6. ASSUME RetryScan PROVE TypeOK'
  <2>1. PICK due \in SUBSET Procs :
          /\ status' = [a \in Procs |->
               IF a \in Exhausted(due) THEN "delivery_failed" ELSE status[a]]
          /\ attempts' = [a \in Procs |->
               IF a \in due \ Exhausted(due) THEN attempts[a] + 1 ELSE attempts[a]]
          /\ Push(due \ Exhausted(due), "worker")
    BY <1>6 DEF RetryScan
  <2>2. UNCHANGED <<author, byDevice, serving, wire, agent, ack, written>>
    BY <1>6 DEF RetryScan
  <2>3. attempts' \in [Procs -> 0 .. MaxAttempts]
    <3>1. ASSUME NEW a \in due \ Exhausted(due) PROVE attempts[a] + 1 \in 0 .. MaxAttempts
      <4>1. attempts[a] \in 0 .. MaxAttempts /\ ~ (attempts[a] >= MaxAttempts)
        BY DEF Exhausted, TypeOK
      <4>2. QED
        BY <4>1, DeliveryAssumption
    <3>2. QED
      BY <2>1, <3>1 DEF TypeOK
  <2>4. status' \in [Procs -> {"none", "waiting_decision", "delivering", "delivered",
                               "delivery_failed"}]
    BY <2>1 DEF TypeOK
  <2>5. pushes' \subseteq [approval : Procs, by : {"handler", "worker"}, to : Procs \cup {None}]
    <3>1. due \ Exhausted(due) \in SUBSET Procs
      OBVIOUS
    <3>2. QED
      BY <2>1, <3>1, PushType
  <2>6. QED
    BY <2>2, <2>3, <2>4, <2>5 DEF TypeOK
<1>7. ASSUME NEW m \in pushes, PushLookup(m) PROVE TypeOK'
  BY <1>7 DEF PushLookup, storeVars, TypeOK
<1>8. ASSUME NEW m \in pushes, PushWrite(m) PROVE TypeOK'
  <2>1. /\ m.to \in Procs /\ m.approval \in Procs
        /\ pushes' = pushes \ {m} /\ Send(m.to, m.approval, Unregister(m.to))
        /\ UNCHANGED <<storeVars, serving, agent, ack, written>>
    BY <1>8 DEF PushWrite, TypeOK
  <2>2. /\ wire' \in [Procs -> Seq(Procs \cup {Connected})]
        /\ UNCHANGED byDevice \/ Unregister(m.to)
    BY <2>1, SendType DEF Unregister
  <2>3. byDevice' \in Procs \cup {None}
    BY <2>2 DEF Unregister, TypeOK
  <2>4. QED
    BY <2>1, <2>2, <2>3 DEF storeVars, TypeOK
<1>9. ASSUME NEW p \in Procs, ServeHello(p) PROVE TypeOK'
  BY <1>9 DEF ServeHello, storeVars, TypeOK
<1>10. ASSUME NEW p \in Procs, ServeConnected(p) PROVE TypeOK'
  <2>1. /\ Send(p, Connected, FALSE)
        /\ serving' = [serving EXCEPT ![p] = "connected"]
        /\ UNCHANGED <<storeVars, pushes, agent, ack, written>>
    BY <1>10 DEF ServeConnected
  <2>2. wire' \in [Procs -> Seq(Procs \cup {Connected})] /\ UNCHANGED byDevice
    BY <2>1, SendType
  <2>3. QED
    BY <2>1, <2>2 DEF storeVars, TypeOK
<1>11. ASSUME NEW p \in Procs, ReplayPending(p) PROVE TypeOK'
  <2>1. /\ serving' = [serving EXCEPT ![p] = "reading"]
        /\ UNCHANGED <<storeVars, pushes, agent, ack, written>>
    BY <1>11 DEF ReplayPending
  <2>2. wire' \in [Procs -> Seq(Procs \cup {Connected})] /\ byDevice' \in Procs \cup {None}
    <3>1. CASE UNCHANGED <<wire, byDevice>>
      BY <3>1 DEF TypeOK
    <3>2. CASE \E a \in PendingDeliveries : Send(p, a, Unregister(p))
      <4>1. PICK a \in Procs : Send(p, a, Unregister(p))
        BY <3>2 DEF PendingDeliveries
      <4>2. /\ wire' \in [Procs -> Seq(Procs \cup {Connected})]
            /\ UNCHANGED byDevice \/ Unregister(p)
        BY <4>1, SendType DEF Unregister
      <4>3. QED
        BY <4>2 DEF Unregister, TypeOK
    <3>3. QED
      BY <1>11, <3>1, <3>2 DEF ReplayPending
  <2>3. QED
    BY <2>1, <2>2 DEF storeVars, TypeOK
<1>12. ASSUME NEW p \in Procs, HandleAck(p) PROVE TypeOK'
  <2>1. status' \in [Procs -> {"none", "waiting_decision", "delivering", "delivered",
                               "delivery_failed"}]
    <3> DEFINE a == ack[p].approval
    <3>1. status' = [status EXCEPT ![a] =
                       IF AckActive(a) THEN AckOutcome(ack[p].written) ELSE status[a]]
      BY <1>12 DEF HandleAck
    <3>2. AckOutcome(ack[p].written) \in {"delivered", "delivery_failed"}
      BY DEF AckOutcome
    <3>3. status \in [Procs -> {"none", "waiting_decision", "delivering", "delivered",
                                "delivery_failed"}]
      BY DEF TypeOK
    <3> HIDE DEF a
    <3>4. QED
      BY <3>1, <3>2, <3>3
  <2>2. /\ serving' \in [Procs -> {"none", "hello", "registered", "connected", "reading", "closed"}]
        /\ byDevice' \in Procs \cup {None}
    BY <1>12 DEF HandleAck, Close, Unregister, TypeOK
  <2>3. ack' \in [Procs -> [approval : Procs \cup {None}, written : BOOLEAN]]
    BY <1>12 DEF HandleAck, NoAck, TypeOK
  <2>4. UNCHANGED <<attempts, author, pushes, wire, agent, written>>
    BY <1>12 DEF HandleAck
  <2>5. QED
    BY <2>1, <2>2, <2>3, <2>4 DEF TypeOK
<1>13. ASSUME NEW p \in Procs, ServeEnd(p) PROVE TypeOK'
  BY <1>13 DEF ServeEnd, Close, Unregister, storeVars, TypeOK
<1>14. ASSUME NEW p \in Procs, ReadConnected(p) PROVE TypeOK'
  <2>1. Tail(wire[p]) \in Seq(Procs \cup {Connected})
    <3>1. wire[p] \in Seq(Procs \cup {Connected}) /\ wire[p] # << >>
      BY <1>14 DEF ReadConnected, TypeOK
    <3>2. QED
      BY <3>1
  <2>2. QED
    BY <1>14, <2>1 DEF ReadConnected, storeVars, TypeOK
<1>15. ASSUME NEW p \in Procs, WriteDecision(p) PROVE TypeOK'
  <2>1. /\ written' \in [Procs -> Procs \cup {None}]
        /\ ack' \in [Procs -> [approval : Procs \cup {None}, written : BOOLEAN]]
    <3>1. PICK a \in Procs, isWritten, isAcked \in BOOLEAN :
            /\ written' = [written EXCEPT ![p] = IF isWritten THEN a ELSE @]
            /\ ack' = [ack EXCEPT ![p] =
                 IF isAcked THEN [approval |-> a, written |-> isWritten] ELSE NoAck]
      BY <1>15 DEF WriteDecision
    <3>2. written' \in [Procs -> Procs \cup {None}]
      BY <3>1 DEF TypeOK
    <3> DEFINE new == IF isAcked THEN [approval |-> a, written |-> isWritten] ELSE NoAck
    <3>3. new \in [approval : Procs \cup {None}, written : BOOLEAN]
      BY DEF NoAck
    <3> HIDE DEF new
    <3>4. ack' \in [Procs -> [approval : Procs \cup {None}, written : BOOLEAN]]
      BY <3>1, <3>3 DEF TypeOK, new
    <3>5. QED
      BY <3>2, <3>4
  <2>2. << >> \in Seq(Procs \cup {Connected})
    OBVIOUS
  <2>3. QED
    BY <1>15, <2>1, <2>2 DEF WriteDecision, storeVars, TypeOK
<1>16. ASSUME NEW p \in Procs, Crash(p) PROVE TypeOK'
  <2>1. << >> \in Seq(Procs \cup {Connected})
    OBVIOUS
  <2>2. QED
    BY <1>16, <2>1 DEF Crash, storeVars, TypeOK
<1>17. QED
  BY <1>1, <1>2, <1>3, <1>4, <1>5, <1>6, <1>7, <1>8, <1>9, <1>10, <1>11, <1>12, <1>13, <1>14,
     <1>15, <1>16
  DEF Next, StoreNext, PushNext, ServeNext, AgentNext

\* In every reachable state the variables have their types.  They stand for the values
\* that the store, the hub and the agents of ws.go and main.go can hold.
THEOREM TypeCorrect == Spec => []TypeOK
<1>1. Init => TypeOK
  <2> SUFFICES ASSUME Init PROVE TypeOK
    OBVIOUS
  <2>1. << >> \in Seq(Procs \cup {Connected})
    OBVIOUS
  <2>2. 0 \in 0 .. MaxAttempts
    BY DeliveryAssumption
  <2>3. QED
    BY <2>1, <2>2 DEF Init, TypeOK, NoAck
<1>2. TypeOK /\ [Next]_vars => TypeOK'
  BY TypeStep
<1>3. QED
  BY <1>1, <1>2, PTL DEF Spec

--------------------------------------------------------------------------------
(* What the server records as delivered was written. *)

\* Only these five actions concern what the agents did.
LEMMA AgentsAct ==
  ASSUME [Next]_vars
  PROVE  \/ UNCHANGED <<agent, ack, written>>
         \/ \E p \in Procs : Raise(p) \/ HandleAck(p) \/ ReadConnected(p) \/ WriteDecision(p)
                               \/ Crash(p)
<1>1. CASE UNCHANGED vars
  BY <1>1 DEF vars
<1>2. CASE StoreNext
  BY <1>2 DEF StoreNext, RepeatRaise, Submit, ReplaySubmit, ExpireScan, RetryScan
<1>3. CASE PushNext
  BY <1>3 DEF PushNext, PushLookup, PushWrite
<1>4. CASE \E p \in Procs : ServeNext(p) \/ AgentNext(p) \/ Crash(p)
  <2>1. PICK p \in Procs : ServeNext(p) \/ AgentNext(p) \/ Crash(p)
    BY <1>4
  <2>2. QED
    BY <2>1 DEF ServeNext, AgentNext, ServeHello, ServeConnected, ReplayPending, ServeEnd
<1>5. QED
  BY <1>1, <1>2, <1>3, <1>4 DEF Next

\* What one process writes and acknowledges.
LEMMA WriteForm ==
  ASSUME TypeOK, AcksTellTheTruth, NEW p \in Procs, WriteDecision(p)
  PROVE  /\ Ended(p)' /\ written[p] = None
         /\ \A q \in Procs \ {p} : UNCHANGED <<agent[q], ack[q], written[q]>>
         /\ ack'[p].written => written'[p] = ack'[p].approval
<1>1. PICK a \in Procs, isWritten, isAcked \in BOOLEAN :
        /\ written' = [written EXCEPT ![p] = IF isWritten THEN a ELSE @]
        /\ ack' = [ack EXCEPT ![p] =
             IF isAcked THEN [approval |-> a, written |-> isWritten] ELSE NoAck]
  BY DEF WriteDecision
<1>2. agent[p] = "waiting" /\ agent' = [agent EXCEPT ![p] = "ended"]
  BY DEF WriteDecision
<1>3. \A q \in Procs \ {p} : UNCHANGED <<agent[q], ack[q], written[q]>>
  BY <1>1, <1>2 DEF TypeOK
<1>4. Ended(p)' /\ written[p] = None
  BY <1>2 DEF Ended, AcksTellTheTruth, TypeOK
<1>5. ack'[p] = IF isAcked THEN [approval |-> a, written |-> isWritten] ELSE NoAck
  BY <1>1 DEF TypeOK
<1>6. written'[p] = IF isWritten THEN a ELSE None
  BY <1>1, <1>4 DEF TypeOK
<1>7. ASSUME ack'[p].written PROVE written'[p] = ack'[p].approval
  BY <1>5, <1>6, <1>7 DEF NoAck
<1>8. QED
  BY <1>3, <1>4, <1>7

\* A step keeps the acks true: a CLI is written to once, by an agent that ends with it.
LEMMA AcksStep ==
  ASSUME TypeOK, TypeOK', AcksTellTheTruth, [Next]_vars
  PROVE  AcksTellTheTruth'
<1>1. CASE UNCHANGED <<agent, ack, written>>
  BY <1>1 DEF AcksTellTheTruth, Ended
<1>2. ASSUME NEW p \in Procs, Raise(p) PROVE AcksTellTheTruth'
  <2>1. agent[p] = "idle" /\ \A q \in Procs \ {p} : agent'[q] = agent[q]
    <3>1. agent[p] = "idle" /\ agent' = [agent EXCEPT ![p] = "connecting"]
      BY <1>2 DEF Raise
    <3>2. QED
      BY <3>1 DEF TypeOK
  <2>2. UNCHANGED <<ack, written>>
    BY <1>2 DEF Raise
  <2>3. QED
    BY <2>1, <2>2 DEF AcksTellTheTruth, Ended
<1>3. ASSUME NEW p \in Procs, HandleAck(p) PROVE AcksTellTheTruth'
  <2>1. ack'[p] = NoAck /\ \A q \in Procs \ {p} : ack'[q] = ack[q]
    <3>1. ack' = [ack EXCEPT ![p] = NoAck]
      BY <1>3 DEF HandleAck
    <3>2. QED
      BY <3>1 DEF TypeOK
  <2>2. UNCHANGED <<agent, written>>
    BY <1>3 DEF HandleAck
  <2>3. ~ ack'[p].written
    BY <2>1 DEF NoAck
  <2>4. QED
    BY <2>1, <2>2, <2>3 DEF AcksTellTheTruth, Ended
<1>4. ASSUME NEW p \in Procs, ReadConnected(p) \/ Crash(p) PROVE AcksTellTheTruth'
  <2>1. ~ Ended(p) /\ \A q \in Procs \ {p} : agent'[q] = agent[q]
    <3>1. PICK after \in {"waiting", "ended"} : agent' = [agent EXCEPT ![p] = after]
      BY <1>4 DEF ReadConnected, Crash
    <3>2. agent[p] # "ended"
      BY <1>4 DEF ReadConnected, Crash
    <3>3. QED
      BY <3>1, <3>2 DEF Ended, TypeOK
  <2>2. UNCHANGED <<ack, written>>
    BY <1>4 DEF ReadConnected, Crash
  <2>3. QED
    BY <2>1, <2>2 DEF AcksTellTheTruth, Ended
<1>5. ASSUME NEW p \in Procs, WriteDecision(p) PROVE AcksTellTheTruth'
  BY <1>5, WriteForm DEF AcksTellTheTruth, Ended
<1>6. QED
  BY <1>1, <1>2, <1>3, <1>4, <1>5, AgentsAct

\* An approval becomes delivered when a process acknowledges that it wrote its decision.
LEMMA DeliveredForm ==
  ASSUME TypeOK, AcksTellTheTruth, [Next]_vars, NEW a \in Procs,
         status'[a] = "delivered", status[a] # "delivered"
  PROVE  \E p \in Procs : HandleAck(p) /\ written[p] = a
<1>1. \A S \in SUBSET Procs, who \in {"user", "server"}, by \in {"handler", "worker"} :
        ~ Dispatch(S, who, by)
  BY DEF Dispatch
<1>2. ~ UNCHANGED status
  OBVIOUS
<1>3. ~ StoreNext
  <2>1. ASSUME NEW p \in Procs, Raise(p) PROVE FALSE
    <3>1. status' = [status EXCEPT ![p] = "waiting_decision"]
      BY <1>1, <2>1 DEF Raise
    <3>2. QED
      BY <3>1 DEF TypeOK
  <2>2. ASSUME NEW p \in Procs, Submit(p) \/ RepeatRaise(p) \/ ReplaySubmit(p) PROVE FALSE
    BY <1>1, <1>2, <2>2 DEF Submit, RepeatRaise, ReplaySubmit, storeVars
  <2>3. ASSUME ExpireScan PROVE FALSE
    BY <1>1, <2>3 DEF ExpireScan
  <2>4. ASSUME RetryScan PROVE FALSE
    BY <2>4 DEF RetryScan
  <2>5. QED
    BY <2>1, <2>2, <2>3, <2>4 DEF StoreNext
<1>4. PICK p \in Procs : HandleAck(p)
  <2>1. ~ PushNext
    BY <1>2 DEF PushNext, PushLookup, PushWrite, storeVars
  <2>2. ASSUME NEW p \in Procs, ServeNext(p) \/ AgentNext(p) \/ Crash(p) PROVE HandleAck(p)
    BY <1>2, <2>2 DEF ServeNext, AgentNext, Crash, ServeHello, ServeConnected, ReplayPending,
                      ServeEnd, ReadConnected, WriteDecision, storeVars
  <2>3. QED
    BY <1>2, <1>3, <2>1, <2>2 DEF Next, vars
<1>5. status' = [status EXCEPT ![ack[p].approval] =
                   IF AckActive(ack[p].approval) THEN AckOutcome(ack[p].written) ELSE @]
  BY <1>4 DEF HandleAck
<1>6. a = ack[p].approval /\ AckOutcome(ack[p].written) = "delivered"
  <2> DEFINE x == ack[p].approval
  <2>1. a = x
    BY <1>5 DEF TypeOK
  <2>2. status'[a] = IF AckActive(x) THEN AckOutcome(ack[p].written) ELSE status[a]
    BY <1>5, <2>1 DEF TypeOK
  <2>3. QED
    BY <2>1, <2>2
<1>7. ack[p].written
  BY <1>6 DEF AckOutcome
<1>8. QED
  BY <1>4, <1>6, <1>7 DEF AcksTellTheTruth

LEMMA DeliveredStep ==
  ASSUME TypeOK, AcksTellTheTruth, DeliveredWasWritten, [Next]_vars
  PROVE  DeliveredWasWritten'
<1>1. ASSUME NEW p \in Procs, written[p] \in Procs PROVE written'[p] = written[p]
  <2>1. CASE UNCHANGED written
    BY <2>1
  <2>2. ASSUME NEW q \in Procs, WriteDecision(q) PROVE written'[p] = written[p]
    <3>1. p # q
      BY <1>1, <2>2, WriteForm, DeliveryAssumption
    <3>2. QED
      BY <2>2, <3>1, WriteForm
  <2>3. QED
    BY <2>1, <2>2, AgentsAct DEF Raise, HandleAck, ReadConnected, Crash
<1>2. SUFFICES ASSUME NEW a \in Procs, status'[a] = "delivered"
               PROVE  \E p \in Procs : written'[p] = a
  BY DEF DeliveredWasWritten
<1>3. \E p \in Procs : written[p] = a
  <2>1. CASE status[a] = "delivered"
    BY <2>1 DEF DeliveredWasWritten
  <2>2. CASE status[a] # "delivered"
    BY <1>2, <2>2, DeliveredForm
  <2>3. QED
    BY <2>1, <2>2
<1>4. QED
  BY <1>1, <1>3

--------------------------------------------------------------------------------
(* No decision is lost. *)

\* A send gives the connection up or leaves it, and touches no other process's wire.
\* An agent that lives has a message on its wire after it.
LEMMA SendKeeps ==
  ASSUME TypeOK, TypeOK', NEW p \in Procs, NEW x \in Procs \cup {Connected},
         NEW onError \in BOOLEAN, onError => Unregister(p), Send(p, x, onError)
  PROVE  /\ byDevice' \in {byDevice, None}
         /\ \A q \in Procs \ {p} : wire'[q] = wire[q]
         /\ ~ Ended(p) /\ wire[p] # << >> => wire'[p] # << >>
         /\ agent[p] = "connecting" => wire'[p] # << >>
<1>1. wire[p] \in Seq(Procs \cup {Connected}) /\ wire'[p] \in Seq(Procs \cup {Connected})
  BY DEF TypeOK
<1>2. byDevice' \in {byDevice, None} /\ \A q \in Procs \ {p} : wire'[q] = wire[q]
  BY SendType DEF Unregister
<1>3. ~ Ended(p) => (DeliveryAhead(p) /\ wire'[p] = wire[p]) \/ wire'[p] = Append(wire[p], x)
  BY SendType
<1>4. Append(wire[p], x) # << >>
  BY <1>1
<1>5. ASSUME agent[p] = "connecting", DeliveryAhead(p) PROVE wire[p] # << >>
  BY <1>1, <1>5, HasDelivery DEF DeliveryAhead
<1>6. agent[p] = "connecting" => ~ Ended(p)
  BY DEF Ended
<1>7. QED
  BY <1>2, <1>3, <1>4, <1>5, <1>6

\* The pushes and the goroutines of the server send in these three ways.
LEMMA Sends ==
  ASSUME [Next]_vars, TypeOK
  PROVE  \/ UNCHANGED wire
         \/ \E p \in Procs : ReadConnected(p) \/ WriteDecision(p) \/ Crash(p)
         \/ \E p \in Procs, x \in Procs \cup {Connected}, onError \in BOOLEAN :
              /\ onError => Unregister(p)
              /\ Send(p, x, onError)
              /\ UNCHANGED agent
<1>1. CASE UNCHANGED vars
  BY <1>1 DEF vars
<1>2. CASE StoreNext
  BY <1>2 DEF StoreNext, Raise, RepeatRaise, Submit, ReplaySubmit, ExpireScan, RetryScan
<1>3. ASSUME NEW m \in pushes, PushLookup(m) \/ PushWrite(m)
      PROVE  \/ UNCHANGED wire
             \/ \E p \in Procs, x \in Procs \cup {Connected}, onError \in BOOLEAN :
                  (onError => Unregister(p)) /\ Send(p, x, onError) /\ UNCHANGED agent
  <2>1. CASE PushLookup(m)
    BY <2>1 DEF PushLookup
  <2>2. CASE PushWrite(m)
    <3>1. /\ m.to \in Procs /\ m.approval \in Procs
          /\ Send(m.to, m.approval, Unregister(m.to)) /\ UNCHANGED agent
      BY <2>2 DEF PushWrite, TypeOK
    <3>2. Unregister(m.to) \in BOOLEAN
      BY DEF Unregister
    <3>3. QED
      BY <3>1, <3>2
  <2>3. QED
    BY <1>3, <2>1, <2>2
<1>4. ASSUME NEW p \in Procs, ServeNext(p)
      PROVE  \/ UNCHANGED wire
             \/ \E x \in Procs \cup {Connected}, onError \in BOOLEAN :
                  (onError => Unregister(p)) /\ Send(p, x, onError) /\ UNCHANGED agent
  <2>1. CASE ServeConnected(p)
    BY <2>1 DEF ServeConnected
  <2>2. CASE ReplayPending(p)
    <3>1. Unregister(p) \in BOOLEAN
      BY DEF Unregister
    <3>2. UNCHANGED wire \/ \E a \in Procs : Send(p, a, Unregister(p))
      BY <2>2 DEF ReplayPending, PendingDeliveries
    <3>3. UNCHANGED agent
      BY <2>2 DEF ReplayPending
    <3>4. QED
      BY <3>1, <3>2, <3>3
  <2>3. CASE ServeHello(p) \/ HandleAck(p) \/ ServeEnd(p)
    BY <2>3 DEF ServeHello, HandleAck, ServeEnd
  <2>4. QED
    BY <1>4, <2>1, <2>2, <2>3 DEF ServeNext
<1>5. QED
  BY <1>1, <1>2, <1>3, <1>4 DEF Next, PushNext, AgentNext

\* The goroutine of a connection is past the answer only after it has sent it.
LEMMA ServesInOrder ==
  ASSUME TypeOK, [Next]_vars, NEW p \in Procs, serving'[p] \in {"connected", "reading"}
  PROVE  \/ serving[p] \in {"connected", "reading"}
         \/ ServeConnected(p)
<1> DEFINE late == {"connected", "reading"}
<1>1. CASE UNCHANGED serving
  BY <1>1
<1>2. ASSUME NEW q \in Procs, NEW s \in {"hello", "registered", "closed"},
             serving' = [serving EXCEPT ![q] = s]
      PROVE  serving[p] \in late
  BY <1>2 DEF TypeOK
<1>3. ASSUME NEW q \in Procs, Raise(q) \/ ServeHello(q) \/ HandleAck(q) \/ ServeEnd(q)
      PROVE  serving[p] \in late
  <2>1. \/ UNCHANGED serving
        \/ \E s \in {"hello", "registered", "closed"} : serving' = [serving EXCEPT ![q] = s]
    BY <1>3 DEF Raise, ServeHello, HandleAck, ServeEnd, Close
  <2>2. QED
    BY <1>2, <2>1
<1>4. ASSUME NEW q \in Procs, ServeConnected(q) PROVE serving[p] \in late \/ q = p
  <2>1. serving' = [serving EXCEPT ![q] = "connected"]
    BY <1>4 DEF ServeConnected
  <2>2. QED
    BY <2>1 DEF TypeOK
<1>5. ASSUME NEW q \in Procs, ReplayPending(q) PROVE serving[p] \in late
  <2>1. serving[q] = "connected" /\ serving' = [serving EXCEPT ![q] = "reading"]
    BY <1>5 DEF ReplayPending
  <2>2. QED
    BY <2>1 DEF TypeOK
<1>6. CASE StoreNext
  <2>1. UNCHANGED serving \/ \E q \in Procs : Raise(q)
    BY <1>6 DEF StoreNext, RepeatRaise, Submit, ReplaySubmit, ExpireScan, RetryScan
  <2>2. QED
    BY <1>1, <1>3, <2>1
<1>7. CASE PushNext
  BY <1>1, <1>7 DEF PushNext, PushLookup, PushWrite
<1>8. ASSUME NEW q \in Procs, AgentNext(q) \/ Crash(q) PROVE UNCHANGED serving
  BY <1>8 DEF AgentNext, Crash, ReadConnected, WriteDecision
<1>9. CASE UNCHANGED vars
  BY <1>1, <1>9 DEF vars
<1>10. QED
  BY <1>1, <1>3, <1>4, <1>5, <1>6, <1>7, <1>8, <1>9 DEF Next, ServeNext

\* An agent becomes or stays one that has not read the answer.
LEMMA ConnectsOnce ==
  ASSUME TypeOK, [Next]_vars, NEW p \in Procs, agent'[p] = "connecting"
  PROVE  Raise(p) \/ agent[p] = "connecting"
<1>1. CASE UNCHANGED agent
  BY <1>1
<1>2. ASSUME NEW q \in Procs, Raise(q) \/ ReadConnected(q) \/ WriteDecision(q) \/ Crash(q)
      PROVE  Raise(p) \/ agent[p] = "connecting"
  <2>1. CASE Raise(q)
    <3>1. agent' = [agent EXCEPT ![q] = "connecting"]
      BY <2>1 DEF Raise
    <3>2. QED
      BY <2>1, <3>1 DEF TypeOK
  <2>2. CASE ReadConnected(q) \/ WriteDecision(q) \/ Crash(q)
    <3>1. \E s \in {"waiting", "ended"} : agent' = [agent EXCEPT ![q] = s]
      BY <2>2 DEF ReadConnected, WriteDecision, Crash
    <3>2. QED
      BY <3>1 DEF TypeOK
  <2>3. QED
    BY <1>2, <2>1, <2>2
<1>3. QED
  BY <1>1, <1>2, AgentsAct DEF HandleAck

LEMMA AnswerStep ==
  ASSUME TypeOK, TypeOK', AnswerComesFirst, [Next]_vars
  PROVE  AnswerComesFirst'
<1>1. SUFFICES ASSUME NEW p \in Procs, agent'[p] = "connecting",
                      serving'[p] \in {"connected", "reading"}
               PROVE  wire'[p] # << >>
  BY DEF AnswerComesFirst
<1>2. ~ Raise(p)
  <2>1. ASSUME Raise(p) PROVE serving'[p] = "hello"
    <3>1. serving' = [serving EXCEPT ![p] = "hello"]
      BY <2>1 DEF Raise
    <3>2. QED
      BY <3>1 DEF TypeOK
  <2>2. QED
    BY <1>1, <2>1
<1>3. agent[p] = "connecting" /\ ~ Ended(p)
  BY <1>1, <1>2, ConnectsOnce DEF Ended
<1>4. CASE ServeConnected(p)
  BY <1>3, <1>4, SendKeeps DEF ServeConnected
<1>5. CASE serving[p] \in {"connected", "reading"}
  <2>1. wire[p] # << >>
    BY <1>3, <1>5 DEF AnswerComesFirst
  <2>2. CASE UNCHANGED wire
    BY <2>1, <2>2
  <2>3. ASSUME NEW q \in Procs, ReadConnected(q) \/ WriteDecision(q) \/ Crash(q)
        PROVE  wire'[p] # << >>
    <3>1. \E s \in {"waiting", "ended"} : agent' = [agent EXCEPT ![q] = s]
      BY <2>3 DEF ReadConnected, WriteDecision, Crash
    <3>2. q # p
      BY <1>1, <3>1 DEF TypeOK
    <3>3. \E w : wire' = [wire EXCEPT ![q] = w]
      BY <2>3 DEF ReadConnected, WriteDecision, Crash
    <3>4. QED
      BY <2>1, <3>2, <3>3 DEF TypeOK
  <2>4. ASSUME NEW q \in Procs, NEW x \in Procs \cup {Connected}, NEW onError \in BOOLEAN,
               onError => Unregister(q), Send(q, x, onError)
        PROVE  wire'[p] # << >>
    BY <1>3, <2>1, <2>4, SendKeeps
  <2>5. QED
    BY <2>2, <2>3, <2>4, Sends
<1>6. QED
  BY <1>1, <1>4, <1>5, ServesInOrder

\* Nothing on the way of decision a to p is lost by a step that takes none of it.
LEMMA NothingTaken ==
  ASSUME NEW p \in Procs, NEW a \in Procs, OnItsWay,
         Listens(p)' /\ status'[a] = "delivering",
         Listens(p)' => Listens(p),
         status'[a] = "delivering" => status[a] = "delivering",
         agent'[p] = agent[p], wire'[p] = wire[p],
         UnderWay(p, a) => UnderWay(p, a)'
  PROVE  (DeliveryAhead(p) \/ UnderWay(p, a))'
BY DEF OnItsWay, DeliveryAhead

\* A handler or the worker that decides pushes what it decided.
LEMMA StoreKeepsUnderWay ==
  ASSUME TypeOK, StoreNext, NEW p \in Procs, NEW a \in Procs, status'[a] = "delivering"
  PROVE  \/ UnderWay(p, a)'
         \/ status[a] = "delivering" /\ pushes \subseteq pushes'
<1>1. ASSUME NEW S \in SUBSET Procs, NEW who \in {"user", "server"},
             NEW by \in {"handler", "worker"}, Dispatch(S, who, by)
      PROVE  UnderWay(p, a)' \/ (status[a] = "delivering" /\ pushes \subseteq pushes')
  <2>1. Push(S, by) /\ status' = [x \in Procs |-> IF x \in S THEN "delivering" ELSE status[x]]
    BY <1>1 DEF Dispatch
  <2>2. CASE a \in S
    BY <2>1, <2>2, PushType DEF UnderWay
  <2>3. CASE a \notin S
    BY <2>1, <2>3, PushType
  <2>4. QED
    BY <2>2, <2>3
<1>2. ASSUME NEW q \in Procs, Raise(q)
      PROVE  UnderWay(p, a)' \/ (status[a] = "delivering" /\ pushes \subseteq pushes')
  <2>1. CASE Dispatch({q}, "server", "handler")
    BY <1>1, <2>1
  <2>2. CASE status' = [status EXCEPT ![q] = "waiting_decision"] /\ UNCHANGED pushes
    BY <2>2 DEF TypeOK
  <2>3. QED
    BY <1>2, <2>1, <2>2 DEF Raise
<1>3. ASSUME NEW q \in Procs, Submit(q)
      PROVE  UnderWay(p, a)' \/ (status[a] = "delivering" /\ pushes \subseteq pushes')
  BY <1>1, <1>3 DEF Submit
<1>4. ASSUME NEW q \in Procs, RepeatRaise(q) \/ ReplaySubmit(q)
      PROVE  status[a] = "delivering" /\ pushes \subseteq pushes'
  <2>1. Push({q}, "handler") /\ UNCHANGED status
    BY <1>4 DEF RepeatRaise, ReplaySubmit, storeVars
  <2>2. QED
    BY <2>1, PushType
<1>5. ASSUME ExpireScan
      PROVE  UnderWay(p, a)' \/ (status[a] = "delivering" /\ pushes \subseteq pushes')
  BY <1>1, <1>5 DEF ExpireScan
<1>6. ASSUME RetryScan
      PROVE  status[a] = "delivering" /\ pushes \subseteq pushes'
  <2>1. PICK due \in SUBSET Procs :
          /\ status' = [x \in Procs |->
               IF x \in Exhausted(due) THEN "delivery_failed" ELSE status[x]]
          /\ Push(due \ Exhausted(due), "worker")
    BY <1>6 DEF RetryScan
  <2>2. due \ Exhausted(due) \in SUBSET Procs
    OBVIOUS
  <2>3. QED
    BY <2>1, <2>2, PushType
<1>7. QED
  BY <1>2, <1>3, <1>4, <1>5, <1>6 DEF StoreNext

\* The store's steps do not touch the connections, and a process that starts is not
\* served yet.
LEMMA StoreOnItsWay ==
  ASSUME TypeOK, OnItsWay, StoreNext, NEW p \in Procs, NEW a \in Procs,
         Listens(p)', status'[a] = "delivering"
  PROVE  (DeliveryAhead(p) \/ UnderWay(p, a))'
<1>1. UNCHANGED <<byDevice, wire>>
  BY DEF StoreNext, Raise, RepeatRaise, Submit, ReplaySubmit, ExpireScan, RetryScan
<1>2. agent'[p] = agent[p] /\ serving'[p] = serving[p]
  <2>1. CASE UNCHANGED <<agent, serving>>
    BY <2>1
  <2>2. ASSUME NEW q \in Procs, Raise(q) PROVE agent'[p] = agent[p] /\ serving'[p] = serving[p]
    <3>1. /\ agent' = [agent EXCEPT ![q] = "connecting"]
          /\ serving' = [serving EXCEPT ![q] = "hello"]
      BY <2>2 DEF Raise
    <3>2. QED
      BY <3>1 DEF TypeOK, Listens
  <2>3. QED
    BY <2>1, <2>2 DEF StoreNext, RepeatRaise, Submit, ReplaySubmit, ExpireScan, RetryScan
<1>3. Listens(p)
  BY <1>1, <1>2 DEF Listens
<1>4. CASE UnderWay(p, a)'
  BY <1>4
<1>5. CASE status[a] = "delivering" /\ pushes \subseteq pushes'
  <2>1. UnderWay(p, a) => UnderWay(p, a)'
    BY <1>5 DEF UnderWay
  <2>2. QED
    BY <1>1, <1>2, <1>3, <1>5, <2>1, NothingTaken
<1>6. QED
  BY <1>4, <1>5, StoreKeepsUnderWay

\* A lookup finds the connection of the agent that listens; a write to it is read.
LEMMA PushOnItsWay ==
  ASSUME TypeOK, TypeOK', AnswerComesFirst, OnItsWay, PushNext, NEW p \in Procs, NEW a \in Procs,
         Listens(p)', status'[a] = "delivering"
  PROVE  (DeliveryAhead(p) \/ UnderWay(p, a))'
<1>1. UNCHANGED <<status, agent, serving>>
  BY DEF PushNext, PushLookup, PushWrite, storeVars
<1>2. ASSUME NEW m \in pushes, PushLookup(m) PROVE (DeliveryAhead(p) \/ UnderWay(p, a))'
  <2>1. UNCHANGED <<byDevice, wire>> /\ m.to = None
    BY <1>2 DEF PushLookup
  <2>2. byDevice = p /\ byDevice # None
    BY <2>1, DeliveryAssumption DEF Listens
  <2>3. pushes' = (pushes \ {m}) \cup {[m EXCEPT !.to = p]}
    BY <1>2, <2>2 DEF PushLookup
  <2>4. [m EXCEPT !.to = p].approval = m.approval /\ [m EXCEPT !.to = p].to = p
    <3>1. m \in [approval : Procs, by : {"handler", "worker"}, to : Procs \cup {None}]
      BY DEF TypeOK
    <3>2. QED
      BY <3>1
  <2>5. UnderWay(p, a) => UnderWay(p, a)'
    BY <2>3, <2>4 DEF UnderWay
  <2>6. Listens(p)
    BY <1>1, <2>1 DEF Listens
  <2>7. QED
    BY <1>1, <2>1, <2>5, <2>6, NothingTaken
<1>3. ASSUME NEW m \in pushes, PushWrite(m) PROVE (DeliveryAhead(p) \/ UnderWay(p, a))'
  <2>1. /\ m.to \in Procs /\ m.approval \in Procs
        /\ pushes' = pushes \ {m}
        /\ Send(m.to, m.approval, Unregister(m.to))
    BY <1>3 DEF PushWrite, TypeOK
  <2>2. Unregister(m.to) \in BOOLEAN
    BY DEF Unregister
  <2>3. byDevice' \in {byDevice, None} /\ \A q \in Procs \ {m.to} : wire'[q] = wire[q]
    BY <2>1, <2>2, SendKeeps
  <2>4. Listens(p)
    BY <1>1, <2>3, DeliveryAssumption DEF Listens
  <2>5. CASE m.to # p
    <3>1. UnderWay(p, a) => UnderWay(p, a)'
      BY <2>1, <2>5, DeliveryAssumption DEF UnderWay
    <3>2. QED
      BY <1>1, <2>3, <2>4, <2>5, <3>1, NothingTaken
  <2>6. CASE m.to = p
    <3>1. agent[p] \in {"connecting", "waiting"} /\ (agent[p] = "waiting" \/ wire[p] # << >>)
      BY <2>4 DEF Listens, AnswerComesFirst
    <3>2. DeliveryAhead(p)'
      BY <1>1, <2>1, <2>2, <2>6, <3>1, SentIsAhead
    <3>3. QED
      BY <3>2
  <2>7. QED
    BY <2>5, <2>6
<1>4. QED
  BY <1>2, <1>3 DEF PushNext

\* The goroutine of a connection replays what is not acknowledged before it reads.
LEMMA ServeOnItsWay ==
  ASSUME TypeOK, TypeOK', AnswerComesFirst, OnItsWay, NEW q \in Procs, ServeNext(q),
         NEW p \in Procs, NEW a \in Procs, Listens(p)', status'[a] = "delivering"
  PROVE  (DeliveryAhead(p) \/ UnderWay(p, a))'
<1>1. UNCHANGED <<agent, pushes>>
  BY DEF ServeNext, ServeHello, ServeConnected, ReplayPending, HandleAck, ServeEnd
<1>2. UnderWay(p, a) => UnderWay(p, a)'
  BY <1>1 DEF UnderWay
<1>3. status[a] = "delivering"
  <2>1. CASE UNCHANGED status
    BY <2>1
  <2>2. CASE HandleAck(q)
    <3> DEFINE x == ack[q].approval
    <3>1. status' = [status EXCEPT ![x] =
                       IF AckActive(x) THEN AckOutcome(ack[q].written) ELSE status[x]]
      BY <2>2 DEF HandleAck
    <3>2. AckOutcome(ack[q].written) # "delivering"
      BY DEF AckOutcome
    <3> HIDE DEF x
    <3>3. QED
      BY <3>1, <3>2 DEF TypeOK
  <2>3. QED
    BY <2>1, <2>2 DEF ServeNext, ServeHello, ServeConnected, ReplayPending, ServeEnd, storeVars
<1>4. CASE ServeHello(q)
  <2>1. byDevice' = q /\ serving' = [serving EXCEPT ![q] = "registered"] /\ UNCHANGED wire
    BY <1>4 DEF ServeHello
  <2>2. FALSE
    BY <2>1 DEF Listens, TypeOK
  <2>3. QED
    BY <2>2
<1>5. CASE HandleAck(q) \/ ServeEnd(q)
  <2>1. UNCHANGED wire /\ (UNCHANGED <<serving, byDevice>> \/ Close(q))
    BY <1>5 DEF HandleAck, ServeEnd
  <2>2. Listens(p)
    <3>1. CASE UNCHANGED <<serving, byDevice>>
      BY <1>1, <3>1 DEF Listens
    <3>2. CASE Close(q)
      <4>1. serving' = [serving EXCEPT ![q] = "closed"] /\ byDevice' \in {byDevice, None}
        BY <3>2 DEF Close, Unregister
      <4>2. QED
        BY <1>1, <4>1, DeliveryAssumption DEF Listens, TypeOK
    <3>3. QED
      BY <2>1, <3>1, <3>2
  <2>3. QED
    BY <1>1, <1>2, <1>3, <2>1, <2>2, NothingTaken
<1>6. CASE ServeConnected(q)
  <2>1. Send(q, Connected, FALSE) /\ serving' = [serving EXCEPT ![q] = "connected"]
    BY <1>6 DEF ServeConnected
  <2>2. p # q /\ serving'[p] = serving[p]
    BY <2>1 DEF Listens, TypeOK
  <2>3. byDevice' \in {byDevice, None} /\ wire'[p] = wire[p]
    BY <2>1, <2>2, SendKeeps
  <2>4. Listens(p)
    BY <1>1, <2>2, <2>3, DeliveryAssumption DEF Listens
  <2>5. QED
    BY <1>1, <1>2, <1>3, <2>3, <2>4, NothingTaken
<1>7. CASE ReplayPending(q)
  <2>1. PICK x \in Procs : Send(q, x, Unregister(q))
    BY <1>3, <1>7 DEF ReplayPending, PendingDeliveries
  <2>2. Unregister(q) \in BOOLEAN
    BY DEF Unregister
  <2>3. byDevice' \in {byDevice, None} /\ \A r \in Procs \ {q} : wire'[r] = wire[r]
    BY <2>1, <2>2, SendKeeps
  <2>4. CASE q # p
    <3>1. serving' = [serving EXCEPT ![q] = "reading"]
      BY <1>7 DEF ReplayPending
    <3>2. Listens(p)
      BY <1>1, <2>3, <2>4, <3>1, DeliveryAssumption DEF Listens, TypeOK
    <3>3. QED
      BY <1>1, <1>2, <1>3, <2>3, <2>4, <3>2, NothingTaken
  <2>5. CASE q = p
    <3>1. agent[p] \in {"connecting", "waiting"} /\ serving[p] = "connected"
      BY <1>1, <1>7, <2>5 DEF Listens, ReplayPending
    <3>2. agent[p] = "waiting" \/ wire[p] # << >>
      BY <3>1 DEF AnswerComesFirst
    <3>3. DeliveryAhead(p)'
      BY <1>1, <2>1, <2>2, <2>5, <3>1, <3>2, SentIsAhead
    <3>4. QED
      BY <3>3
  <2>6. QED
    BY <2>4, <2>5
<1>8. QED
  BY <1>4, <1>5, <1>6, <1>7 DEF ServeNext

\* An agent that reads the answer keeps what comes after it; one that ends listens no
\* more.
LEMMA AgentOnItsWay ==
  ASSUME TypeOK, TypeOK', OnItsWay, NEW q \in Procs, AgentNext(q) \/ Crash(q),
         NEW p \in Procs, NEW a \in Procs, Listens(p)', status'[a] = "delivering"
  PROVE  (DeliveryAhead(p) \/ UnderWay(p, a))'
<1>1. UNCHANGED <<status, pushes, byDevice, serving>>
  BY DEF AgentNext, Crash, ReadConnected, WriteDecision, storeVars
<1>2. UnderWay(p, a) => UnderWay(p, a)'
  BY <1>1 DEF UnderWay
<1>3. CASE q # p
  <2>1. (\E s : agent' = [agent EXCEPT ![q] = s]) /\ \E w : wire' = [wire EXCEPT ![q] = w]
    BY DEF AgentNext, Crash, ReadConnected, WriteDecision
  <2>2. agent'[p] = agent[p] /\ wire'[p] = wire[p]
    BY <1>3, <2>1 DEF TypeOK
  <2>3. Listens(p)
    BY <1>1, <2>2 DEF Listens
  <2>4. QED
    BY <1>1, <1>2, <2>2, <2>3, NothingTaken
<1>4. CASE q = p
  <2>1. ~ (WriteDecision(p) \/ Crash(p))
    <3>1. ASSUME agent' = [agent EXCEPT ![p] = "ended"] PROVE FALSE
      BY <3>1 DEF Listens, TypeOK
    <3>2. QED
      BY <3>1 DEF WriteDecision, Crash
  <2>2. ReadConnected(p)
    BY <1>4, <2>1 DEF AgentNext
  <2>3. /\ agent[p] = "connecting" /\ wire[p] # << >>
        /\ wire' = [wire EXCEPT ![p] = Tail(wire[p])]
        /\ agent' = [agent EXCEPT ![p] = "waiting"]
    BY <2>2 DEF ReadConnected
  <2>4. wire'[p] = Tail(wire[p]) /\ agent'[p] = "waiting"
    BY <2>3 DEF TypeOK
  <2>5. Listens(p)
    BY <1>1, <2>3 DEF Listens
  <2>6. CASE UnderWay(p, a)
    BY <1>2, <2>6
  <2>7. CASE DeliveryAhead(p)
    <3>1. wire[p] \in Seq(Procs \cup {Connected})
      BY DEF TypeOK
    <3>2. Tail(wire[p]) = SubSeq(wire[p], 2, Len(wire[p]))
      BY <2>3, <3>1
    <3>3. Range(wire'[p]) \cap Procs # {}
      BY <2>3, <2>4, <2>7, <3>2 DEF DeliveryAhead
    <3>4. QED
      BY <2>4, <3>3 DEF DeliveryAhead
  <2>8. QED
    BY <1>1, <2>5, <2>6, <2>7 DEF OnItsWay
<1>5. QED
  BY <1>3, <1>4

LEMMA OnItsWayStep ==
  ASSUME TypeOK, TypeOK', AnswerComesFirst, OnItsWay, [Next]_vars
  PROVE  OnItsWay'
<1>1. SUFFICES ASSUME NEW p \in Procs, NEW a \in Procs, Listens(p)', status'[a] = "delivering"
               PROVE  (DeliveryAhead(p) \/ UnderWay(p, a))'
  BY DEF OnItsWay
<1>2. CASE UNCHANGED vars
  BY <1>1, <1>2 DEF vars, OnItsWay, Listens, DeliveryAhead, UnderWay
<1>3. CASE StoreNext
  BY <1>1, <1>3, StoreOnItsWay
<1>4. CASE PushNext
  BY <1>1, <1>4, PushOnItsWay
<1>5. ASSUME NEW q \in Procs, ServeNext(q) \/ AgentNext(q) \/ Crash(q)
      PROVE  (DeliveryAhead(p) \/ UnderWay(p, a))'
  BY <1>1, <1>5, ServeOnItsWay, AgentOnItsWay
<1>6. QED
  BY <1>2, <1>3, <1>4, <1>5 DEF Next

--------------------------------------------------------------------------------
(* Who decides, and the invariant. *)

\* What the steps do to the approvals, whatever they do to the messages.
ApprovalsAct ==
  \/ UNCHANGED <<status, author>> /\ \A a \in Procs : agent'[a] = "idle" => agent[a] = "idle"
  \/ \E p \in Procs :
       /\ agent[p] = "idle" /\ agent' = [agent EXCEPT ![p] = "connecting"]
       /\ \/ status' = [status EXCEPT ![p] = "waiting_decision"] /\ UNCHANGED author
          \/ \E by \in {"handler", "worker"} : Dispatch({p}, "server", by)
  \/ \E S \in (SUBSET { a \in Procs : status[a] = "waiting_decision" }) \ {{}},
        who \in {"user", "server"}, by \in {"handler", "worker"} :
       Dispatch(S, who, by) /\ UNCHANGED agent
  \/ \E S \in (SUBSET { a \in Procs : status[a] = "delivering" }) \ {{}},
        to \in {"delivered", "delivery_failed"} :
       /\ status' = [a \in Procs |-> IF a \in S THEN to ELSE status[a]]
       /\ UNCHANGED <<author, agent>>

LEMMA StoreActs ==
  ASSUME TypeOK, StoreNext
  PROVE  ApprovalsAct
<1>1. ASSUME NEW p \in Procs, Raise(p) PROVE ApprovalsAct
  BY <1>1 DEF Raise, ApprovalsAct
<1>2. ASSUME NEW p \in Procs, RepeatRaise(p) \/ ReplaySubmit(p) PROVE ApprovalsAct
  BY <1>2 DEF RepeatRaise, ReplaySubmit, storeVars, ApprovalsAct
<1>3. ASSUME NEW p \in Procs, Submit(p) PROVE ApprovalsAct
  <2>1. {p} \in (SUBSET { a \in Procs : status[a] = "waiting_decision" }) \ {{}}
    BY <1>3 DEF Submit
  <2>2. Dispatch({p}, "user", "handler") /\ UNCHANGED agent
    BY <1>3 DEF Submit
  <2>3. QED
    BY <2>1, <2>2 DEF ApprovalsAct
<1>4. ASSUME ExpireScan PROVE ApprovalsAct
  BY <1>4 DEF ExpireScan, ApprovalsAct
<1>5. ASSUME RetryScan PROVE ApprovalsAct
  <2>1. PICK due \in SUBSET { a \in Procs : status[a] = "delivering" } :
          status' = [a \in Procs |->
            IF a \in Exhausted(due) THEN "delivery_failed" ELSE status[a]]
    BY <1>5 DEF RetryScan
  <2>2. UNCHANGED <<author, agent>>
    BY <1>5 DEF RetryScan
  <2>3. Exhausted(due) \subseteq due
    BY DEF Exhausted
  <2>4. CASE Exhausted(due) = {}
    <3>1. status' = status
      BY <2>1, <2>4 DEF TypeOK
    <3>2. QED
      BY <2>2, <3>1 DEF ApprovalsAct
  <2>5. CASE Exhausted(due) # {}
    <3>1. Exhausted(due) \in (SUBSET { a \in Procs : status[a] = "delivering" }) \ {{}}
      BY <2>3, <2>5
    <3>2. QED
      BY <2>1, <2>2, <3>1 DEF ApprovalsAct
  <2>6. QED
    BY <2>4, <2>5
<1>6. QED
  BY <1>1, <1>2, <1>3, <1>4, <1>5 DEF StoreNext

LEMMA AckActs ==
  ASSUME TypeOK, NEW p \in Procs, HandleAck(p)
  PROVE  ApprovalsAct
<1> DEFINE x == ack[p].approval
<1>1. /\ status' = [status EXCEPT ![x] =
                      IF AckActive(x) THEN AckOutcome(ack[p].written) ELSE status[x]]
      /\ UNCHANGED <<author, agent>>
  BY DEF HandleAck
<1>2. AckOutcome(ack[p].written) \in {"delivered", "delivery_failed"}
  BY DEF AckOutcome
<1> HIDE DEF x
<1>3. CASE x \in Procs /\ AckActive(x)
  <2>1. {x} \in (SUBSET { a \in Procs : status[a] = "delivering" }) \ {{}}
    BY <1>3 DEF AckActive
  <2>2. PICK to \in {"delivered", "delivery_failed"} :
          status' = [a \in Procs |-> IF a \in {x} THEN to ELSE status[a]]
    BY <1>1, <1>2, <1>3 DEF TypeOK
  <2>3. QED
    BY <1>1, <2>1, <2>2 DEF ApprovalsAct
<1>4. CASE ~ (x \in Procs /\ AckActive(x))
  <2>1. status' = status
    BY <1>1, <1>4 DEF TypeOK
  <2>2. QED
    BY <1>1, <2>1 DEF ApprovalsAct
<1>5. QED
  BY <1>3, <1>4

LEMMA AllAct ==
  ASSUME TypeOK, [Next]_vars
  PROVE  ApprovalsAct
<1>1. CASE UNCHANGED vars
  BY <1>1 DEF vars, ApprovalsAct
<1>2. CASE PushNext
  BY <1>2 DEF PushNext, PushLookup, PushWrite, storeVars, ApprovalsAct
<1>3. ASSUME NEW p \in Procs, ServeNext(p) PROVE ApprovalsAct
  <2>1. CASE HandleAck(p)
    BY <2>1, AckActs
  <2>2. CASE ServeHello(p) \/ ServeConnected(p) \/ ReplayPending(p) \/ ServeEnd(p)
    BY <2>2 DEF ServeHello, ServeConnected, ReplayPending, ServeEnd, storeVars, ApprovalsAct
  <2>3. QED
    BY <1>3, <2>1, <2>2 DEF ServeNext
<1>4. ASSUME NEW p \in Procs, AgentNext(p) \/ Crash(p) PROVE ApprovalsAct
  <2>1. UNCHANGED <<status, author>>
    BY <1>4 DEF AgentNext, Crash, ReadConnected, WriteDecision, storeVars
  <2>2. PICK s \in {"waiting", "ended"} : agent' = [agent EXCEPT ![p] = s]
    BY <1>4 DEF AgentNext, Crash, ReadConnected, WriteDecision
  <2>3. \A a \in Procs : agent'[a] = "idle" => agent[a] = "idle"
    BY <2>2 DEF TypeOK
  <2>4. QED
    BY <2>1, <2>3 DEF ApprovalsAct
<1>5. QED
  BY <1>1, <1>2, <1>3, <1>4, StoreActs DEF Next

LEMMA AuthorsStep ==
  ASSUME TypeOK, AuthorsDecide, [Next]_vars
  PROVE  AuthorsDecide'
<1>1. CASE UNCHANGED <<status, author>> /\ \A a \in Procs : agent'[a] = "idle" => agent[a] = "idle"
  BY <1>1 DEF AuthorsDecide
<1>2. ASSUME NEW p \in Procs, agent[p] = "idle", agent' = [agent EXCEPT ![p] = "connecting"],
             \/ status' = [status EXCEPT ![p] = "waiting_decision"] /\ UNCHANGED author
             \/ \E by \in {"handler", "worker"} : Dispatch({p}, "server", by)
      PROVE  AuthorsDecide'
  <2>1. status[p] = "none" /\ author[p] = "" /\ agent'[p] = "connecting"
    BY <1>2 DEF AuthorsDecide, TypeOK
  <2>2. \A a \in Procs \ {p} : UNCHANGED <<status[a], author[a], agent[a]>>
    <3>1. \A a \in Procs \ {p} : agent'[a] = agent[a]
      BY <1>2 DEF TypeOK
    <3>2. CASE status' = [status EXCEPT ![p] = "waiting_decision"] /\ UNCHANGED author
      BY <3>1, <3>2 DEF TypeOK
    <3>3. CASE \E by \in {"handler", "worker"} : Dispatch({p}, "server", by)
      BY <3>1, <3>3 DEF Dispatch
    <3>4. QED
      BY <1>2, <3>2, <3>3
  <2>3. \/ status'[p] = "waiting_decision" /\ author'[p] = ""
        \/ status'[p] = "delivering" /\ author'[p] = "server"
    <3>1. CASE status' = [status EXCEPT ![p] = "waiting_decision"] /\ UNCHANGED author
      BY <2>1, <3>1 DEF TypeOK
    <3>2. CASE \E by \in {"handler", "worker"} : Dispatch({p}, "server", by)
      BY <3>2 DEF Dispatch
    <3>3. QED
      BY <1>2, <3>1, <3>2
  <2>4. QED
    BY <2>1, <2>2, <2>3 DEF AuthorsDecide
<1>3. ASSUME NEW S \in SUBSET { a \in Procs : status[a] = "waiting_decision" },
             NEW who \in {"user", "server"}, NEW by \in {"handler", "worker"},
             Dispatch(S, who, by), UNCHANGED agent
      PROVE  AuthorsDecide'
  <2>1. \A a \in Procs \ S : UNCHANGED <<status[a], author[a]>>
    BY <1>3 DEF Dispatch
  <2>2. \A a \in S : status'[a] = "delivering" /\ author'[a] # "" /\ agent[a] # "idle"
    BY <1>3 DEF Dispatch, AuthorsDecide
  <2>3. QED
    BY <1>3, <2>1, <2>2 DEF AuthorsDecide
<1>4. ASSUME NEW S \in SUBSET { a \in Procs : status[a] = "delivering" },
             NEW to \in {"delivered", "delivery_failed"},
             status' = [a \in Procs |-> IF a \in S THEN to ELSE status[a]],
             UNCHANGED <<author, agent>>
      PROVE  AuthorsDecide'
  BY <1>4 DEF AuthorsDecide
<1>5. QED
  BY <1>1, <1>2, <1>3, <1>4, AllAct DEF ApprovalsAct

LEMMA InvariantHolds == Spec => []IInv
<1>1. Init => IInv
  <2> SUFFICES ASSUME Init PROVE IInv
    OBVIOUS
  <2>1. TypeOK
    <3>1. << >> \in Seq(Procs \cup {Connected})
      OBVIOUS
    <3>2. 0 \in 0 .. MaxAttempts
      BY DeliveryAssumption
    <3>3. QED
      BY <3>1, <3>2 DEF Init, TypeOK, NoAck
  <2>2. AcksTellTheTruth /\ DeliveredWasWritten
    BY DEF Init, NoAck, AcksTellTheTruth, DeliveredWasWritten
  <2>3. AnswerComesFirst /\ OnItsWay /\ AuthorsDecide
    BY DEF Init, AnswerComesFirst, OnItsWay, Listens, AuthorsDecide
  <2>4. QED
    BY <2>1, <2>2, <2>3 DEF IInv
<1>2. IInv /\ [Next]_vars => IInv'
  <2> SUFFICES ASSUME IInv, [Next]_vars PROVE IInv'
    OBVIOUS
  <2>1. TypeOK'
    BY TypeStep DEF IInv
  <2>2. AcksTellTheTruth' /\ DeliveredWasWritten'
    BY <2>1, AcksStep, DeliveredStep DEF IInv
  <2>3. AnswerComesFirst' /\ OnItsWay' /\ AuthorsDecide'
    BY <2>1, AnswerStep, OnItsWayStep, AuthorsStep DEF IInv
  <2>4. QED
    BY <2>1, <2>2, <2>3 DEF IInv
<1>3. QED
  BY <1>1, <1>2, PTL DEF Spec

\* What handleAgentDecisionAck records as delivered was written into some CLI: an ack
\* that is lost, or that comes late, never makes it record more.
THEOREM DeliveredDecisionsWereWritten == Spec => []DeliveredWasWritten
<1>1. IInv => DeliveredWasWritten
  BY DEF IInv
<1>2. QED
  BY <1>1, InvariantHolds, PTL

\* An agent that waits on the connection of the hub has every decision that is not
\* acknowledged on its way, however the pushes after the store's lock and the replay
\* after the hello interleave.
THEOREM NoDecisionIsLost == Spec => []NoDecisionLost
<1>1. IInv => NoDecisionLost
  BY DEF IInv, OnItsWay, Listens, UnderWay, NoDecisionLost
<1>2. QED
  BY <1>1, InvariantHolds, PTL

--------------------------------------------------------------------------------
(* The protocol implements the abstract life of an approval. *)

DecisionOf(who) == IF who = "" THEN "" ELSE "decided"

View(a, s, who) ==
  [owner |-> a, phase |-> PhaseOf(s), decision |-> DecisionOf(who), by |-> who]

\* The ledger shows the approvals that were raised.
LEMMA LedgerViews ==
  /\ DOMAIN Ledger = { a \in Procs : status[a] # "none" }
  /\ \A a \in DOMAIN Ledger : Ledger[a] = View(a, status[a], author[a])
  /\ DOMAIN Ledger' = { a \in Procs : status'[a] # "none" }
  /\ \A a \in DOMAIN Ledger' : Ledger'[a] = View(a, status'[a], author'[a])
BY DEF Ledger, View, DecisionOf

LEMMA ViewFields ==
  ASSUME NEW a, NEW s, NEW who
  PROVE  /\ View(a, s, who).owner = a /\ View(a, s, who).phase = PhaseOf(s)
         /\ View(a, s, who).decision = DecisionOf(who)
         /\ View(a, s, who).by = who
BY DEF View

LEMMA Phases ==
  /\ PhaseOf("waiting_decision") = "open"
  /\ PhaseOf("delivering") = "decided"
  /\ PhaseOf("delivered") = "done"
  /\ PhaseOf("delivery_failed") = "failed"
BY DEF PhaseOf

LEMMA ViewType ==
  ASSUME NEW a \in Procs, NEW who \in {"", "user", "server"},
         NEW s \in {"waiting_decision", "delivering", "delivered", "delivery_failed"}
  PROVE  View(a, s, who) \in Lifecycle!Entry
<1>1. PhaseOf(s) \in {"open", "decided", "done", "failed"}
  BY Phases
<1>2. QED
  BY <1>1 DEF View, DecisionOf, Lifecycle!Entry

\* Approvals that change their status together make an abstract move.
LEMMA MovesTogether ==
  ASSUME TypeOK, TypeOK', NEW S \in SUBSET Procs, S # {},
         NEW s \in {"waiting_decision", "delivering"},
         NEW t \in {"delivering", "delivered", "delivery_failed"},
         \A a \in S : status[a] = s /\ status'[a] = t,
         \A a \in Procs \ S : status'[a] = status[a] /\ author'[a] = author[a]
  PROVE  Lifecycle!Move(S, PhaseOf(s), PhaseOf(t))
<1>1. \A a \in S : a \in DOMAIN Ledger /\ Ledger[a].phase = PhaseOf(s)
  BY LedgerViews, ViewFields
<1>2. DOMAIN Ledger' = DOMAIN Ledger
  BY LedgerViews
<1>3. \A a \in DOMAIN Ledger \ S : Ledger'[a] = Ledger[a]
  BY <1>2, LedgerViews
<1>4. ASSUME NEW a \in S
      PROVE  /\ Ledger'[a] \in Lifecycle!Entry
             /\ Ledger'[a].owner = Ledger[a].owner
             /\ Ledger'[a].phase = PhaseOf(t)
  <2>1. Ledger[a] = View(a, s, author[a]) /\ Ledger'[a] = View(a, t, author'[a])
    BY <1>1, <1>2, LedgerViews
  <2>2. author'[a] \in {"", "user", "server"}
    BY DEF TypeOK
  <2>3. View(a, t, author'[a]) \in Lifecycle!Entry
    BY <2>2, ViewType
  <2>4. QED
    BY <2>1, <2>3, ViewFields
<1>5. QED
  BY <1>1, <1>2, <1>3, <1>4 DEF Lifecycle!Move

\* A decision, by a user or by the server, is an abstract one.
LEMMA DispatchDecides ==
  ASSUME TypeOK, TypeOK', NEW S \in SUBSET { a \in Procs : status[a] = "waiting_decision" }, S # {},
         NEW who \in {"user", "server"}, NEW by \in {"handler", "worker"}, Dispatch(S, who, by)
  PROVE  Lifecycle!Next
<1>1. /\ S \in SUBSET Procs
      /\ \A a \in S : status[a] = "waiting_decision" /\ status'[a] = "delivering" /\ author'[a] = who
      /\ \A a \in Procs \ S : status'[a] = status[a] /\ author'[a] = author[a]
  BY DEF Dispatch
<1>2. Lifecycle!Move(S, "open", "decided")
  BY <1>1, MovesTogether, Phases
<1>3. \A a \in S : Ledger'[a].decision # ""
  <2>1. \A a \in S : Ledger'[a].decision = DecisionOf(who)
    BY <1>1, LedgerViews, ViewFields
  <2>2. QED
    BY <2>1 DEF DecisionOf
<1>4. Lifecycle!Decide(S)
  BY <1>2, <1>3 DEF Lifecycle!Decide, Lifecycle!NoDecision
<1>5. QED
  BY <1>1, <1>4 DEF Lifecycle!Next

\* Deliveries that are acknowledged, or given up, are closed.
LEMMA ClosesTogether ==
  ASSUME TypeOK, TypeOK', NEW S \in SUBSET { a \in Procs : status[a] = "delivering" }, S # {},
         NEW to \in {"delivered", "delivery_failed"},
         status' = [a \in Procs |-> IF a \in S THEN to ELSE status[a]], UNCHANGED author
  PROVE  Lifecycle!Next
<1>1. /\ S \in SUBSET Procs
      /\ \A a \in S : status[a] = "delivering" /\ status'[a] = to
      /\ \A a \in Procs \ S : status'[a] = status[a] /\ author'[a] = author[a]
  OBVIOUS
<1>2. Lifecycle!Move(S, "decided", PhaseOf(to))
  BY <1>1, MovesTogether, Phases
<1>3. Lifecycle!KeepsDecision(S)
  BY <1>1, LedgerViews, ViewFields DEF Lifecycle!KeepsDecision
<1>4. PhaseOf(to) \in {"done", "failed"}
  BY Phases
<1>5. Lifecycle!Close(S)
  BY <1>2, <1>3, <1>4 DEF Lifecycle!Close
<1>6. QED
  BY <1>1, <1>5 DEF Lifecycle!Next

\* A report raises the approval of a process that had none.
LEMMA RaiseRaises ==
  ASSUME TypeOK, TypeOK', AuthorsDecide, NEW p \in Procs, agent[p] = "idle",
         \/ status' = [status EXCEPT ![p] = "waiting_decision"] /\ UNCHANGED author
         \/ \E by \in {"handler", "worker"} : Dispatch({p}, "server", by)
  PROVE  Lifecycle!Next
<1>1. status[p] = "none" /\ author[p] = ""
  BY DEF AuthorsDecide
<1>2. \A a \in Procs \ {p} : status'[a] = status[a] /\ author'[a] = author[a]
  <2>1. CASE status' = [status EXCEPT ![p] = "waiting_decision"] /\ UNCHANGED author
    BY <2>1 DEF TypeOK
  <2>2. CASE \E by \in {"handler", "worker"} : Dispatch({p}, "server", by)
    BY <2>2 DEF Dispatch
  <2>3. QED
    BY <2>1, <2>2
<1>3. \/ status'[p] = "waiting_decision" /\ author'[p] = ""
      \/ status'[p] = "delivering" /\ author'[p] = "server"
  <2>1. CASE status' = [status EXCEPT ![p] = "waiting_decision"] /\ UNCHANGED author
    BY <1>1, <2>1 DEF TypeOK
  <2>2. CASE \E by \in {"handler", "worker"} : Dispatch({p}, "server", by)
    BY <2>2 DEF Dispatch
  <2>3. QED
    BY <2>1, <2>2
<1>4. /\ p \notin DOMAIN Ledger
      /\ DOMAIN Ledger' = DOMAIN Ledger \cup {p}
  BY <1>1, <1>2, <1>3, LedgerViews
<1>5. \A x \in DOMAIN Ledger : Ledger'[x] = Ledger[x]
  BY <1>2, <1>4, LedgerViews
<1>6. Ledger'[p] = View(p, status'[p], author'[p])
  BY <1>4, LedgerViews
<1>7. Ledger'[p] \in Lifecycle!Entry
  BY <1>3, <1>6, ViewType
<1>8. \/ Ledger'[p].phase = "open" /\ Ledger'[p].decision = ""
      \/ Ledger'[p].phase = "decided" /\ Ledger'[p].decision # ""
  <2>1. Ledger'[p].phase = PhaseOf(status'[p]) /\ Ledger'[p].decision = DecisionOf(author'[p])
    BY <1>6, ViewFields
  <2>2. DecisionOf("") = "" /\ DecisionOf("server") # ""
    BY DEF DecisionOf
  <2>3. QED
    BY <1>3, <2>1, <2>2, Phases
<1>9. Lifecycle!Raise(p)
  BY <1>4, <1>5, <1>7, <1>8 DEF Lifecycle!Raise, Lifecycle!NoDecision
<1>10. QED
  BY <1>9 DEF Lifecycle!Next

LEMMA StepImplements ==
  ASSUME IInv, IInv', [Next]_vars
  PROVE  [Lifecycle!Next]_Ledger
<1>1. TypeOK /\ TypeOK' /\ AuthorsDecide
  BY DEF IInv
<1>2. CASE UNCHANGED <<status, author>>
  BY <1>2 DEF Ledger
<1>3. ASSUME NEW p \in Procs, agent[p] = "idle",
             \/ status' = [status EXCEPT ![p] = "waiting_decision"] /\ UNCHANGED author
             \/ \E by \in {"handler", "worker"} : Dispatch({p}, "server", by)
      PROVE  Lifecycle!Next
  BY <1>1, <1>3, RaiseRaises
<1>4. QED
  BY <1>1, <1>2, <1>3, AllAct, DispatchDecides, ClosesTogether DEF ApprovalsAct

\* Messages that are lost, repeated or late, pushes that race a hello, and processes
\* that die implement the abstract life of an approval.
THEOREM ProtocolImplementsLifecycle == Spec => ImplementsLifecycle
<1>1. Init => Lifecycle!Init
  <2>1. ASSUME Init PROVE Ledger = << >>
    <3>1. { a \in Procs : status[a] # "none" } = {}
      BY <2>1 DEF Init
    <3>2. Ledger = [a \in {} |-> 0]
      BY <3>1 DEF Ledger
    <3>3. QED
      BY <3>2
  <2>2. QED
    BY <2>1 DEF Lifecycle!Init
<1>2. IInv /\ IInv' /\ [Next]_vars => [Lifecycle!Next]_Ledger
  BY StepImplements
<1>3. QED
  BY <1>1, <1>2, InvariantHolds, PTL DEF Spec, ImplementsLifecycle, Lifecycle!Spec
================================================================================
