--------------------------- MODULE LocalHistoryProofs ---------------------------
(***************************************************************************)
(* Theorems about LocalHistory, for any number of runs with any plans.     *)
(* That the file lists the session of every record rests on the pruning of *)
(* what is saved; that a record written alone is kept rests on the copies: *)
(* when it is written nobody else has one, and every copy loaded later     *)
(* has the record.                                                         *)
(***************************************************************************)
EXTENDS LocalHistory, TLAPS

\* A text in which every record belongs to a session it lists.
Closed(t) ==
  /\ t.addr \subseteq Known(t)
  /\ \A s \in Sessions : t.approval[s] # "none" => s \in Known(t)
  /\ \A l \in t.lines : l.session \in Known(t)

\* What is about to be written is closed as well.
ClosedCopies ==
  /\ state = "whole" => Closed(text)
  /\ \A g \in Goroutines : step[g] = "saving" => Closed(copy[g])

\* While output with a question is being recorded, no handler is at work.
PromptsFirst ==
  \A s \in Sessions \ Managed :
    todo[<<s, "output">>] = "prompts" => todo[<<s, "handler">>] = "none"

\* Who is alone is the only one with an update under way.
AloneIsAlone ==
  \A g \in alone : \A h \in Goroutines : step[h] # "idle" => h = g

Item == [session : Sessions, kind : Kinds \cup {"session", "approval"}, n : Nat]

\* What who is alone will have recorded is in its copy.
AloneHasItsRecord ==
  \A g \in alone : \A item \in Recorded(g) : item \in Item /\ Says(copy[g], item)

Has(t, item) == Says(t, item) /\ item.session \in Known(t)

\* What is kept is in the file, and in every copy from which the file is rewritten.
KeptEverywhere ==
  \A item \in kept :
    /\ item \in Item
    /\ item.session \notin aged =>
         /\ state = "whole" => Has(text, item)
         /\ \A g \in Goroutines : step[g] # "idle" => Has(copy[g], item)

IInv == /\ TypeOK /\ ClosedCopies /\ PromptsFirst
        /\ AloneIsAlone /\ AloneHasItsRecord /\ KeptEverywhere

-------------------------------------------------------------------------------
(* Lemmas about texts. *)

LEMMA NothingForm ==
  /\ Nothing \in Text /\ Closed(Nothing)
BY DEF Nothing, Text, Closed, Known

\* Which goroutine does which work.
LEMMA TaskOwners ==
  ASSUME NEW g \in Goroutines
  PROVE  /\ g[1] \in Sessions /\ g[2] \in {"main", "output", "handler", "host"}
         /\ g = <<g[1], g[2]>>
         /\ Tasks(g) \subseteq Task
BY DEF Goroutines, Tasks, Task

\* An update adds to the text: its session, an approval or a line.
LEMMA StatusForm ==
  ASSUME NEW t \in Text, NEW s \in Sessions, NEW status \in Open \cup {"ended"},
         NEW addr \in BOOLEAN
  PROVE  /\ WithStatus(t, s, status, addr) \in Text
         /\ Known(WithStatus(t, s, status, addr)) = Known(t) \cup {s}
         /\ WithStatus(t, s, status, addr).approval = t.approval
         /\ WithStatus(t, s, status, addr).lines = t.lines
BY DEF WithStatus, Text, Known, Open

LEMMA ApprovalForm ==
  ASSUME NEW t \in Text, NEW s \in Sessions, NEW status \in {"waiting_decision", "delivered"}
  PROVE  /\ WithApproval(t, s, status) \in Text
         /\ Known(WithApproval(t, s, status)) = Known(t)
         /\ WithApproval(t, s, status).approval[s] # "none"
         /\ \A r \in Sessions : t.approval[r] # "none" =>
              WithApproval(t, s, status).approval[r] # "none"
         /\ WithApproval(t, s, status).lines = t.lines
BY DEF WithApproval, Text, Known

LEMMA LineForm ==
  ASSUME TypeOK, NEW t \in Text, NEW s \in Sessions, NEW kind \in Kinds
  PROVE  /\ made[s][kind] + 1 \in Nat \ {0}
         /\ WithLine(t, s, kind) \in Text
         /\ Known(WithLine(t, s, kind)) = Known(t)
         /\ WithLine(t, s, kind).approval = t.approval
         /\ WithLine(t, s, kind).lines =
              t.lines \cup {[session |-> s, kind |-> kind, n |-> made[s][kind] + 1]}
<1>1. made[s][kind] + 1 \in Nat \ {0}
  BY DEF TypeOK
<1>2. [session |-> s, kind |-> kind, n |-> made[s][kind] + 1] \in Line
  BY <1>1 DEF Line
<1>3. QED
  BY <1>1, <1>2 DEF WithLine, Text, Known

\* What a text says it says after an update too.
LEMMA SaysMore ==
  ASSUME NEW t, NEW u, NEW item \in Item,
         Known(t) \subseteq Known(u), t.lines \subseteq u.lines,
         \A r \in Sessions : t.approval[r] # "none" => u.approval[r] # "none"
  PROVE  /\ Says(t, item) => Says(u, item)
         /\ Has(t, item) => Has(u, item)
<1>1. item.session \in Sessions
  BY DEF Item
<1>2. Says(t, item) => Says(u, item)
  BY <1>1 DEF Says
<1>3. QED
  BY <1>2 DEF Has

LEMMA AfterForm ==
  ASSUME TypeOK, NEW t \in Text, NEW s \in Sessions, NEW op \in Task \ {"none", "decide"}
  PROVE  /\ After(t, s, op) \in Text
         /\ Known(t) \subseteq Known(After(t, s, op))
         /\ t.lines \subseteq After(t, s, op).lines
         /\ \A r \in Sessions : t.approval[r] # "none" => After(t, s, op).approval[r] # "none"
         /\ op \in {"asks", "delivers"} => After(t, s, op).approval[s] # "none"
         /\ op = "decides" =>
              [session |-> s, kind |-> "decision", n |-> made[s]["decision"] + 1]
                \in After(t, s, op).lines
         /\ op = "replies" =>
              [session |-> s, kind |-> "reply", n |-> made[s]["reply"] + 1]
                \in After(t, s, op).lines
         /\ op \in {"prints", "prompts"} =>
              [session |-> s, kind |-> "output", n |-> made[s]["output"] + 1]
                \in After(t, s, op).lines
<1>1. CASE op \in {"starts", "waits", "resumes", "ends"}
  <2>1. PICK status \in Open \cup {"ended"}, addr \in BOOLEAN :
          After(t, s, op) = WithStatus(t, s, status, addr)
    <3>1. (s \in Managed) \in BOOLEAN
      OBVIOUS
    <3>2. CASE op = "starts"
      BY <3>2 DEF After, Open
    <3>3. CASE op = "waits"
      BY <3>1, <3>3 DEF After, Open
    <3>4. CASE op = "resumes"
      BY <3>1, <3>4 DEF After, Open
    <3>5. CASE op = "ends"
      BY <3>5 DEF After
    <3>6. QED
      BY <1>1, <3>2, <3>3, <3>4, <3>5
  <2>2. QED
    BY <1>1, <2>1, StatusForm
<1>2. CASE op \in {"asks", "delivers"}
  <2>1. PICK status \in {"waiting_decision", "delivered"} :
          After(t, s, op) = WithApproval(t, s, status)
    BY <1>2 DEF After
  <2>2. op \notin {"decides", "replies", "prints", "prompts"}
    BY <1>2
  <2> DEFINE u == After(t, s, op)
  <2>3. u = WithApproval(t, s, status)
    BY <2>1
  <2> HIDE DEF u
  <2>4. /\ u \in Text /\ Known(u) = Known(t) /\ u.lines = t.lines
        /\ u.approval[s] # "none"
        /\ \A r \in Sessions : t.approval[r] # "none" => u.approval[r] # "none"
    BY <2>3, ApprovalForm
  <2>5. QED
    BY <2>2, <2>4 DEF u
<1>3. CASE op = "decides"
  <2>1. After(t, s, op) = WithLine(t, s, "decision") /\ "decision" \in Kinds
    BY <1>3 DEF After, Kinds
  <2>2. QED
    BY <1>3, <2>1, LineForm
<1>4. CASE op = "replies"
  <2>1. After(t, s, op) = WithLine(t, s, "reply") /\ "reply" \in Kinds
    BY <1>4 DEF After, Kinds
  <2>2. QED
    BY <1>4, <2>1, LineForm
<1>5. CASE op \in {"prints", "prompts"}
  <2>1. After(t, s, op) = WithLine(t, s, "output") /\ "output" \in Kinds
    BY <1>5 DEF After, Kinds
  <2>2. QED
    BY <1>5, <2>1, LineForm
<1>6. QED
  BY <1>1, <1>2, <1>3, <1>4, <1>5 DEF Task

\* What is saved is closed, and has all that was said of sessions that have not aged.
LEMMA PruneForm ==
  ASSUME NEW t \in Text, NEW strict \in BOOLEAN
  PROVE  /\ Prune(t, strict) \in Text
         /\ Closed(Prune(t, strict))
         /\ \A item \in Item :
              /\ Says(t, item) /\ item.session \in Known(Prune(t, strict)) =>
                   Says(Prune(t, strict), item)
              /\ Has(t, item) /\ item.session \notin aged => Has(Prune(t, strict), item)
<1> DEFINE keep == {s \in Known(t) : Stays(t, s, strict)}
           Of(f) == [s \in Sessions |-> IF s \in keep THEN f[s] ELSE "none"]
           kept_ == {l \in t.lines : l.session \in keep}
           u == Prune(t, strict)
<1>1. u = [status |-> Of(t.status), addr |-> t.addr \cap keep, approval |-> Of(t.approval),
           lines |-> kept_]
  BY DEF Prune
<1>2. keep \subseteq Sessions /\ \A s \in keep : t.status[s] # "none"
  BY DEF Known
<1>3. Of(t.status) \in [Sessions -> Open \cup {"ended", "none"}]
  BY DEF Text
<1>4. Of(t.approval) \in [Sessions -> {"waiting_decision", "delivered", "none"}]
  BY DEF Text
<1>5. t.addr \cap keep \in SUBSET Sessions /\ kept_ \in SUBSET Line
  BY DEF Text
<1> HIDE DEF u
<1>6. u \in Text
  <2> HIDE DEF Of, keep, kept_
  <2>1. QED
    BY <1>1, <1>3, <1>4, <1>5 DEF Text
<1>7. Known(u) = keep
  BY <1>1, <1>2 DEF Known
<1>8. Closed(u)
  BY <1>1, <1>7 DEF Closed
<1>9. ASSUME NEW item \in Item, Says(t, item), item.session \in Known(u)
      PROVE  Says(u, item)
  <2>1. item.session \in Sessions
    BY DEF Item
  <2>2. CASE item.kind = "session"
    BY <1>9, <2>2 DEF Says
  <2>3. CASE item.kind = "approval"
    BY <1>1, <1>7, <1>9, <2>1, <2>3 DEF Says
  <2>4. CASE item.kind \notin {"session", "approval"}
    BY <1>1, <1>7, <1>9, <2>4 DEF Says
  <2>5. QED
    BY <2>2, <2>3, <2>4
<1>10. ASSUME NEW item \in Item, Has(t, item), item.session \notin aged
       PROVE  Has(u, item)
  <2>1. item.session \in keep
    BY <1>10 DEF Has, Stays
  <2>2. QED
    BY <1>7, <1>9, <1>10, <2>1 DEF Has
<1>11. QED
  BY <1>6, <1>8, <1>9, <1>10 DEF u

-------------------------------------------------------------------------------
(* Lemmas about goroutines. *)

\* Lines of one kind are numbered by one goroutine of their session.
LEMMA OwnLines ==
  ASSUME TypeOK, NEW g \in Goroutines, NEW h \in Goroutines, g[1] = h[1], g # h
  PROVE  /\ ~(todo[g] = "decides" /\ todo[h] = "decides")
         /\ ~(todo[g] = "replies" /\ todo[h] = "replies")
         /\ ~(todo[g] \in {"prints", "prompts"} /\ todo[h] \in {"prints", "prompts"})
<1>1. g[2] # h[2]
  BY TaskOwners
<1>2. todo[g] \in Tasks(g) /\ todo[h] \in Tasks(h)
  BY DEF TypeOK
<1>3. QED
  BY <1>1, <1>2, TaskOwners DEF Tasks

\* An update counts the line it appends.
LEMMA NumbersForm ==
  ASSUME TypeOK, NEW s \in Sessions, NEW op \in Task, Numbers(s, op)
  PROVE  /\ made' \in [Sessions -> [Kinds -> Nat]]
         /\ \A r \in Sessions \ {s} : made'[r] = made[r]
         /\ made'[s]["output"] = IF op \in {"prints", "prompts"}
                                 THEN made[s]["output"] + 1 ELSE made[s]["output"]
         /\ made'[s]["decision"] = IF op = "decides"
                                   THEN made[s]["decision"] + 1 ELSE made[s]["decision"]
         /\ made'[s]["reply"] = IF op = "replies"
                                THEN made[s]["reply"] + 1 ELSE made[s]["reply"]
<1>1. made \in [Sessions -> [Kinds -> Nat]] /\ {"output", "decision", "reply"} = Kinds
  BY DEF TypeOK, Kinds
<1>2. CASE op \in {"prints", "prompts"}
  BY <1>1, <1>2 DEF Numbers
<1>3. CASE op = "decides"
  BY <1>1, <1>3 DEF Numbers
<1>4. CASE op = "replies"
  BY <1>1, <1>4 DEF Numbers
<1>5. CASE op \notin {"prints", "prompts", "decides", "replies"}
  BY <1>1, <1>5 DEF Numbers
<1>6. QED
  BY <1>2, <1>3, <1>4, <1>5

\* The next piece of work is of the goroutine's kind, and output with a question is
\* followed by nothing in a terminal.
LEMMA ThenForm ==
  ASSUME NEW g \in Goroutines, NEW op \in Tasks(g)
  PROVE  /\ Then(g, op) \in Tasks(g)
         /\ g[2] = "output" /\ g[1] \notin Managed => Then(g, op) = "none"
BY TaskOwners DEF Then, Tasks

\* After an update its goroutine goes on; another's work changes only if it had none.
LEMMA MovesForm ==
  ASSUME TypeOK, PromptsFirst, NEW g \in Goroutines, Updates(g), Moves(g),
         run' = run, plan' = plan
  PROVE  /\ todo' \in [Goroutines -> Task]
         /\ step' \in [Goroutines -> {"idle", "loaded", "saving"}]
         /\ copy' \in [Goroutines -> Text]
         /\ step'[g] = "idle"
         /\ \A h \in Goroutines \ {g} : step'[h] = step[h] /\ copy'[h] = copy[h]
         /\ \A h \in Goroutines \ {g} : todo'[h] = todo[h] \/ todo[h] = "none"
         /\ \A h \in Goroutines :
              todo'[h] \in Tasks(h) /\ (todo'[h] # "none" => Alive(h[1]))
         /\ PromptsFirst'
<1> DEFINE s == g[1]
           hnd == <<g[1], "handler">>
           asks == todo[g] = "prompts" /\ g[1] \notin Managed
<1>1. /\ g[1] \in Sessions /\ hnd \in Goroutines
      /\ todo[g] \in Tasks(g) /\ Alive(g[1])
  BY TaskOwners DEF TypeOK, Updates, Goroutines
<1>2. Then(g, todo[g]) \in Tasks(g) /\ Then(g, todo[g]) \in Task
  BY <1>1, ThenForm, TaskOwners
<1>3. asks => g = <<g[1], "output">> /\ todo[hnd] = "none" /\ hnd # g
  BY <1>1, TaskOwners DEF Tasks, PromptsFirst
<1>4. /\ todo' = IF asks THEN [[todo EXCEPT ![g] = Then(g, todo[g])] EXCEPT ![hnd] = "asks"]
                         ELSE [todo EXCEPT ![g] = Then(g, todo[g])]
      /\ step' = [step EXCEPT ![g] = "idle"]
      /\ copy' = [copy EXCEPT ![g] = Nothing]
  BY DEF Moves
<1>5. /\ todo'[g] = Then(g, todo[g])
      /\ \A h \in Goroutines \ {g} :
           todo'[h] = IF asks /\ h = hnd THEN "asks" ELSE todo[h]
      /\ todo' \in [Goroutines -> Task]
  <2>1. todo \in [Goroutines -> Task] /\ "asks" \in Task
    BY DEF TypeOK, Task
  <2> HIDE DEF hnd, asks
  <2>2. QED
    BY <1>1, <1>2, <1>3, <1>4, <2>1
<1>6. /\ step' \in [Goroutines -> {"idle", "loaded", "saving"}]
      /\ copy' \in [Goroutines -> Text]
      /\ step'[g] = "idle"
      /\ \A h \in Goroutines \ {g} : step'[h] = step[h] /\ copy'[h] = copy[h]
  BY <1>4, NothingForm DEF TypeOK
<1>7. asks => "asks" \in Tasks(hnd)
  BY DEF Tasks
<1>8. \A h \in Goroutines : todo'[h] \in Tasks(h) /\ (todo'[h] # "none" => Alive(h[1]))
  <2> TAKE h \in Goroutines
  <2>1. CASE h = g
    BY <1>1, <1>2, <1>5, <2>1
  <2>2. CASE h # g /\ asks /\ h = hnd
    BY <1>1, <1>5, <1>7, <2>2
  <2>3. CASE h # g /\ ~(asks /\ h = hnd)
    <3>1. todo'[h] = todo[h]
      BY <1>5, <2>3
    <3>2. QED
      BY <3>1 DEF TypeOK
  <2>4. QED
    BY <2>1, <2>2, <2>3
<1>9. PromptsFirst'
  <2> SUFFICES ASSUME NEW r \in Sessions \ Managed, todo'[<<r, "output">>] = "prompts"
               PROVE  todo'[<<r, "handler">>] = "none"
    BY DEF PromptsFirst, Managed
  <2>1. <<r, "output">> \in Goroutines /\ <<r, "handler">> \in Goroutines
    BY DEF Goroutines
  <2>2. g # <<r, "output">>
    <3> SUFFICES ASSUME g = <<r, "output">>
                 PROVE  FALSE
      OBVIOUS
    <3>1. Then(g, todo[g]) = "none"
      BY <1>1, ThenForm
    <3>2. QED
      BY <1>5, <3>1
  <2>3. todo[<<r, "output">>] = "prompts"
    BY <1>5, <2>1, <2>2
  <2>4. todo[<<r, "handler">>] = "none"
    BY <2>3 DEF PromptsFirst
  <2>5. g # <<r, "handler">>
    BY <2>4 DEF Updates
  <2>6. ~(asks /\ <<r, "handler">> = hnd)
    BY <1>3, <2>2
  <2>7. QED
    BY <1>5, <2>1, <2>4, <2>5, <2>6
<1>10. QED
  BY <1>3, <1>5, <1>6, <1>8, <1>9

-------------------------------------------------------------------------------
(* Steps that only give a goroutine something to do. *)

LEMMA TodoStep ==
  ASSUME IInv, UNCHANGED Rest,
         run' \in [Sessions -> {"new", "live", "closing", "dead"}],
         \A s \in Sessions : Alive(s) => Alive(s)',
         todo' \in [Goroutines -> Task],
         \A g \in Goroutines :
           \/ todo'[g] = todo[g]
           \/ step[g] = "idle" /\ todo'[g] \in Tasks(g) /\ Alive(g[1])',
         PromptsFirst'
  PROVE  IInv'
<1>1. /\ UNCHANGED <<plan, state, text, step, copy, made, aged, alone, kept>>
      /\ Managed' = Managed
  BY DEF Rest, file, Managed
<1>2. TypeOK'
  <2>1. ASSUME NEW g \in Goroutines
        PROVE  /\ todo'[g] \in Tasks(g) /\ Tasks(g)' = Tasks(g)
               /\ todo'[g] # "none" => Alive(g[1])'
               /\ step'[g] # "idle" => Updates(g)'
    <3>1. Tasks(g)' = Tasks(g)
      BY <1>1 DEF Tasks
    <3>2. g[1] \in Sessions
      BY TaskOwners
    <3>3. QED
      BY <1>1, <3>1, <3>2 DEF IInv, TypeOK, Updates
  <2>2. alone' \subseteq InFlight'
    BY <1>1 DEF IInv, TypeOK, InFlight
  <2>3. QED
    BY <1>1, <2>1, <2>2 DEF IInv, TypeOK
<1>3. ClosedCopies'
  BY <1>1 DEF IInv, ClosedCopies, Closed, Known
<1>4. AloneIsAlone'
  BY <1>1 DEF IInv, AloneIsAlone
<1>5. AloneHasItsRecord'
  <2> SUFFICES ASSUME NEW g \in alone, NEW item \in Recorded(g)'
               PROVE  item \in Item /\ Says(copy[g], item)
    BY <1>1 DEF AloneHasItsRecord, Says, Known
  <2>1. g \in Goroutines /\ step[g] # "idle"
    BY DEF IInv, TypeOK, InFlight
  <2>2. todo'[g] = todo[g]
    BY <2>1
  <2>3. Recorded(g)' = Recorded(g)
    BY <1>1, <2>2 DEF Recorded, Known
  <2>4. QED
    BY <2>3 DEF IInv, AloneHasItsRecord
<1>6. KeptEverywhere'
  BY <1>1 DEF IInv, KeptEverywhere, Has, Says, Known
<1>7. QED
  BY <1>2, <1>3, <1>4, <1>5, <1>6 DEF IInv

LEMMA LaunchStep ==
  ASSUME IInv, NEW s \in Sessions, Launch(s)
  PROVE  IInv'
<1> DEFINE g == <<s, "main">>
<1>1. /\ run[s] = "new" /\ run' = [run EXCEPT ![s] = "live"]
      /\ todo' = [todo EXCEPT ![g] = "starts"]
      /\ UNCHANGED Rest
  BY DEF Launch
<1>2. g \in Goroutines /\ g[1] = s /\ "starts" \in Tasks(g)
  BY DEF Goroutines, Tasks
<1>3. run' \in [Sessions -> {"new", "live", "closing", "dead"}] /\ run'[s] = "live"
  BY <1>1 DEF IInv, TypeOK
<1>4. todo' \in [Goroutines -> Task]
  BY <1>1, <1>2 DEF IInv, TypeOK, Task
<1>5. step[g] = "idle"
  BY <1>1, <1>2 DEF IInv, TypeOK, Alive, Updates
<1>6. \A r \in Sessions : Alive(r) => Alive(r)'
  BY <1>1, <1>3 DEF IInv, TypeOK, Alive
<1>7. \A h \in Goroutines \ {g} : todo'[h] = todo[h]
  BY <1>1 DEF IInv, TypeOK
<1>8. PromptsFirst'
  <2>1. \A r \in Sessions : /\ <<r, "output">> \in Goroutines \ {g}
                            /\ <<r, "handler">> \in Goroutines \ {g}
    BY DEF Goroutines
  <2>2. QED
    BY <1>1, <1>7, <2>1 DEF IInv, PromptsFirst, Managed, Rest
<1>9. todo'[g] \in Tasks(g) /\ Alive(g[1])'
  BY <1>1, <1>2, <1>3 DEF IInv, TypeOK, Alive
<1> HIDE DEF g
<1>10. QED
  BY <1>1, <1>3, <1>4, <1>5, <1>6, <1>7, <1>8, <1>9, TodoStep

\* The other five need a living process, which they leave alive.
LEMMA WorkStep ==
  ASSUME IInv, NEW g \in Goroutines, NEW op \in Tasks(g),
         step[g] = "idle", Alive(g[1]),
         todo' = [todo EXCEPT ![g] = op], UNCHANGED Rest,
         run' \in [Sessions -> {"new", "live", "closing", "dead"}],
         \A s \in Sessions : Alive(s) => Alive(s)',
         PromptsFirst'
  PROVE  IInv'
<1>1. op \in Task /\ g[1] \in Sessions
  BY TaskOwners
<1>2. todo' \in [Goroutines -> Task] /\ todo'[g] = op
  BY <1>1 DEF IInv, TypeOK
<1>3. \A h \in Goroutines \ {g} : todo'[h] = todo[h]
  BY DEF IInv, TypeOK
<1>4. QED
  BY <1>1, <1>2, <1>3, TodoStep

\* The main goroutine, the host, and a handler at work start no output with a question.
LEMMA NoPromptStep ==
  ASSUME IInv, NEW g \in Goroutines, NEW op, todo' = [todo EXCEPT ![g] = op],
         plan' = plan,
         g[2] = "handler" /\ g[1] \notin Managed => todo[g] # "none",
         g[2] = "output" /\ g[1] \notin Managed => op # "prompts"
  PROVE  PromptsFirst'
<1> SUFFICES ASSUME NEW r \in Sessions \ Managed, todo'[<<r, "output">>] = "prompts"
             PROVE  todo'[<<r, "handler">>] = "none"
  BY DEF PromptsFirst, Managed
<1>1. <<r, "output">> \in Goroutines /\ <<r, "handler">> \in Goroutines
  BY DEF Goroutines
<1>2. g # <<r, "output">>
  <2> SUFFICES ASSUME g = <<r, "output">>
               PROVE  FALSE
    OBVIOUS
  <2>1. g[1] \notin Managed /\ g[2] = "output"
    OBVIOUS
  <2>2. todo'[g] = op
    BY DEF IInv, TypeOK
  <2>3. QED
    BY <2>1, <2>2
<1>3. todo[<<r, "output">>] = "prompts"
  BY <1>1, <1>2 DEF IInv, TypeOK
<1>4. todo[<<r, "handler">>] = "none"
  BY <1>3 DEF IInv, PromptsFirst
<1>5. g # <<r, "handler">>
  BY <1>4
<1>6. QED
  BY <1>1, <1>4, <1>5 DEF IInv, TypeOK

\* Who has nothing to do, or waits for a decision, has no update under way.
LEMMA FreeIsIdle ==
  ASSUME TypeOK, NEW g \in Goroutines, todo[g] \in {"none", "decide"}
  PROVE  step[g] = "idle"
BY DEF TypeOK, Updates

LEMMA RemainderStep ==
  ASSUME IInv, NEW s \in Sessions, Remainder(s)
  PROVE  IInv'
<1> DEFINE g == <<s, "main">>
<1>1. /\ s \in Managed /\ run[s] = "live" /\ todo[g] = "none"
      /\ todo' = [todo EXCEPT ![g] = "prints"]
      /\ UNCHANGED Rest /\ run' = run
  BY DEF Remainder
<1>2. /\ g \in Goroutines /\ g[1] = s /\ g[2] = "main" /\ "prints" \in Tasks(g)
  BY <1>1 DEF Goroutines, Tasks
<1> HIDE DEF g
<1>3. step[g] = "idle"
  BY <1>1, <1>2, FreeIsIdle DEF IInv
<1>4. PromptsFirst'
  BY <1>1, <1>2, NoPromptStep DEF Rest
<1>5. Alive(g[1]) /\ \A r \in Sessions : Alive(r) => Alive(r)'
  BY <1>1, <1>2 DEF Alive
<1>6. run' \in [Sessions -> {"new", "live", "closing", "dead"}]
  BY <1>1 DEF IInv, TypeOK
<1>7. QED
  BY <1>1, <1>2, <1>3, <1>4, <1>5, <1>6, WorkStep

LEMMA FinishStep ==
  ASSUME IInv, NEW s \in Sessions, Finish(s)
  PROVE  IInv'
<1> DEFINE g == <<s, "main">>
<1>1. /\ run[s] = "live" /\ todo[g] = "none"
      /\ run' = [run EXCEPT ![s] = "closing"]
      /\ todo' = [todo EXCEPT ![g] = "ends"]
      /\ UNCHANGED Rest
  BY DEF Finish
<1>2. /\ g \in Goroutines /\ g[1] = s /\ g[2] = "main" /\ "ends" \in Tasks(g)
  BY DEF Goroutines, Tasks
<1> HIDE DEF g
<1>3. step[g] = "idle"
  BY <1>1, <1>2, FreeIsIdle DEF IInv
<1>4. PromptsFirst'
  BY <1>1, <1>2, NoPromptStep DEF Rest
<1>5. Alive(g[1]) /\ \A r \in Sessions : Alive(r) => Alive(r)'
  BY <1>1, <1>2 DEF IInv, TypeOK, Alive
<1>6. run' \in [Sessions -> {"new", "live", "closing", "dead"}]
  BY <1>1 DEF IInv, TypeOK
<1>7. QED
  BY <1>1, <1>2, <1>3, <1>4, <1>5, <1>6, WorkStep

LEMMA SendInputStep ==
  ASSUME IInv, NEW s \in Sessions, SendInput(s)
  PROVE  IInv'
<1> DEFINE g == <<s, "host">>
<1>1. /\ run[s] = "live" /\ todo[g] = "none"
      /\ todo' = [todo EXCEPT ![g] = "replies"]
      /\ UNCHANGED Rest /\ run' = run
  BY DEF SendInput
<1>2. /\ g \in Goroutines /\ g[1] = s /\ g[2] = "host" /\ "replies" \in Tasks(g)
  BY DEF Goroutines, Tasks
<1> HIDE DEF g
<1>3. step[g] = "idle"
  BY <1>1, <1>2, FreeIsIdle DEF IInv
<1>4. PromptsFirst'
  BY <1>1, <1>2, NoPromptStep DEF Rest
<1>5. Alive(g[1]) /\ \A r \in Sessions : Alive(r) => Alive(r)'
  BY <1>1, <1>2 DEF Alive
<1>6. run' \in [Sessions -> {"new", "live", "closing", "dead"}]
  BY <1>1 DEF IInv, TypeOK
<1>7. QED
  BY <1>1, <1>2, <1>3, <1>4, <1>5, <1>6, WorkStep

LEMMA DecideStep ==
  ASSUME IInv, NEW g \in Goroutines, Decide(g)
  PROVE  IInv'
<1>1. PICK op \in {"decides", "none"} : todo' = [todo EXCEPT ![g] = op]
  BY DEF Decide
<1>2. todo[g] = "decide" /\ UNCHANGED Rest /\ run' = run
  BY DEF Decide
<1>3. op \in Tasks(g) /\ Alive(g[1])
  BY <1>2, TaskOwners DEF IInv, TypeOK, Tasks
<1>4. step[g] = "idle"
  BY <1>2, FreeIsIdle DEF IInv
<1>5. PromptsFirst'
  BY <1>1, <1>2, NoPromptStep DEF Rest
<1>6. \A r \in Sessions : Alive(r) => Alive(r)'
  BY <1>2 DEF Alive
<1>7. run' \in [Sessions -> {"new", "live", "closing", "dead"}]
  BY <1>2 DEF IInv, TypeOK
<1>8. QED
  BY <1>1, <1>2, <1>3, <1>4, <1>5, <1>6, <1>7, WorkStep

LEMMA ChunkStep ==
  ASSUME IInv, NEW s \in Sessions, Chunk(s)
  PROVE  IInv'
<1> DEFINE g == <<s, "output">>
           hnd == <<s, "handler">>
<1>1. /\ g \in Goroutines /\ g[1] = s /\ g[2] = "output"
      /\ hnd \in Goroutines /\ hnd[1] = s /\ hnd[2] = "handler" /\ g # hnd
  BY DEF Goroutines
<1>2. /\ s \notin Managed /\ Alive(s) /\ todo[g] = "none"
      /\ UNCHANGED Rest /\ run' = run
      /\ \/ todo' = [todo EXCEPT ![g] = "prints"]
         \/ todo[hnd] = "none" /\ todo' = [todo EXCEPT ![g] = "prompts"]
         \/ todo[hnd] = "none" /\ todo' = [todo EXCEPT ![hnd] = "asks"]
  BY <1>1 DEF Chunk, Free
<1> HIDE DEF g, hnd
<1>3. step[g] = "idle" /\ (todo[hnd] = "none" => step[hnd] = "idle")
  BY <1>1, <1>2, FreeIsIdle DEF IInv
<1>4. "prints" \in Tasks(g) /\ "prompts" \in Tasks(g) /\ "asks" \in Tasks(hnd)
  BY <1>1, <1>2 DEF Tasks
<1>5. \A r \in Sessions : Alive(r) => Alive(r)'
  BY <1>2 DEF Alive
<1>6. run' \in [Sessions -> {"new", "live", "closing", "dead"}]
  BY <1>2 DEF IInv, TypeOK
<1>7. PromptsFirst'
  <2> SUFFICES ASSUME NEW r \in Sessions \ Managed, todo'[<<r, "output">>] = "prompts"
               PROVE  todo'[<<r, "handler">>] = "none"
    BY <1>2 DEF PromptsFirst, Managed, Rest
  <2>1. /\ <<r, "output">> \in Goroutines /\ <<r, "handler">> \in Goroutines
        /\ <<r, "output">> # hnd /\ <<r, "handler">> # g
        /\ <<r, "output">> = g <=> <<r, "handler">> = hnd
    BY <1>1 DEF Goroutines, g, hnd
  <2>2. todo \in [Goroutines -> Task]
    BY DEF IInv, TypeOK
  <2>3. todo[<<r, "output">>] = "prompts" => todo[<<r, "handler">>] = "none"
    BY DEF IInv, PromptsFirst
  <2>4. QED
    BY <1>1, <1>2, <2>1, <2>2, <2>3
<1>8. QED
  BY <1>1, <1>2, <1>3, <1>4, <1>5, <1>6, <1>7, WorkStep

-------------------------------------------------------------------------------
(* The end of a process, and time. *)

LEMMA DiesStep ==
  ASSUME IInv, NEW s \in Sessions, Dies(s)
  PROVE  IInv'
<1> DEFINE Of(g) == g[1] = s
<1>1. /\ TypeOK
      /\ run' = [run EXCEPT ![s] = "dead"]
      /\ todo' = [g \in Goroutines |-> IF g[1] = s THEN "none" ELSE todo[g]]
      /\ step' = [g \in Goroutines |-> IF g[1] = s THEN "idle" ELSE step[g]]
      /\ copy' = [g \in Goroutines |-> IF g[1] = s THEN Nothing ELSE copy[g]]
      /\ alone' = {g \in alone : g[1] # s}
      /\ UNCHANGED <<plan, state, text, made, aged, kept>>
      /\ Managed' = Managed
  BY DEF IInv, Dies, file, Managed
<1>2. TypeOK'
  <2>1. /\ run' \in [Sessions -> {"new", "live", "closing", "dead"}]
        /\ todo' \in [Goroutines -> Task]
        /\ step' \in [Goroutines -> {"idle", "loaded", "saving"}]
        /\ copy' \in [Goroutines -> Text]
    BY <1>1, NothingForm DEF TypeOK, Task
  <2>2. ASSUME NEW g \in Goroutines
        PROVE  /\ todo'[g] \in Tasks(g)' /\ (todo'[g] # "none" => Alive(g[1])')
               /\ step'[g] # "idle" => Updates(g)'
    <3>1. Tasks(g)' = Tasks(g) /\ "none" \in Tasks(g) /\ g[1] \in Sessions
      BY <1>1, TaskOwners DEF Tasks
    <3>2. CASE g[1] = s
      BY <1>1, <3>1, <3>2
    <3>3. CASE g[1] # s
      BY <1>1, <3>1, <3>3 DEF TypeOK, Alive, Updates
    <3>4. QED
      BY <3>2, <3>3
  <2>3. alone' \subseteq InFlight'
    BY <1>1 DEF TypeOK, InFlight
  <2>4. QED
    BY <1>1, <2>1, <2>2, <2>3 DEF TypeOK
<1>3. \A g \in Goroutines :
        step'[g] # "idle" =>
          /\ g[1] # s /\ step[g] # "idle" /\ step'[g] = step[g]
          /\ copy'[g] = copy[g] /\ todo'[g] = todo[g]
  BY <1>1
<1>4. ClosedCopies'
  BY <1>1, <1>3 DEF IInv, ClosedCopies, Closed, Known
<1>5. PromptsFirst'
  <2>1. \A r \in Sessions : <<r, "output">> \in Goroutines /\ <<r, "handler">> \in Goroutines
    BY DEF Goroutines
  <2>2. \A r \in Sessions : <<r, "output">>[1] = r /\ <<r, "handler">>[1] = r
    OBVIOUS
  <2>3. QED
    BY <1>1, <2>1, <2>2 DEF IInv, PromptsFirst
<1>6. AloneIsAlone'
  BY <1>1, <1>3 DEF IInv, AloneIsAlone
<1>7. AloneHasItsRecord'
  <2> SUFFICES ASSUME NEW g \in alone', NEW item \in Recorded(g)'
               PROVE  item \in Item /\ Says(copy'[g], item)
    BY DEF AloneHasItsRecord, Says, Known
  <2>1. g \in alone /\ g \in Goroutines /\ step'[g] # "idle"
    BY <1>1, <1>2 DEF TypeOK, InFlight
  <2>2. Recorded(g)' = Recorded(g) /\ copy'[g] = copy[g]
    BY <1>1, <1>3, <2>1 DEF Recorded, Known
  <2>3. QED
    BY <2>1, <2>2 DEF IInv, AloneHasItsRecord
<1>8. KeptEverywhere'
  BY <1>1, <1>3 DEF IInv, KeptEverywhere, Has, Says, Known
<1>9. QED
  BY <1>2, <1>4, <1>5, <1>6, <1>7, <1>8 DEF IInv

LEMMA AgesStep ==
  ASSUME IInv, NEW s \in Sessions, Ages(s)
  PROVE  IInv'
<1>1. /\ aged' = aged \cup {s}
      /\ UNCHANGED <<plan, state, text, run, todo, step, copy, made, alone, kept>>
  BY DEF Ages, file
<1>2. TypeOK'
  BY <1>1 DEF IInv, TypeOK, Tasks, Managed, Alive, Updates, InFlight
<1>3. (ClosedCopies /\ PromptsFirst /\ AloneIsAlone)'
  BY <1>1 DEF IInv, ClosedCopies, Closed, Known, PromptsFirst, Managed, AloneIsAlone
<1>4. AloneHasItsRecord'
  <2>1. \A g \in alone : Recorded(g)' = Recorded(g)
    BY <1>1 DEF Recorded, Known
  <2>2. QED
    BY <1>1, <2>1 DEF IInv, AloneHasItsRecord, Says, Known
<1>5. KeptEverywhere'
  BY <1>1 DEF IInv, KeptEverywhere, Has, Says, Known
<1>6. QED
  BY <1>2, <1>3, <1>4, <1>5 DEF IInv

-------------------------------------------------------------------------------
(* The steps of an update. *)

\* An update that finds the file unreadable goes on as if it had been done, and one
\* that reads it has the text and its record in its copy.
LEMMA LoadFails ==
  ASSUME IInv, NEW g \in Goroutines, Updates(g), step[g] = "idle",
         state # "whole", Moves(g), Numbers(g[1], todo[g]),
         UNCHANGED <<plan, state, text, run, aged, alone, kept>>
  PROVE  IInv'
<1>0. /\ TypeOK /\ ClosedCopies /\ PromptsFirst
      /\ AloneIsAlone /\ AloneHasItsRecord /\ KeptEverywhere
  BY DEF IInv
<1>1. /\ todo' \in [Goroutines -> Task]
      /\ step' \in [Goroutines -> {"idle", "loaded", "saving"}]
      /\ copy' \in [Goroutines -> Text]
      /\ step'[g] = "idle"
      /\ \A h \in Goroutines \ {g} : step'[h] = step[h] /\ copy'[h] = copy[h]
      /\ \A h \in Goroutines \ {g} : todo'[h] = todo[h] \/ todo[h] = "none"
      /\ \A h \in Goroutines :
           todo'[h] \in Tasks(h) /\ (todo'[h] # "none" => Alive(h[1]))
      /\ PromptsFirst'
  BY <1>0, MovesForm
<1>2. /\ made' \in [Sessions -> [Kinds -> Nat]]
      /\ \A r \in Sessions \ {g[1]} : made'[r] = made[r]
      /\ made'[g[1]]["output"] = IF todo[g] \in {"prints", "prompts"}
            THEN made[g[1]]["output"] + 1 ELSE made[g[1]]["output"]
      /\ made'[g[1]]["decision"] = IF todo[g] = "decides"
            THEN made[g[1]]["decision"] + 1 ELSE made[g[1]]["decision"]
      /\ made'[g[1]]["reply"] = IF todo[g] = "replies"
            THEN made[g[1]]["reply"] + 1 ELSE made[g[1]]["reply"]
  <2>1. g[1] \in Sessions /\ todo[g] \in Task
    BY <1>0, TaskOwners DEF TypeOK
  <2>2. QED
    BY <1>0, <2>1, NumbersForm
<1>3. \A h \in Goroutines : step'[h] # "idle" =>
        h # g /\ step[h] # "idle" /\ step'[h] = step[h] /\ copy'[h] = copy[h]
          /\ todo'[h] = todo[h]
  BY <1>0, <1>1 DEF TypeOK, Updates
<1>4. TypeOK'
  <2>1. \A h \in Goroutines : Tasks(h)' = Tasks(h) /\ Alive(h[1])' = Alive(h[1])
    BY DEF Tasks, Managed, Alive
  <2>2. \A h \in Goroutines : step'[h] # "idle" => Updates(h)'
    BY <1>0, <1>3 DEF TypeOK, Updates
  <2>3. alone' \subseteq InFlight'
    BY <1>0, <1>1 DEF TypeOK, InFlight
  <2>4. QED
    BY <1>0, <1>1, <1>2, <2>1, <2>2, <2>3 DEF TypeOK
<1>5. ClosedCopies' /\ AloneIsAlone'
  BY <1>0, <1>3 DEF ClosedCopies, Closed, Known, AloneIsAlone
<1>6. AloneHasItsRecord'
  <2> SUFFICES ASSUME NEW h \in alone, NEW item \in Recorded(h)'
               PROVE  item \in Item /\ Says(copy'[h], item)
    BY DEF AloneHasItsRecord, Says, Known
  <2>1. h \in Goroutines /\ step'[h] # "idle" /\ h[1] \in Sessions
    BY <1>4, TaskOwners DEF TypeOK, InFlight
  <2>2. h # g /\ copy'[h] = copy[h] /\ todo'[h] = todo[h]
    BY <1>3, <2>1
  <2>3. CASE h[1] # g[1]
    <3>1. made'[h[1]] = made[h[1]]
      BY <1>2, <2>1, <2>3
    <3>2. Recorded(h)' = Recorded(h)
      BY <2>2, <3>1 DEF Recorded, Known
    <3>3. QED
      BY <1>0, <2>2, <3>2 DEF AloneHasItsRecord
  <2>4. CASE h[1] = g[1]
    <3>1. /\ todo[h] = "decides" => made'[h[1]].decision = made[h[1]].decision
          /\ todo[h] = "replies" => made'[h[1]].reply = made[h[1]].reply
          /\ todo[h] \in {"prints", "prompts"} => made'[h[1]].output = made[h[1]].output
      BY <1>0, <1>2, <2>1, <2>2, <2>4, OwnLines
    <3>2. todo[h] \in Task \ {"none", "decide"}
      BY <1>0, <1>3, <2>1 DEF TypeOK, Updates
    <3>3. Recorded(h)' = Recorded(h)
      BY <2>2, <3>1, <3>2 DEF Recorded, Known, Task
    <3>4. QED
      BY <1>0, <2>2, <3>3 DEF AloneHasItsRecord
  <2>5. QED
    BY <2>3, <2>4
<1>7. KeptEverywhere'
  <2> SUFFICES ASSUME NEW item \in kept, item.session \notin aged,
                      NEW h \in Goroutines, step'[h] # "idle"
               PROVE  Has(copy'[h], item)
    BY <1>0 DEF KeptEverywhere, Has, Says, Known
  <2>1. QED
    BY <1>0, <1>3 DEF KeptEverywhere
<1>8. QED
  BY <1>1, <1>4, <1>5, <1>6, <1>7 DEF IInv

LEMMA LoadReads ==
  ASSUME IInv, NEW g \in Goroutines, Updates(g), step[g] = "idle", state = "whole",
         copy' = [copy EXCEPT ![g] = After(text, g[1], todo[g])],
         step' = [step EXCEPT ![g] = "loaded"],
         alone' = IF InFlight = {} THEN {g} ELSE {},
         Numbers(g[1], todo[g]),
         UNCHANGED <<plan, state, text, run, todo, aged, kept>>
  PROVE  IInv'
<1>0. /\ TypeOK /\ ClosedCopies /\ PromptsFirst
      /\ AloneIsAlone /\ AloneHasItsRecord /\ KeptEverywhere
  BY DEF IInv
<1> DEFINE s == g[1]
           op == todo[g]
           t == After(text, s, op)
<1>1. s \in Sessions /\ op \in Task \ {"none", "decide"} /\ text \in Text
  BY <1>0, TaskOwners DEF TypeOK, Updates
<1>2. /\ t \in Text /\ Known(text) \subseteq Known(t) /\ text.lines \subseteq t.lines
      /\ \A r \in Sessions : text.approval[r] # "none" => t.approval[r] # "none"
      /\ op \in {"asks", "delivers"} => t.approval[s] # "none"
      /\ op = "decides" =>
           [session |-> s, kind |-> "decision", n |-> made[s]["decision"] + 1] \in t.lines
      /\ op = "replies" =>
           [session |-> s, kind |-> "reply", n |-> made[s]["reply"] + 1] \in t.lines
      /\ op \in {"prints", "prompts"} =>
           [session |-> s, kind |-> "output", n |-> made[s]["output"] + 1] \in t.lines
  BY <1>0, <1>1, AfterForm
<1>3. /\ made' \in [Sessions -> [Kinds -> Nat]]
      /\ op \in {"prints", "prompts"} => made'[s]["output"] = made[s]["output"] + 1
      /\ op = "decides" => made'[s]["decision"] = made[s]["decision"] + 1
      /\ op = "replies" => made'[s]["reply"] = made[s]["reply"] + 1
  BY <1>0, <1>1, NumbersForm
<1> HIDE DEF t, s, op
<1>4. /\ copy' = [copy EXCEPT ![g] = t] /\ copy'[g] = t
      /\ copy' \in [Goroutines -> Text]
      /\ step'[g] = "loaded"
      /\ step' \in [Goroutines -> {"idle", "loaded", "saving"}]
      /\ \A h \in Goroutines \ {g} : copy'[h] = copy[h] /\ step'[h] = step[h]
  <2>1. copy' = [copy EXCEPT ![g] = t]
    BY DEF t, s, op
  <2>2. QED
    BY <1>0, <1>2, <2>1 DEF TypeOK
<1>5. TypeOK'
  <2>1. \A h \in Goroutines : Tasks(h)' = Tasks(h) /\ Alive(h[1])' = Alive(h[1])
    BY DEF Tasks, Managed, Alive
  <2>2. \A h \in Goroutines : step'[h] # "idle" => Updates(h)'
    BY <1>0, <1>4 DEF TypeOK, Updates
  <2>3. alone' \subseteq InFlight'
    BY <1>4 DEF InFlight
  <2>4. QED
    BY <1>0, <1>3, <1>4, <2>1, <2>2, <2>3 DEF TypeOK
<1>6. ClosedCopies'
  BY <1>0, <1>4 DEF ClosedCopies, Closed, Known
<1>7. PromptsFirst'
  BY <1>0 DEF PromptsFirst, Managed
<1>8. AloneIsAlone'
  BY <1>4 DEF AloneIsAlone, InFlight
<1>9. AloneHasItsRecord'
  <2> SUFFICES ASSUME NEW item \in Recorded(g)'
               PROVE  item \in Item /\ Says(t, item)
    BY <1>4 DEF AloneHasItsRecord, Says, Known
  <2>1. s \in Known(t)
    BY <1>4 DEF Recorded, Known, s
  <2>2. CASE op \in {"starts", "waits", "resumes", "ends"}
    <3>1. item = [session |-> s, kind |-> "session", n |-> 0]
      BY <1>4, <2>1, <2>2 DEF Recorded, Known, s, op
    <3>2. QED
      BY <1>1, <2>1, <3>1 DEF Item, Says
  <2>3. CASE op \in {"asks", "delivers"}
    <3>1. item = [session |-> s, kind |-> "approval", n |-> 0]
      BY <1>4, <2>1, <2>3 DEF Recorded, Known, s, op
    <3>2. QED
      BY <1>1, <1>2, <2>3, <3>1 DEF Item, Says
  <2>4. CASE op = "decides"
    <3>1. item = [session |-> s, kind |-> "decision", n |-> made'[s]["decision"]]
      BY <1>4, <2>1, <2>4 DEF Recorded, Known, s, op
    <3>2. made'[s]["decision"] \in Nat /\ "decision" \in Kinds
      BY <1>1, <1>3 DEF Kinds
    <3>3. QED
      BY <1>1, <1>2, <1>3, <2>4, <3>1, <3>2 DEF Item, Says
  <2>5. CASE op = "replies"
    <3>1. item = [session |-> s, kind |-> "reply", n |-> made'[s]["reply"]]
      BY <1>4, <2>1, <2>5 DEF Recorded, Known, s, op
    <3>2. made'[s]["reply"] \in Nat /\ "reply" \in Kinds
      BY <1>1, <1>3 DEF Kinds
    <3>3. QED
      BY <1>1, <1>2, <1>3, <2>5, <3>1, <3>2 DEF Item, Says
  <2>6. CASE op \in {"prints", "prompts"}
    <3>1. item = [session |-> s, kind |-> "output", n |-> made'[s]["output"]]
      BY <1>4, <2>1, <2>6 DEF Recorded, Known, s, op
    <3>2. made'[s]["output"] \in Nat /\ "output" \in Kinds
      BY <1>1, <1>3 DEF Kinds
    <3>3. QED
      BY <1>1, <1>2, <1>3, <2>6, <3>1, <3>2 DEF Item, Says
  <2>7. QED
    BY <1>1, <2>2, <2>3, <2>4, <2>5, <2>6 DEF Task
<1>10. KeptEverywhere'
  <2> SUFFICES ASSUME NEW item \in kept, item.session \notin aged,
                      NEW h \in Goroutines, step'[h] # "idle"
               PROVE  Has(copy'[h], item)
    BY <1>0 DEF KeptEverywhere, Has, Says, Known
  <2>1. item \in Item /\ Has(text, item)
    BY <1>0 DEF KeptEverywhere
  <2>2. CASE h = g
    <3>1. Has(t, item)
      BY <1>2, <2>1, SaysMore
    <3>2. QED
      BY <1>4, <2>2, <3>1
  <2>3. CASE h # g
    BY <1>0, <1>4, <2>3 DEF KeptEverywhere
  <2>4. QED
    BY <2>2, <2>3
<1>11. QED
  BY <1>5, <1>6, <1>7, <1>8, <1>9, <1>10 DEF IInv

LEMMA LoadStep ==
  ASSUME IInv, NEW g \in Goroutines, Load(g)
  PROVE  IInv'
<1>1. /\ Updates(g) /\ step[g] = "idle" /\ Numbers(g[1], todo[g])
      /\ UNCHANGED <<plan, state, text, run, aged, kept>>
  BY DEF Load, file
<1>2. CASE state = "whole"
  BY <1>1, <1>2, LoadReads DEF Load
<1>3. CASE state # "whole"
  BY <1>1, <1>3, LoadFails DEF Load
<1>4. QED
  BY <1>2, <1>3

\* What is saved is pruned, and has what was said of sessions that have not aged.
LEMMA SaveStep ==
  ASSUME IInv, NEW g \in Goroutines, Save(g)
  PROVE  IInv'
<1>0. /\ TypeOK /\ ClosedCopies /\ PromptsFirst
      /\ AloneIsAlone /\ AloneHasItsRecord /\ KeptEverywhere
  BY DEF IInv
<1>1. PICK strict \in BOOLEAN : copy' = [copy EXCEPT ![g] = Prune(copy[g], strict)]
  BY DEF Save
<1> DEFINE t == Prune(copy[g], strict)
<1>2. copy[g] \in Text
  BY <1>0 DEF TypeOK
<1>3. /\ t \in Text /\ Closed(t)
      /\ \A item \in Item :
           /\ Says(copy[g], item) /\ item.session \in Known(t) => Says(t, item)
           /\ Has(copy[g], item) /\ item.session \notin aged => Has(t, item)
  BY <1>2, PruneForm
<1>4. copy' = [copy EXCEPT ![g] = t]
  BY <1>1
<1> HIDE DEF t
<1>5. /\ step[g] = "loaded" /\ step'[g] = "saving" /\ copy'[g] = t
      /\ step' \in [Goroutines -> {"idle", "loaded", "saving"}]
      /\ copy' \in [Goroutines -> Text]
      /\ \A h \in Goroutines \ {g} : copy'[h] = copy[h] /\ step'[h] = step[h]
      /\ state' = "empty" /\ text' = Nothing
      /\ UNCHANGED <<plan, run, todo, made, aged, alone, kept>>
  BY <1>0, <1>3, <1>4 DEF TypeOK, Save
<1>6. TypeOK'
  <2>1. \A h \in Goroutines : Tasks(h)' = Tasks(h) /\ Alive(h[1])' = Alive(h[1])
    BY <1>5 DEF Tasks, Managed, Alive
  <2>2. \A h \in Goroutines : step'[h] # "idle" => Updates(h)'
    BY <1>0, <1>5 DEF TypeOK, Updates
  <2>3. alone' \subseteq InFlight'
    BY <1>0, <1>5 DEF TypeOK, InFlight
  <2>4. QED
    BY <1>0, <1>5, <2>1, <2>2, <2>3, NothingForm DEF TypeOK
<1>7. ClosedCopies'
  <2>1. \A h \in Goroutines : step'[h] = "saving" => Closed(copy'[h])
    BY <1>0, <1>3, <1>5 DEF ClosedCopies
  <2>2. QED
    BY <1>5, <2>1 DEF ClosedCopies, Closed, Known
<1>8. (PromptsFirst /\ AloneIsAlone)'
  BY <1>0, <1>5 DEF PromptsFirst, Managed, AloneIsAlone
<1>9. AloneHasItsRecord'
  <2> SUFFICES ASSUME NEW h \in alone, NEW item \in Recorded(h)'
               PROVE  item \in Item /\ Says(copy'[h], item)
    BY <1>5 DEF AloneHasItsRecord, Says, Known
  <2>1. h \in Goroutines
    BY <1>0 DEF TypeOK, InFlight
  <2>2. CASE h # g
    <3>1. Recorded(h)' = Recorded(h) /\ copy'[h] = copy[h]
      BY <1>5, <2>1, <2>2 DEF Recorded, Known
    <3>2. QED
      BY <1>0, <3>1 DEF AloneHasItsRecord
  <2>3. CASE h = g
    <3>1. g[1] \in Known(t) /\ item.session = g[1]
      BY <1>5, <2>3 DEF Recorded, Known
    <3>2. Known(t) \subseteq Known(copy[g])
      BY <1>4 DEF t, Prune, Known
    <3>3. Recorded(g)' = Recorded(g)
      BY <1>5, <3>1, <3>2 DEF Recorded, Known
    <3>4. item \in Item /\ Says(copy[g], item)
      BY <1>0, <2>3, <3>3 DEF AloneHasItsRecord
    <3>5. QED
      BY <1>3, <1>5, <2>3, <3>1, <3>4
  <2>4. QED
    BY <2>2, <2>3
<1>10. KeptEverywhere'
  <2> SUFFICES ASSUME NEW item \in kept, item.session \notin aged,
                      NEW h \in Goroutines, step'[h] # "idle"
               PROVE  Has(copy'[h], item)
    BY <1>0, <1>5 DEF KeptEverywhere, Has, Says, Known
  <2>1. item \in Item /\ (step[h] # "idle" => Has(copy[h], item))
    BY <1>0 DEF KeptEverywhere
  <2>2. CASE h = g
    BY <1>3, <1>5, <2>1, <2>2
  <2>3. CASE h # g
    BY <1>5, <2>1, <2>3
  <2>4. QED
    BY <2>2, <2>3
<1>11. QED
  BY <1>6, <1>7, <1>8, <1>9, <1>10 DEF IInv

\* Who writes alone is the last with a copy, so its record is in the file and in no
\* copy is it missing.
LEMMA WriteStep ==
  ASSUME IInv, NEW g \in Goroutines, Write(g)
  PROVE  IInv'
<1>0. /\ TypeOK /\ ClosedCopies /\ PromptsFirst
      /\ AloneIsAlone /\ AloneHasItsRecord /\ KeptEverywhere
  BY DEF IInv
<1>1. /\ step[g] = "saving"
      /\ \/ state' = "whole" /\ text' = copy[g]
         \/ state # "empty" /\ state' = "mixed" /\ text' = Nothing
      /\ kept' = IF g \in alone THEN kept \cup Recorded(g) ELSE kept
      /\ alone' = alone \ {g}
      /\ Moves(g) /\ Updates(g)
      /\ UNCHANGED <<plan, run, made, aged>>
  BY <1>0 DEF Write, TypeOK
<1>2. /\ todo' \in [Goroutines -> Task]
      /\ step' \in [Goroutines -> {"idle", "loaded", "saving"}]
      /\ copy' \in [Goroutines -> Text]
      /\ step'[g] = "idle"
      /\ \A h \in Goroutines \ {g} : step'[h] = step[h] /\ copy'[h] = copy[h]
      /\ \A h \in Goroutines \ {g} : todo'[h] = todo[h] \/ todo[h] = "none"
      /\ \A h \in Goroutines :
           todo'[h] \in Tasks(h) /\ (todo'[h] # "none" => Alive(h[1]))
      /\ PromptsFirst'
  BY <1>0, <1>1, MovesForm
<1>3. \A h \in Goroutines : step'[h] # "idle" =>
        h # g /\ step[h] # "idle" /\ step'[h] = step[h] /\ copy'[h] = copy[h]
          /\ todo'[h] = todo[h]
  BY <1>0, <1>2 DEF TypeOK, Updates
<1>4. TypeOK'
  <2>1. \A h \in Goroutines : Tasks(h)' = Tasks(h) /\ Alive(h[1])' = Alive(h[1])
    BY <1>1 DEF Tasks, Managed, Alive
  <2>2. \A h \in Goroutines : step'[h] # "idle" => Updates(h)'
    BY <1>0, <1>3 DEF TypeOK, Updates
  <2>3. alone' \subseteq InFlight'
    BY <1>0, <1>1, <1>2 DEF TypeOK, InFlight
  <2>4. state' \in {"whole", "empty", "mixed"} /\ text' \in Text
    BY <1>0, <1>1, NothingForm DEF TypeOK
  <2>5. QED
    BY <1>0, <1>1, <1>2, <2>1, <2>2, <2>3, <2>4 DEF TypeOK
<1>5. ClosedCopies'
  <2>1. \A h \in Goroutines : step'[h] = "saving" => Closed(copy'[h])
    BY <1>0, <1>3 DEF ClosedCopies
  <2>2. state' = "whole" => Closed(text')
    BY <1>0, <1>1 DEF ClosedCopies
  <2>3. QED
    BY <2>1, <2>2 DEF ClosedCopies, Closed, Known
<1>6. AloneIsAlone'
  BY <1>0, <1>1, <1>3 DEF AloneIsAlone
<1>7. AloneHasItsRecord'
  <2> SUFFICES ASSUME NEW h \in alone', NEW item \in Recorded(h)'
               PROVE  item \in Item /\ Says(copy'[h], item)
    BY DEF AloneHasItsRecord, Says, Known
  <2>1. h \in alone /\ h \in Goroutines /\ step'[h] # "idle"
    BY <1>1, <1>4 DEF TypeOK, InFlight
  <2>2. Recorded(h)' = Recorded(h) /\ copy'[h] = copy[h]
    BY <1>1, <1>3, <2>1 DEF Recorded, Known
  <2>3. QED
    BY <1>0, <2>1, <2>2 DEF AloneHasItsRecord
<1>8. KeptEverywhere'
  <2>1. ASSUME NEW item \in kept, item.session \notin aged
        PROVE  /\ item \in Item /\ Has(copy[g], item)
               /\ \A h \in Goroutines : step'[h] # "idle" => Has(copy'[h], item)
    BY <1>0, <1>1, <1>3, <2>1 DEF KeptEverywhere
  <2>2. ASSUME g \in alone, NEW item \in Recorded(g)
        PROVE  /\ item \in Item /\ Has(copy[g], item)
               /\ \A h \in Goroutines : step'[h] = "idle"
    <3>1. item \in Item /\ Says(copy[g], item)
      BY <1>0, <2>2 DEF AloneHasItsRecord
    <3>2. item.session \in Known(copy[g])
      BY <2>2 DEF Recorded
    <3>3. \A h \in Goroutines : step'[h] = "idle"
      BY <1>0, <1>2, <2>2 DEF AloneIsAlone
    <3>4. QED
      BY <3>1, <3>2, <3>3 DEF Has
  <2>3. ASSUME NEW item \in kept'
        PROVE  /\ item \in Item
               /\ item.session \notin aged =>
                    /\ state' = "whole" => Has(text', item)
                    /\ \A h \in Goroutines : step'[h] # "idle" => Has(copy'[h], item)
    <3>1. CASE item \in kept
      <4>1. item \in Item
        BY <1>0, <3>1 DEF KeptEverywhere
      <4>2. QED
        BY <1>1, <2>1, <3>1, <4>1
    <3>2. CASE g \in alone /\ item \in Recorded(g)
      BY <1>1, <2>2, <3>2
    <3>3. QED
      BY <1>1, <2>3, <3>1, <3>2
  <2>4. QED
    BY <1>1, <2>3 DEF KeptEverywhere, Has, Says, Known
<1>9. QED
  BY <1>2, <1>4, <1>5, <1>6, <1>7, <1>8 DEF IInv

-------------------------------------------------------------------------------
(* The invariant and what follows from it. *)

LEMMA IInvInitially == Init => IInv
<1> SUFFICES ASSUME Init
             PROVE  IInv
  OBVIOUS
<1>1. TypeOK
  <2>1. made \in [Sessions -> [Kinds -> Nat]]
    BY DEF Init
  <2>2. \A g \in Goroutines : "none" \in Tasks(g)
    BY DEF Tasks
  <2>3. QED
    BY <2>1, <2>2, NothingForm DEF Init, TypeOK, Task, InFlight
<1>2. ClosedCopies
  BY NothingForm DEF Init, ClosedCopies
<1>3. PromptsFirst
  BY DEF Init, PromptsFirst, Goroutines
<1>4. AloneIsAlone /\ AloneHasItsRecord /\ KeptEverywhere
  BY DEF Init, AloneIsAlone, AloneHasItsRecord, KeptEverywhere
<1>5. QED
  BY <1>1, <1>2, <1>3, <1>4 DEF IInv

LEMMA IInvPreserved == IInv /\ [Next]_vars => IInv'
<1> SUFFICES ASSUME IInv, [Next]_vars
             PROVE  IInv'
  OBVIOUS
<1>1. ASSUME NEW s \in Sessions,
             \/ Launch(s) \/ Chunk(s) \/ Remainder(s) \/ Finish(s) \/ Dies(s)
             \/ SendInput(s) \/ Ages(s)
      PROVE  IInv'
  BY <1>1, LaunchStep, ChunkStep, RemainderStep, FinishStep, DiesStep, SendInputStep, AgesStep
<1>2. ASSUME NEW g \in Goroutines, Decide(g) \/ Load(g) \/ Save(g) \/ Write(g)
      PROVE  IInv'
  BY <1>2, DecideStep, LoadStep, SaveStep, WriteStep
<1>3. CASE UNCHANGED vars
  <2>1. UNCHANGED <<plan, state, text, run, todo, step, copy, made, aged, alone, kept>>
    BY <1>3 DEF vars, file
  <2>2. TypeOK'
    BY <2>1 DEF IInv, TypeOK, Tasks, Managed, Alive, Updates, InFlight
  <2>3. (ClosedCopies /\ PromptsFirst /\ AloneIsAlone)'
    BY <2>1 DEF IInv, ClosedCopies, Closed, Known, PromptsFirst, Managed, AloneIsAlone
  <2>4. AloneHasItsRecord'
    <3>1. \A g \in alone : Recorded(g)' = Recorded(g)
      BY <2>1 DEF Recorded, Known
    <3>2. QED
      BY <2>1, <3>1 DEF IInv, AloneHasItsRecord, Says, Known
  <2>5. KeptEverywhere'
    BY <2>1 DEF IInv, KeptEverywhere, Has, Says, Known
  <2>6. QED
    BY <2>2, <2>3, <2>4, <2>5 DEF IInv
<1>4. QED
  BY <1>1, <1>2, <1>3 DEF Next

\* The inductive invariant holds in every state.
THEOREM Invariance == Spec => []IInv
<1>1. QED
  BY IInvInitially, IInvPreserved, PTL DEF Spec

\* The state keeps its types, and every goroutine does its own kind of work.
THEOREM TypeCorrect == Spec => []TypeOK
<1>1. IInv => TypeOK
  BY DEF IInv
<1>2. QED
  BY <1>1, Invariance, PTL

\* A readable history lists the session of every record it has.
THEOREM HistoryIsClosed == Spec => []HistoryClosed
<1>1. IInv => HistoryClosed
  BY DEF IInv, ClosedCopies, Closed, HistoryClosed
<1>2. QED
  BY <1>1, Invariance, PTL

\* What an undisturbed update wrote stays until its session is old.
THEOREM UndisturbedStays == Spec => []UndisturbedIsKept
<1>1. IInv => UndisturbedIsKept
  BY DEF IInv, KeptEverywhere, Has, UndisturbedIsKept
<1>2. QED
  BY <1>1, Invariance, PTL
================================================================================
