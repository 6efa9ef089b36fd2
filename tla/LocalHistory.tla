------------------------------ MODULE LocalHistory ------------------------------
(***************************************************************************)
(* The local history file (src/agent/cmd/agent/local_history.go and its    *)
(* copy in src/agent/cmd/gp): one JSON file that every gp and agent run of *)
(* the user reads, changes and rewrites, with no lock.  A run is a session *)
(* with up to four goroutines that do so: the main one, the reader of the  *)
(* command's output, the handler of an approval and the host that takes    *)
(* replies.  An update reads the whole file (Load), prunes its copy and    *)
(* truncates the file (Save) and writes the copy into it (Write); between  *)
(* those steps the others run, a process may die, and what was truncated   *)
(* reads as broken.  The tray and the desktop only read the file.          *)
(*                                                                         *)
(* A session asks the same question each time, so it has one approval.     *)
(* Texts, times and summaries are left out, time is one retention period, *)
(* every host finds a port, and "ended" is completed or failed.            *)
(***************************************************************************)
EXTENDS Integers

CONSTANTS
  Sessions,  \* runs of gp, of agent run in a terminal, and of agent run --local-only
  Plans      \* for each session: whether it is one of the last, where one goroutine
             \* does it all, and bounds on its output records (200 in the code), on
             \* the questions that get an answer and on the replies it takes

Plan == [managed : BOOLEAN, output : Nat, decision : Nat, reply : Nat]

ASSUME PlansAssumption == Plans \subseteq [Sessions -> Plan]

VARIABLES
  plan,   \* the plan, chosen at the start
  state,  \* of the file: "whole", or "empty" (truncated), or "mixed" by two writers
  text,   \* what the file says when it is whole
  run,    \* each session's process: "new", "live", "closing", "dead"
  todo,   \* each goroutine's next update of the file, or "decide", or "none"
  step,   \* how far it is with it: "idle", "loaded", "saving"
  copy,   \* its copy of the text
  made,   \* the numbers of outputs, decisions and replies of each session
  aged,   \* the sessions that ended a retention period ago
  alone,  \* (history) goroutines whose update has overlapped no other so far
  kept    \* (history) records some update wrote alone

file == <<state, text>>
vars == <<plan, file, run, todo, step, copy, made, aged, alone, kept>>

Goroutines == Sessions \X {"main", "output", "handler", "host"}
Managed == {s \in Sessions : plan[s].managed}
Kinds == {"output", "decision", "reply"}
Line == [session : Sessions, kind : Kinds, n : Nat \ {0}]
Open == {"running", "waiting_approval"}

Text == [ status   : [Sessions -> Open \cup {"ended", "none"}],    \* "none": no record
          addr     : SUBSET Sessions,                              \* records with an address
          approval : [Sessions -> {"waiting_decision", "delivered", "none"}],
          lines    : SUBSET Line ]
Nothing == [ status   |-> [s \in Sessions |-> "none"], addr |-> {},
             approval |-> [s \in Sessions |-> "none"], lines |-> {} ]

\* A missing file reads as an empty history.
Init ==
  /\ plan \in Plans
  /\ state = "whole" /\ text = Nothing
  /\ run = [s \in Sessions |-> "new"]
  /\ todo = [g \in Goroutines |-> "none"]
  /\ step = [g \in Goroutines |-> "idle"]
  /\ copy = [g \in Goroutines |-> Nothing]
  /\ made = [s \in Sessions |-> [k \in Kinds |-> 0]]
  /\ aged = {}
  /\ alone = {} /\ kept = {}

-------------------------------------------------------------------------------
(* What an update does to the text. *)

Known(t) == {s \in Sessions : t.status[s] # "none"}

\* An update with a status replaces the address too, by none if it has none.
WithStatus(t, s, status, addr) ==
  [t EXCEPT !.status[s] = status, !.addr = IF addr THEN @ \cup {s} ELSE @ \ {s}]

WithApproval(t, s, status) == [t EXCEPT !.approval[s] = status]

WithLine(t, s, kind) ==
  [t EXCEPT !.lines = @ \cup {[session |-> s, kind |-> kind, n |-> made[s][kind] + 1]}]

\* Only a managed run repeats its address after the first update.
After(t, s, op) ==
  CASE op = "starts"   -> WithStatus(t, s, "running", TRUE)
    [] op = "waits"    -> WithStatus(t, s, "waiting_approval", s \in Managed)
    [] op = "resumes"  -> WithStatus(t, s, "running", s \in Managed)
    [] op = "ends"     -> WithStatus(t, s, "ended", FALSE)
    [] op = "asks"     -> WithApproval(t, s, "waiting_decision")
    [] op = "delivers" -> WithApproval(t, s, "delivered")
    [] op = "decides"  -> WithLine(t, s, "decision")
    [] op = "replies"  -> WithLine(t, s, "reply")
    [] OTHER           -> WithLine(t, s, "output")

Stays(t, s, strict) == t.status[s] \in Open \/ ~(strict /\ s \in aged)

\* Variant: only the list of sessions is pruned.
PruneSessionsOnly(t, strict) ==
  LET keep == {s \in Known(t) : Stays(t, s, strict)}
  IN  [t EXCEPT !.status = [s \in Sessions |-> IF s \in keep THEN @[s] ELSE "none"],
                !.addr = @ \cap keep]

\* Ended sessions past the cutoff go, and the records of sessions that have no record.
Prune(t, strict) ==
  LET keep == {s \in Known(t) : Stays(t, s, strict)}
      Of(f) == [s \in Sessions |-> IF s \in keep THEN f[s] ELSE "none"]
  IN  [ status |-> Of(t.status), addr |-> t.addr \cap keep, approval |-> Of(t.approval),
        lines |-> {l \in t.lines : l.session \in keep} ]

-------------------------------------------------------------------------------
(* The order of a goroutine's updates.  "prompts" is output with a question. *)

Then(g, op) ==
  CASE op = "asks"     -> "waits"
    [] op = "waits"    -> "decide"
    [] op = "decides"  -> "delivers"
    [] op = "delivers" -> "resumes"
    [] op = "starts"  /\ g[1] \in Managed -> "prompts"
    [] op = "prompts" /\ g[1] \in Managed -> "asks"
    [] OTHER           -> "none"

\* An update is over, done or not; output with a question starts the handler.
Moves(g) ==
  LET s == g[1]
      moved == [todo EXCEPT ![g] = Then(g, todo[g])]
  IN  /\ todo' = IF todo[g] = "prompts" /\ s \notin Managed
                 THEN [moved EXCEPT ![<<s, "handler">>] = "asks"] ELSE moved
      /\ step' = [step EXCEPT ![g] = "idle"]
      /\ copy' = [copy EXCEPT ![g] = Nothing]

Alive(s) == run[s] \in {"live", "closing"}
Free(g) == Alive(g[1]) /\ todo[g] = "none"
Rest == <<plan, file, step, copy, made, aged, alone, kept>>

\* The command and the host for replies, which found a port, have started.
Launch(s) ==
  /\ run[s] = "new"
  /\ run' = [run EXCEPT ![s] = "live"]
  /\ todo' = [todo EXCEPT ![<<s, "main">>] = "starts"]
  /\ UNCHANGED Rest

\* The command of a terminal prints; a question is handled if none is being handled.
Chunk(s) ==
  LET g == <<s, "output">>
  IN  /\ s \notin Managed /\ Free(g)
      /\ \E question \in BOOLEAN :
           LET asks == question /\ todo[<<s, "handler">>] = "none"
           IN  /\ asks => made[s].decision < plan[s].decision
               /\ IF made[s].output < plan[s].output
                  THEN todo' = [todo EXCEPT ![g] = IF asks THEN "prompts" ELSE "prints"]
                  ELSE asks /\ todo' = [todo EXCEPT ![<<s, "handler">>] = "asks"]
      /\ UNCHANGED <<Rest, run>>

\* What a managed command printed after the decision, read when it has ended.
Remainder(s) ==
  /\ s \in Managed /\ run[s] = "live" /\ todo[<<s, "main">>] = "none"
  /\ made[s].output < plan[s].output
  /\ todo' = [todo EXCEPT ![<<s, "main">>] = "prints"]
  /\ UNCHANGED <<Rest, run>>

\* The decision has been written to the command, or it could not be had.
Decide(g) ==
  /\ todo[g] = "decide"
  /\ \/ todo' = [todo EXCEPT ![g] = "decides"]
     \/ g[2] = "handler" /\ todo' = [todo EXCEPT ![g] = "none"]
  /\ UNCHANGED <<Rest, run>>

\* The command has ended: the host closes and the end is recorded.
Finish(s) ==
  /\ run[s] = "live" /\ todo[<<s, "main">>] = "none"
  /\ run' = [run EXCEPT ![s] = "closing"]
  /\ todo' = [todo EXCEPT ![<<s, "main">>] = "ends"]
  /\ UNCHANGED Rest

\* The process leaves, wherever its other goroutines are: at its end, because a
\* managed run got no decision, or because somebody closed the terminal.
Dies(s) ==
  /\ Alive(s)
  /\ run' = [run EXCEPT ![s] = "dead"]
  /\ todo' = [g \in Goroutines |-> IF g[1] = s THEN "none" ELSE todo[g]]
  /\ step' = [g \in Goroutines |-> IF g[1] = s THEN "idle" ELSE step[g]]
  /\ copy' = [g \in Goroutines |-> IF g[1] = s THEN Nothing ELSE copy[g]]
  /\ alone' = {g \in alone : g[1] # s}
  /\ UNCHANGED <<plan, file, made, aged, kept>>

-------------------------------------------------------------------------------
(* Replies: the tray, the desktop and agent reply look the address up. *)

Reachable(s) == state = "whole" /\ text.status[s] \in Open /\ s \in text.addr

\* The host the address names writes the reply to the command, then to the history.
SendInput(s) ==
  /\ Reachable(s) /\ run[s] = "live"     \* else the connection is refused
  /\ todo[<<s, "host">>] = "none" /\ made[s].reply < plan[s].reply
  /\ todo' = [todo EXCEPT ![<<s, "host">>] = "replies"]
  /\ UNCHANGED <<Rest, run>>

-------------------------------------------------------------------------------
(* One update of the file. *)

InFlight == {g \in Goroutines : step[g] # "idle"}

Updates(g) == todo[g] \notin {"none", "decide"}

\* An update that appends a line numbers it.
Numbers(s, op) ==
  made' = CASE op \in {"prints", "prompts"} -> [made EXCEPT ![s].output = @ + 1]
            [] op = "decides"               -> [made EXCEPT ![s].decision = @ + 1]
            [] op = "replies"               -> [made EXCEPT ![s].reply = @ + 1]
            [] OTHER                        -> made

\* Variant: a file that cannot be read is taken for a missing one.
LoadForgives(g) ==
  /\ Updates(g) /\ step[g] = "idle"
  /\ copy' = [copy EXCEPT ![g] = After(text, g[1], todo[g])]
  /\ step' = [step EXCEPT ![g] = "loaded"]
  /\ alone' = IF InFlight = {} THEN {g} ELSE {}
  /\ Numbers(g[1], todo[g])
  /\ UNCHANGED <<plan, file, run, todo, aged, kept>>

\* A file that cannot be read fails the update, and nobody looks at the error.
Load(g) ==
  /\ Updates(g) /\ step[g] = "idle"
  /\ IF state = "whole"
     THEN /\ copy' = [copy EXCEPT ![g] = After(text, g[1], todo[g])]
          /\ step' = [step EXCEPT ![g] = "loaded"]
          /\ alone' = IF InFlight = {} THEN {g} ELSE {}
          /\ UNCHANGED todo
     ELSE Moves(g) /\ UNCHANGED alone
  /\ Numbers(g[1], todo[g])
  /\ UNCHANGED <<plan, file, run, aged, kept>>

\* The retention is the configured one, or the default one when the settings cannot
\* be read: past the shorter of the two only some updates drop a session.
Save(g) ==
  /\ step[g] = "loaded"
  /\ \E strict \in BOOLEAN : copy' = [copy EXCEPT ![g] = Prune(@, strict)]
  /\ step' = [step EXCEPT ![g] = "saving"]
  /\ state' = "empty" /\ text' = Nothing
  /\ UNCHANGED <<plan, run, todo, made, aged, alone, kept>>

\* What an update records, if its session has a record.
Recorded(g) ==
  LET s == g[1]
      Item(kind, n) == {[session |-> s, kind |-> kind, n |-> n]}
  IN  IF s \notin Known(copy[g]) THEN {}
      ELSE CASE todo[g] \in {"starts", "waits", "resumes", "ends"} -> Item("session", 0)
             [] todo[g] \in {"asks", "delivers"} -> Item("approval", 0)
             [] todo[g] = "decides" -> Item("decision", made[s].decision)
             [] todo[g] = "replies" -> Item("reply", made[s].reply)
             [] OTHER -> Item("output", made[s].output)

\* Over another writer's text the longer one wins; else its end stays behind.
Write(g) ==
  /\ step[g] = "saving"
  /\ \/ state' = "whole" /\ text' = copy[g]
     \/ state # "empty" /\ state' = "mixed" /\ text' = Nothing
  /\ kept' = IF g \in alone THEN kept \cup Recorded(g) ELSE kept
  /\ alone' = alone \ {g}
  /\ Moves(g)
  /\ UNCHANGED <<plan, run, made, aged>>

\* The shorter of the two retention periods has passed since the session ended.
Ages(s) ==
  /\ run[s] = "dead" /\ s \notin aged
  /\ aged' = aged \cup {s}
  /\ UNCHANGED <<plan, file, run, todo, step, copy, made, alone, kept>>

Next ==
  \/ \E s \in Sessions : \/ Launch(s) \/ Chunk(s) \/ Remainder(s) \/ Finish(s) \/ Dies(s)
                         \/ SendInput(s) \/ Ages(s)
  \/ \E g \in Goroutines : Decide(g) \/ Load(g) \/ Save(g) \/ Write(g)

Spec == Init /\ [][Next]_vars

-------------------------------------------------------------------------------
(* Properties. *)

Task == {"none", "starts", "ends", "prints", "prompts", "asks", "waits", "decide", "decides",
         "delivers", "resumes", "replies"}
Tasks(g) ==
  LET handling == {"asks", "waits", "decide", "decides", "delivers", "resumes"}
      managed == g[1] \in Managed
  IN  CASE g[2] = "main" -> {"none", "starts", "ends"}
                              \cup (IF managed THEN handling \cup {"prints", "prompts"} ELSE {})
        [] g[2] = "output"  /\ ~managed -> {"none", "prints", "prompts"}
        [] g[2] = "handler" /\ ~managed -> {"none"} \cup handling
        [] g[2] = "host" -> {"none", "replies"}
        [] OTHER -> {"none"}

\* The types.  Each goroutine does its own kind of work, of a living process, and
\* only an update is under way.
TypeOK ==
  /\ plan \in Plans
  /\ state \in {"whole", "empty", "mixed"} /\ text \in Text
  /\ run \in [Sessions -> {"new", "live", "closing", "dead"}]
  /\ made \in [Sessions -> [Kinds -> Nat]] /\ aged \subseteq Sessions
  /\ todo \in [Goroutines -> Task]
  /\ step \in [Goroutines -> {"idle", "loaded", "saving"}]
  /\ copy \in [Goroutines -> Text]
  /\ \A g \in Goroutines :
       /\ todo[g] \in Tasks(g)
       /\ todo[g] # "none" => Alive(g[1])
       /\ step[g] # "idle" => Updates(g)
  /\ alone \subseteq InFlight

\* Every record a readable history has belongs to a session it lists, so a
\* session's page (localSessionDetail) shows it: whatever overlapped, no address,
\* approval, decision or output is left behind by a session that was pruned.
HistoryClosed ==
  state = "whole" =>
    /\ text.addr \subseteq Known(text)
    /\ \A s \in Sessions : text.approval[s] # "none" => s \in Known(text)
    /\ \A l \in text.lines : l.session \in Known(text)

Says(t, item) ==
  CASE item.kind = "session"  -> item.session \in Known(t)
    [] item.kind = "approval" -> t.approval[item.session] # "none"
    [] OTHER -> [session |-> item.session, kind |-> item.kind, n |-> item.n] \in t.lines

\* A record written by an update that overlapped no other stays in the history,
\* through whatever updates overlap later, until its session is older than the
\* shorter retention: the lost update costs only what is written at the time.
UndisturbedIsKept ==
  state = "whole" =>
    \A item \in kept : item.session \notin aged => Says(text, item)
================================================================================
