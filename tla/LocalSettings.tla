------------------------------ MODULE LocalSettings ------------------------------
(***************************************************************************)
(* The local settings (src/agent/cmd/agent/main.go, copied in              *)
(* src/agent/desktop/local_runtime.go): one JSON file, with the account    *)
(* the user is logged in with, that three kinds of actor rewrite whole and *)
(* without a lock.  The runtime, which is the agent's tray or the desktop, *)
(* answers requests (handlers) and has a menu; it works on a copy of the   *)
(* settings in its memory.  The agent's commands (settings, login, logout, *)
(* offline, and a terminal that adds its tool) know only the file.  A      *)
(* change of "start on login" also goes to the Windows registry, where     *)
(* agent and desktop each have an entry of their own.                      *)
(*                                                                         *)
(* A login names its account in full.  Of the other settings only those    *)
(* are kept that something depends on.                                     *)
(***************************************************************************)
EXTENDS Naturals, FiniteSets

CONSTANTS
  Handlers,  \* goroutines of the runtime's HTTP server
  Commands,  \* processes of the agent, each running one command after another
  Accounts,  \* accounts of the server
  None,      \* no account
  Programs,  \* what the runtime may be
  MaxAtOnce  \* bound on the updates at the same time

Items == {"notify", "mode", "startup"}    \* of the menu, each a goroutine

ASSUME ActorsAssumption ==
  /\ Handlers \cap Commands = {} /\ Items \cap (Handlers \cup Commands) = {}
  /\ None \notin Accounts
  /\ Programs \subseteq {"agent", "desktop"}
  /\ MaxAtOnce \in Nat \ {0}

VARIABLES
  program,     \* what the runtime is
  state,       \* of the file: "whole", or "empty" (truncated), or "mixed" by two writers
  text,        \* what the file says when it is whole
  registered,  \* the programs that Windows starts with the user's session
  running,     \* whether the runtime runs
  memory,      \* its copy of the settings
  work,        \* each actor's update: how far it is, the settings to save, and
               \* whether the file said "start on login" before
  alone,       \* (history) actors whose update has overlapped no other so far
  gone,        \* (history) accounts that were logged out and have not come back since
  keeper       \* (history) the program whose entry was changed last, if all went well

file == <<state, text>>
vars == <<program, file, registered, running, memory, work, alone, gone, keeper>>

Actors == Handlers \cup Items \cup Commands
Settings == [online : BOOLEAN, startup : BOOLEAN, account : Accounts \cup {None}]
Default == [online |-> FALSE, startup |-> FALSE, account |-> None]
Idle == [at |-> "idle", body |-> Default, was |-> FALSE]

ProgramOf(x) == IF x \in Commands THEN "agent" ELSE program
Busy == {x \in Actors : work[x].at # "idle"}

\* A missing file reads as the default.
Init ==
  /\ program \in Programs
  /\ state = "whole" /\ text = Default
  /\ registered = {}
  /\ running = FALSE /\ memory = Default
  /\ work = [x \in Actors |-> Idle]
  /\ alone = {} /\ gone = {} /\ keeper = "none"

-------------------------------------------------------------------------------
(* What an update saves. *)

LoggedIn(t, a) == [t EXCEPT !.online = TRUE, !.account = a]
LoggedOut(t) == [t EXCEPT !.online = FALSE, !.account = None]
Offline(t) == [t EXCEPT !.online = FALSE]

\* agent settings changes a setting; a terminal adds a tool, or finds it there.
Changes(t) == {[t EXCEPT !.online = b] : b \in BOOLEAN}
                \cup {[t EXCEPT !.startup = b] : b \in BOOLEAN} \cup {t}

\* The menu turns a setting over; nobody goes online without a login.
Toggled(t, item) ==
  CASE item = "startup" -> [t EXCEPT !.startup = ~@]
    [] item = "mode"    -> [t EXCEPT !.online = ~@ /\ t.account # None]
    [] OTHER            -> t

Begins(x, body) ==
  /\ work[x].at = "idle" /\ Cardinality(Busy) < MaxAtOnce
  /\ work' = [work EXCEPT ![x] = [at |-> "compare", body |-> body, was |-> FALSE]]
  /\ alone' = IF Busy = {} THEN {x} ELSE {}
  /\ UNCHANGED <<program, file, registered, running, memory, keeper>>

\* A login, from a command or a request: the file is read before, and a file that
\* cannot be read refuses it.
Login(x) ==
  /\ x \in Commands \/ running
  /\ state = "whole"
  /\ \E a \in Accounts : Begins(x, LoggedIn(text, a)) /\ gone' = gone \ {a}

\* Logout and offline, likewise.
Leave(x) ==
  /\ x \in Commands \/ running
  /\ state = "whole"
  /\ \E body \in {LoggedOut(text), Offline(text)} : Begins(x, body)
  /\ UNCHANGED gone

ChangeByCommand(x) ==
  /\ state = "whole"
  /\ \E body \in Changes(text) : Begins(x, body)
  /\ UNCHANGED gone

\* A page posts the settings it shows, whenever it read them, and what was edited.
Post(x) ==
  /\ running
  /\ \E body \in Settings : Begins(x, body) /\ gone' = gone \ {body.account}

\* The desktop has no menu.
Click(item) ==
  /\ running /\ program = "agent"
  /\ Begins(item, Toggled(memory, item))
  /\ UNCHANGED gone

-------------------------------------------------------------------------------
(* saveAgentLocalSettingsWithStartup. *)

Goes(x, at) == work' = [work EXCEPT ![x].at = at]
Ends(x) == work' = [work EXCEPT ![x] = Idle] /\ alone' = alone \ {x}

\* Variant: what the runtime remembers is compared.
CompareWithMemory(x) ==
  /\ work[x].at = "compare"
  /\ work' = [work EXCEPT ![x].at = "truncate", ![x].was = memory.startup]
  /\ UNCHANGED <<program, file, registered, running, memory, alone, gone, keeper>>

\* What the file said of "start on login"; a file that cannot be read says no.
Compare(x) ==
  /\ work[x].at = "compare"
  /\ work' = [work EXCEPT ![x].at = "truncate", ![x].was = state = "whole" /\ text.startup]
  /\ UNCHANGED <<program, file, registered, running, memory, alone, gone, keeper>>

Truncate(x) ==
  /\ work[x].at = "truncate"
  /\ state' = "empty" /\ text' = Default
  /\ Goes(x, "write")
  /\ keeper' = IF x \in alone THEN keeper ELSE "none"
  /\ UNCHANGED <<program, registered, running, memory, alone, gone>>

\* Over another writer's text the longer one wins, or its end stays behind.  An
\* update that leaves "start on login" as it was is saved.
Write(x) ==
  LET rec == work[x]
  IN  /\ rec.at = "write"
      /\ \/ state' = "whole" /\ text' = rec.body
         \/ state # "empty" /\ state' = "mixed" /\ text' = Default
      /\ IF rec.was # rec.body.startup THEN Goes(x, "register") /\ UNCHANGED alone
         ELSE IF x \in Commands THEN Ends(x)
         ELSE Goes(x, "remember") /\ UNCHANGED alone
      /\ UNCHANGED <<program, registered, running, memory, gone, keeper>>

Register(x) ==
  LET p == ProgramOf(x)
  IN  /\ work[x].at = "register"
      /\ registered' = IF work[x].body.startup THEN registered \cup {p} ELSE registered \ {p}
      /\ keeper' = IF x \in alone THEN p ELSE "none"
      /\ IF x \in Commands THEN Ends(x) ELSE Goes(x, "remember") /\ UNCHANGED alone
      /\ UNCHANGED <<program, file, running, memory, gone>>

\* Variant: a handler answers without setSettings.
Forgets(x) ==
  /\ work[x].at = "remember"
  /\ gone' = IF x \in alone /\ work[x].body.account = None THEN Accounts ELSE gone
  /\ Ends(x)
  /\ UNCHANGED <<program, file, registered, running, memory, keeper>>

\* The runtime takes what it saved for its settings.
Remember(x) ==
  /\ work[x].at = "remember"
  /\ memory' = work[x].body
  /\ gone' = IF x \in alone /\ work[x].body.account = None THEN Accounts ELSE gone
  /\ Ends(x)
  /\ UNCHANGED <<program, file, registered, running, keeper>>

\* An error ends an update where it is, among them one of the registry, which leaves
\* the file saved; so does the end of a command.
Breaks(x) ==
  /\ work[x].at # "idle" /\ Ends(x)
  /\ keeper' = IF work[x].at \in {"write", "register"} THEN "none" ELSE keeper
  /\ UNCHANGED <<program, file, registered, running, memory, gone>>

-------------------------------------------------------------------------------
(* The runtime. *)

\* It needs a file that can be read.
StartRuntime ==
  /\ ~running /\ state = "whole"
  /\ running' = TRUE /\ memory' = text
  /\ UNCHANGED <<program, file, registered, work, alone, gone, keeper>>

StopRuntime ==
  LET mine == Handlers \cup Items
  IN  /\ running
      /\ running' = FALSE /\ memory' = Default
      /\ work' = [x \in Actors |-> IF x \in mine THEN Idle ELSE work[x]]
      /\ alone' = alone \ mine
      /\ keeper' = IF \E x \in mine : work[x].at \in {"write", "register"} THEN "none" ELSE keeper
      /\ UNCHANGED <<program, file, registered, gone>>

Next ==
  \/ \E x \in Handlers \cup Commands : Login(x) \/ Leave(x)
  \/ \E x \in Commands : ChangeByCommand(x)
  \/ \E x \in Handlers : Post(x)
  \/ \E item \in Items : Click(item)
  \/ \E x \in Actors : Compare(x) \/ Truncate(x) \/ Write(x) \/ Register(x) \/ Remember(x) \/ Breaks(x)
  \/ StartRuntime \/ StopRuntime

Spec == Init /\ [][Next]_vars

-------------------------------------------------------------------------------
(* Properties. *)

\* The types.  Only the runtime, while it runs, remembers what it saved.
TypeOK ==
  /\ program \in Programs
  /\ state \in {"whole", "empty", "mixed"} /\ text \in Settings
  /\ registered \subseteq {"agent", "desktop"}
  /\ running \in BOOLEAN /\ memory \in Settings
  /\ work \in [Actors -> [at : {"idle", "compare", "truncate", "write", "register", "remember"},
                          body : Settings, was : BOOLEAN]]
  /\ \A x \in Actors : x \in Commands => work[x].at # "remember"
  /\ \A x \in Handlers \cup Items : work[x].at # "idle" => running
  /\ alone \subseteq Busy /\ gone \subseteq Accounts
  /\ keeper \in {"agent", "desktop", "none"}

\* A logout sticks: after one through the runtime that overlapped no other update,
\* neither file nor memory names an account again until a user logs in with it or
\* posts a page that shows it, however menu, commands, restarts and broken updates
\* overlap afterwards.
LogoutSticks ==
  \A a \in gone : memory.account # a /\ (state = "whole" => text.account # a)

\* Windows starts the program that changed its entry last if and only if the file
\* says so, until an update overlaps another or breaks off: what decides is the file,
\* and so the runtime's copy may be old.
RegistrationFollowsTheFile ==
  keeper # "none" /\ state = "whole" /\ (\A x \in Actors : work[x].at # "register") =>
    (keeper \in registered <=> text.startup)
================================================================================
