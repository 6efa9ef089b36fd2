-------------------------- MODULE LocalSettingsProofs --------------------------
(***************************************************************************)
(* Theorems about LocalSettings, for any number of requests, commands and  *)
(* accounts, and however many updates overlap.  Both safety properties     *)
(* rest on what overlapped nothing: an actor that is alone knows what the  *)
(* file says, because nobody else has an update under way.                 *)
(***************************************************************************)
EXTENDS LocalSettings, TLAPS

Stages == {"idle", "compare", "truncate", "write", "register", "remember"}
Work == [at : Stages, body : Settings, was : BOOLEAN]

\* Who has no update under way holds no settings.
Rested == \A x \in Actors : work[x].at = "idle" => work[x].body = Default

\* Who is alone is the only one with an update under way.
AloneIsAlone ==
  \A x \in alone : \A y \in Actors : work[y].at # "idle" => y = x

\* A file that cannot be read says nothing.
UnreadableIsEmpty == state # "whole" => text = Default

\* Who is alone finds the file as the steps of its own update left it.
AloneKnowsTheFile ==
  \A x \in alone :
    /\ work[x].at = "truncate" => (work[x].was <=> state = "whole" /\ text.startup)
    /\ work[x].at = "write" => state = "empty"
    /\ work[x].at \in {"register", "remember"} => state = "whole" /\ text = work[x].body

\* An account that is gone is named nowhere: not by the memory, not by the file, and
\* not by an update under way, which is where it could come back from.
GoneEverywhere ==
  \A a \in gone : /\ memory.account # a /\ text.account # a
                  /\ \A x \in Actors : work[x].body.account # a

Writing(x) == work[x].at \in {"write", "register"}

\* What is known of the registry while somebody keeps it: between updates it agrees
\* with the file, and at most one actor is between its truncation and its change.
KeeperAgrees ==
  keeper # "none" =>
    /\ (\A x \in Actors : ~Writing(x)) =>
         state = "whole" /\ (keeper \in registered <=> text.startup)
    /\ \A x, y \in Actors : Writing(x) /\ Writing(y) => x = y
    /\ \A x \in Actors :
         /\ work[x].at = "write" =>
              state = "empty" /\ (keeper \in registered <=> work[x].was)
         /\ work[x].at = "register" =>
              state = "whole" /\ text.startup = work[x].body.startup

IInv == /\ TypeOK /\ Rested /\ AloneIsAlone /\ UnreadableIsEmpty
        /\ AloneKnowsTheFile /\ GoneEverywhere /\ KeeperAgrees

-------------------------------------------------------------------------------
(* Lemmas about the steps of an update. *)

\* The menu, the requests and the commands are of different kinds.
LEMMA ActorKinds ==
  /\ Handlers \subseteq Actors /\ Items \subseteq Actors /\ Commands \subseteq Actors
  /\ Handlers \cap Commands = {} /\ Items \cap Handlers = {} /\ Items \cap Commands = {}
BY ActorsAssumption DEF Actors

\* The default settings, and the state of an actor at rest.
LEMMA RestForm ==
  /\ Default \in Settings /\ Default.account = None /\ Default.startup = FALSE
  /\ Idle \in Work /\ Idle.at = "idle" /\ Idle.body = Default
BY DEF Default, Settings, Idle, Work, Stages

\* What an update may save are settings, and only a login or a page names an account
\* that is not the one of the settings they start from.
LEMMA SavedForms ==
  ASSUME NEW t \in Settings
  PROVE  /\ \A a \in Accounts : LoggedIn(t, a) \in Settings /\ LoggedIn(t, a).account = a
         /\ LoggedOut(t) \in Settings /\ LoggedOut(t).account = None
         /\ Offline(t) \in Settings /\ Offline(t).account = t.account
         /\ \A body \in Changes(t) : body \in Settings /\ body.account = t.account
         /\ \A item \in Items :
              Toggled(t, item) \in Settings /\ Toggled(t, item).account = t.account
<1>1. \A a \in Accounts : LoggedIn(t, a) \in Settings /\ LoggedIn(t, a).account = a
  BY DEF LoggedIn, Settings
<1>2. LoggedOut(t) \in Settings /\ LoggedOut(t).account = None
  BY DEF LoggedOut, Settings
<1>3. Offline(t) \in Settings /\ Offline(t).account = t.account
  BY DEF Offline, Settings
<1>4. \A body \in Changes(t) : body \in Settings /\ body.account = t.account
  BY DEF Changes, Settings
<1>5. ASSUME NEW item \in Items
      PROVE  Toggled(t, item) \in Settings /\ Toggled(t, item).account = t.account
  <2>1. CASE item = "startup"
    BY <2>1 DEF Toggled, Settings
  <2>2. CASE item = "mode"
    BY <2>2 DEF Toggled, Settings
  <2>3. CASE item = "notify"
    BY <2>3 DEF Toggled, Settings
  <2>4. QED
    BY <2>1, <2>2, <2>3 DEF Items
<1>6. QED
  BY <1>1, <1>2, <1>3, <1>4, <1>5

\* A step of x changes no one else's update, and of its own only how far it is.
LEMMA GoesForm ==
  ASSUME TypeOK, NEW x \in Actors, NEW at \in Stages, Goes(x, at)
  PROVE  /\ work' \in [Actors -> Work]
         /\ work'[x].at = at /\ work'[x].body = work[x].body /\ work'[x].was = work[x].was
         /\ \A y \in Actors \ {x} : work'[y] = work[y]
BY DEF TypeOK, Goes, Work, Stages

\* An update that ends leaves its actor at rest and everybody else as they were.
LEMMA EndsForm ==
  ASSUME TypeOK, NEW x \in Actors, Ends(x)
  PROVE  /\ work' \in [Actors -> Work]
         /\ work'[x].at = "idle" /\ work'[x].body = Default
         /\ \A y \in Actors \ {x} : work'[y] = work[y]
         /\ alone' = alone \ {x}
BY RestForm DEF TypeOK, Ends, Work, Stages

\* An update begins with what it will save, alone if nobody else is busy.
LEMMA BeginsForm ==
  ASSUME TypeOK, NEW x \in Actors, NEW body \in Settings, Begins(x, body)
  PROVE  /\ work' \in [Actors -> Work]
         /\ work[x].at = "idle"
         /\ work'[x].at = "compare" /\ work'[x].body = body
         /\ \A y \in Actors \ {x} : work'[y] = work[y]
         /\ alone' \subseteq {x}
         /\ x \in alone' => \A y \in Actors : work[y].at = "idle"
         /\ UNCHANGED <<program, state, text, registered, running, memory, keeper>>
BY DEF TypeOK, Begins, Busy, file, Work, Stages

-------------------------------------------------------------------------------
(* Beginning an update: five operations, of which only a login and a page may name *)
(* an account that was gone, and then it is gone no longer.                        *)

LEMMA BeginsStep ==
  ASSUME IInv, NEW x \in Actors, NEW body \in Settings, Begins(x, body),
         x \in Handlers \cup Items => running,
         gone' \subseteq gone, body.account \notin gone'
  PROVE  IInv'
<1>0. /\ TypeOK /\ Rested /\ AloneIsAlone /\ UnreadableIsEmpty
      /\ AloneKnowsTheFile /\ GoneEverywhere /\ KeeperAgrees
  BY DEF IInv
<1>1. /\ work' \in [Actors -> Work]
      /\ work[x].at = "idle"
      /\ work'[x].at = "compare" /\ work'[x].body = body
      /\ \A y \in Actors \ {x} : work'[y] = work[y]
      /\ alone' \subseteq {x}
      /\ x \in alone' => \A y \in Actors : work[y].at = "idle"
      /\ UNCHANGED <<program, state, text, registered, running, memory, keeper>>
  BY <1>0, BeginsForm
<1>2. TypeOK'
  BY <1>0, <1>1, ActorKinds DEF TypeOK, Work, Stages, Busy
<1>3. Rested'
  BY <1>0, <1>1 DEF Rested
<1>4. AloneIsAlone'
  BY <1>1 DEF AloneIsAlone
<1>5. UnreadableIsEmpty'
  BY <1>0, <1>1 DEF UnreadableIsEmpty
<1>6. AloneKnowsTheFile'
  BY <1>1 DEF AloneKnowsTheFile
<1>7. GoneEverywhere'
  BY <1>0, <1>1 DEF GoneEverywhere
<1>8. KeeperAgrees'
  <2>1. \A y \in Actors : /\ Writing(y)' <=> Writing(y)
                          /\ Writing(y) => work'[y] = work[y]
                          /\ work'[y].at \in {"write", "register"} <=> Writing(y)
    BY <1>1 DEF Writing
  <2>2. QED
    BY <1>0, <1>1, <2>1 DEF KeeperAgrees, Writing
<1>9. QED
  BY <1>2, <1>3, <1>4, <1>5, <1>6, <1>7, <1>8 DEF IInv

LEMMA LoginStep ==
  ASSUME IInv, NEW x \in Handlers \cup Commands, Login(x)
  PROVE  IInv'
<1>1. PICK a \in Accounts : Begins(x, LoggedIn(text, a)) /\ gone' = gone \ {a}
  BY DEF Login
<1>2. text \in Settings
  BY DEF IInv, TypeOK
<1>3. LoggedIn(text, a) \in Settings /\ LoggedIn(text, a).account = a
  BY <1>2, SavedForms
<1>4. x \in Actors /\ (x \in Handlers \cup Items => running)
  BY ActorKinds DEF Login
<1>5. QED
  BY <1>1, <1>3, <1>4, BeginsStep

LEMMA LeaveStep ==
  ASSUME IInv, NEW x \in Handlers \cup Commands, Leave(x)
  PROVE  IInv'
<1>1. PICK body \in {LoggedOut(text), Offline(text)} : Begins(x, body)
  BY DEF Leave
<1>2. text \in Settings /\ gone \subseteq Accounts
  BY DEF IInv, TypeOK
<1>3. body \in Settings /\ body.account \in {None, text.account}
  BY <1>2, SavedForms
<1>4. gone' = gone /\ None \notin gone /\ text.account \notin gone
  BY <1>2, ActorsAssumption DEF Leave, IInv, GoneEverywhere
<1>5. x \in Actors /\ (x \in Handlers \cup Items => running)
  BY ActorKinds DEF Leave
<1>6. QED
  BY <1>1, <1>3, <1>4, <1>5, BeginsStep

LEMMA ChangeByCommandStep ==
  ASSUME IInv, NEW x \in Commands, ChangeByCommand(x)
  PROVE  IInv'
<1>1. PICK body \in Changes(text) : Begins(x, body)
  BY DEF ChangeByCommand
<1>2. text \in Settings
  BY DEF IInv, TypeOK
<1>3. body \in Settings /\ body.account = text.account
  BY <1>2, SavedForms
<1>4. gone' = gone /\ text.account \notin gone
  BY DEF ChangeByCommand, IInv, GoneEverywhere
<1>5. x \in Actors /\ x \notin Handlers \cup Items
  BY ActorKinds
<1>6. QED
  BY <1>1, <1>3, <1>4, <1>5, BeginsStep

LEMMA PostStep ==
  ASSUME IInv, NEW x \in Handlers, Post(x)
  PROVE  IInv'
<1>1. PICK body \in Settings : Begins(x, body) /\ gone' = gone \ {body.account}
  BY DEF Post
<1>2. x \in Actors /\ running
  BY ActorKinds DEF Post
<1>3. QED
  BY <1>1, <1>2, BeginsStep

LEMMA ClickStep ==
  ASSUME IInv, NEW item \in Items, Click(item)
  PROVE  IInv'
<1>1. memory \in Settings
  BY DEF IInv, TypeOK
<1>2. /\ Toggled(memory, item) \in Settings
      /\ Toggled(memory, item).account = memory.account
  BY <1>1, SavedForms
<1>3. gone' = gone /\ memory.account \notin gone
  BY DEF Click, IInv, GoneEverywhere
<1>4. item \in Actors /\ running /\ Begins(item, Toggled(memory, item))
  BY ActorKinds DEF Click
<1>5. QED
  BY <1>2, <1>3, <1>4, BeginsStep

-------------------------------------------------------------------------------
(* The steps of an update. *)

LEMMA CompareStep ==
  ASSUME IInv, NEW x \in Actors, Compare(x)
  PROVE  IInv'
<1>0. /\ TypeOK /\ Rested /\ AloneIsAlone /\ UnreadableIsEmpty
      /\ AloneKnowsTheFile /\ GoneEverywhere /\ KeeperAgrees
  BY DEF IInv
<1>1. /\ work' \in [Actors -> Work]
      /\ work[x].at = "compare" /\ work'[x].at = "truncate"
      /\ work'[x].body = work[x].body
      /\ work'[x].was <=> state = "whole" /\ text.startup
      /\ \A y \in Actors \ {x} : work'[y] = work[y]
      /\ UNCHANGED <<program, state, text, registered, running, memory, alone, gone, keeper>>
  <2> DEFINE said == state = "whole" /\ text.startup
  <2>1. said \in BOOLEAN
    BY <1>0 DEF TypeOK, Settings
  <2>2. /\ work[x].at = "compare"
        /\ work' = [work EXCEPT ![x].at = "truncate", ![x].was = said]
        /\ UNCHANGED <<program, state, text, registered, running, memory, alone, gone, keeper>>
    BY DEF Compare, file
  <2>3. work \in [Actors -> Work]
    BY <1>0 DEF TypeOK, Work, Stages
  <2>4. work' \in [Actors -> Work]
    <3> HIDE DEF said
    <3>1. QED
      BY <2>1, <2>2, <2>3 DEF Work, Stages
  <2>5. /\ work'[x].at = "truncate" /\ work'[x].body = work[x].body
        /\ work'[x].was = said
        /\ \A y \in Actors \ {x} : work'[y] = work[y]
    <3> HIDE DEF said
    <3>1. QED
      BY <2>2, <2>3 DEF Work
  <2>6. QED
    BY <2>2, <2>4, <2>5
<1>2. TypeOK'
  BY <1>0, <1>1, ActorKinds DEF TypeOK, Work, Stages, Busy
<1>3. Rested'
  BY <1>0, <1>1 DEF Rested
<1>4. AloneIsAlone'
  BY <1>0, <1>1 DEF AloneIsAlone
<1>5. UnreadableIsEmpty'
  BY <1>0, <1>1 DEF UnreadableIsEmpty
<1>6. AloneKnowsTheFile'
  BY <1>0, <1>1 DEF AloneKnowsTheFile, TypeOK, Busy
<1>7. GoneEverywhere'
  BY <1>0, <1>1 DEF GoneEverywhere
<1>8. KeeperAgrees'
  <2>1. \A y \in Actors : /\ work'[y].at \in {"write", "register"} <=> Writing(y)
                          /\ Writing(y) => work'[y] = work[y]
    BY <1>1 DEF Writing
  <2>2. QED
    BY <1>0, <1>1, <2>1 DEF KeeperAgrees, Writing
<1>9. QED
  BY <1>2, <1>3, <1>4, <1>5, <1>6, <1>7, <1>8 DEF IInv

\* Who truncates alone keeps the registry as the file described it; with company,
\* nobody keeps it.
LEMMA TruncateStep ==
  ASSUME IInv, NEW x \in Actors, Truncate(x)
  PROVE  IInv'
<1>0. /\ TypeOK /\ Rested /\ AloneIsAlone /\ UnreadableIsEmpty
      /\ AloneKnowsTheFile /\ GoneEverywhere /\ KeeperAgrees
  BY DEF IInv
<1>1. /\ work' \in [Actors -> Work]
      /\ work[x].at = "truncate" /\ work'[x].at = "write"
      /\ work'[x].body = work[x].body /\ work'[x].was = work[x].was
      /\ \A y \in Actors \ {x} : work'[y] = work[y]
      /\ state' = "empty" /\ text' = Default
      /\ keeper' = IF x \in alone THEN keeper ELSE "none"
      /\ UNCHANGED <<program, registered, running, memory, alone, gone>>
  BY <1>0, GoesForm DEF Truncate, Stages
<1>2. TypeOK'
  BY <1>0, <1>1, ActorKinds, RestForm DEF TypeOK, Work, Stages, Busy
<1>3. Rested'
  BY <1>0, <1>1 DEF Rested
<1>4. AloneIsAlone'
  BY <1>0, <1>1 DEF AloneIsAlone
<1>5. UnreadableIsEmpty'
  BY <1>1 DEF UnreadableIsEmpty
<1>6. AloneKnowsTheFile'
  BY <1>0, <1>1 DEF AloneKnowsTheFile, AloneIsAlone, TypeOK, Busy
<1>7. GoneEverywhere'
  BY <1>0, <1>1, RestForm, ActorsAssumption DEF GoneEverywhere, TypeOK
<1>8. KeeperAgrees'
  <2> SUFFICES ASSUME keeper' # "none"
               PROVE  KeeperAgrees'
    BY DEF KeeperAgrees
  <2>1. x \in alone /\ keeper' = keeper
    BY <1>1
  <2>2. \A y \in Actors \ {x} : work[y].at = "idle"
    BY <1>0, <2>1 DEF AloneIsAlone
  <2>3. \A y \in Actors : ~Writing(y)
    BY <1>1, <2>2 DEF Writing
  <2>4. work[x].was <=> (keeper \in registered)
    BY <1>0, <1>1, <2>1, <2>3 DEF KeeperAgrees, AloneKnowsTheFile
  <2>5. \A y \in Actors : work'[y].at \in {"write", "register"} => y = x
    BY <1>1, <2>2
  <2>6. QED
    BY <1>1, <2>1, <2>4, <2>5 DEF KeeperAgrees, Writing
<1>9. QED
  BY <1>2, <1>3, <1>4, <1>5, <1>6, <1>7, <1>8 DEF IInv

\* Who writes alone finds the file empty and leaves it with its own settings.
LEMMA WriteStep ==
  ASSUME IInv, NEW x \in Actors, Write(x)
  PROVE  IInv'
<1>0. /\ TypeOK /\ Rested /\ AloneIsAlone /\ UnreadableIsEmpty
      /\ AloneKnowsTheFile /\ GoneEverywhere /\ KeeperAgrees
  BY DEF IInv
<1>1. /\ work[x].at = "write" /\ work[x].body \in Settings /\ work[x].was \in BOOLEAN
      /\ \/ state' = "whole" /\ text' = work[x].body
         \/ state # "empty" /\ state' = "mixed" /\ text' = Default
      /\ UNCHANGED <<program, registered, running, memory, gone, keeper>>
  BY <1>0 DEF TypeOK, Write
<1>a. /\ work' \in [Actors -> Work]
      /\ \/ work[x].was # work[x].body.startup /\ work'[x].at = "register"
         \/ work[x].was = work[x].body.startup /\ work'[x].at = "idle" /\ work'[x].body = Default
         \/ /\ work[x].was = work[x].body.startup /\ x \notin Commands
            /\ work'[x].at = "remember"
      /\ work'[x].at # "idle" =>
           work'[x].body = work[x].body /\ work'[x].was = work[x].was /\ alone' = alone
      /\ work'[x].at = "idle" => alone' = alone \ {x}
      /\ \A y \in Actors \ {x} : work'[y] = work[y]
  <2>1. CASE work[x].was # work[x].body.startup
    <3>1. Goes(x, "register") /\ alone' = alone
      BY <2>1 DEF Write
    <3>2. QED
      BY <1>0, <2>1, <3>1, GoesForm DEF Stages
  <2>2. CASE work[x].was = work[x].body.startup /\ x \in Commands
    <3>1. Ends(x)
      BY <2>2 DEF Write
    <3>2. QED
      BY <1>0, <2>2, <3>1, EndsForm
  <2>3. CASE work[x].was = work[x].body.startup /\ x \notin Commands
    <3>1. Goes(x, "remember") /\ alone' = alone
      BY <2>3 DEF Write
    <3>2. QED
      BY <1>0, <2>3, <3>1, GoesForm DEF Stages
  <2>4. QED
    BY <2>1, <2>2, <2>3
<1>2. TypeOK'
  BY <1>0, <1>1, <1>a, ActorKinds, RestForm DEF TypeOK, Work, Stages, Busy
<1>3. Rested'
  BY <1>0, <1>a DEF Rested
<1>4. AloneIsAlone'
  BY <1>0, <1>1, <1>a DEF AloneIsAlone
<1>5. UnreadableIsEmpty'
  BY <1>1 DEF UnreadableIsEmpty
<1>6. AloneKnowsTheFile'
  <2>1. ASSUME NEW y \in alone'
        PROVE  y = x /\ x \in alone
    BY <1>0, <1>1, <1>a, <2>1 DEF AloneIsAlone
  <2>2. x \in alone => state = "empty"
    BY <1>0, <1>1 DEF AloneKnowsTheFile
  <2>3. x \in alone' => work'[x].at \in {"register", "remember"}
    BY <1>a
  <2>4. QED
    BY <1>1, <1>a, <2>1, <2>2, <2>3 DEF AloneKnowsTheFile
<1>7. GoneEverywhere'
  <2>1. \A a \in gone : Default.account # a
    BY <1>0, RestForm, ActorsAssumption DEF TypeOK
  <2>2. QED
    BY <1>0, <1>1, <1>a, <2>1 DEF GoneEverywhere
<1>8. KeeperAgrees'
  <2> SUFFICES ASSUME keeper # "none"
               PROVE  KeeperAgrees'
    BY <1>1 DEF KeeperAgrees
  <2>1. /\ state = "empty" /\ (keeper \in registered <=> work[x].was)
        /\ \A y \in Actors \ {x} : work[y].at \notin {"write", "register"}
    BY <1>0, <1>1 DEF KeeperAgrees, Writing
  <2>2. state' = "whole" /\ text' = work[x].body
    BY <1>1, <2>1
  <2>3. \A y \in Actors : work'[y].at \in {"write", "register"} =>
          y = x /\ work'[x].at = "register"
    BY <1>a, <2>1
  <2>4. QED
    BY <1>1, <1>a, <2>1, <2>2, <2>3 DEF KeeperAgrees, Writing
<1>9. QED
  BY <1>2, <1>3, <1>4, <1>5, <1>6, <1>7, <1>8 DEF IInv

\* Who registers alone has just written what the registry is to say.
LEMMA RegisterStep ==
  ASSUME IInv, NEW x \in Actors, Register(x)
  PROVE  IInv'
<1>0. /\ TypeOK /\ Rested /\ AloneIsAlone /\ UnreadableIsEmpty
      /\ AloneKnowsTheFile /\ GoneEverywhere /\ KeeperAgrees
  BY DEF IInv
<1> DEFINE p == ProgramOf(x)
<1>1. /\ work[x].at = "register" /\ work[x].body \in Settings
      /\ registered' = IF work[x].body.startup THEN registered \cup {p} ELSE registered \ {p}
      /\ keeper' = IF x \in alone THEN p ELSE "none"
      /\ UNCHANGED <<program, state, text, running, memory, gone>>
  BY <1>0 DEF TypeOK, Register, file
<1>a. /\ work' \in [Actors -> Work]
      /\ \/ work'[x].at = "idle" /\ work'[x].body = Default /\ alone' = alone \ {x}
         \/ /\ x \notin Commands /\ work'[x].at = "remember" /\ work'[x].body = work[x].body
            /\ alone' = alone
      /\ \A y \in Actors \ {x} : work'[y] = work[y]
  <2>1. CASE x \in Commands
    BY <1>0, <2>1, EndsForm DEF Register
  <2>2. CASE x \notin Commands
    <3>1. Goes(x, "remember") /\ alone' = alone
      BY <2>2 DEF Register
    <3>2. QED
      BY <1>0, <2>2, <3>1, GoesForm DEF Stages
  <2>3. QED
    BY <2>1, <2>2
<1>b. p \in {"agent", "desktop"}
  BY <1>0, ActorsAssumption DEF TypeOK, ProgramOf
<1> HIDE DEF p
<1>2. TypeOK'
  BY <1>0, <1>1, <1>a, <1>b, ActorKinds DEF TypeOK, Work, Stages, Busy
<1>3. Rested'
  BY <1>0, <1>a DEF Rested
<1>4. AloneIsAlone'
  BY <1>0, <1>1, <1>a DEF AloneIsAlone
<1>5. UnreadableIsEmpty'
  BY <1>0, <1>1 DEF UnreadableIsEmpty
<1>6. AloneKnowsTheFile'
  <2>1. ASSUME NEW y \in alone'
        PROVE  y = x /\ x \in alone
    BY <1>0, <1>1, <1>a, <2>1 DEF AloneIsAlone
  <2>2. QED
    BY <1>0, <1>1, <1>a, <2>1 DEF AloneKnowsTheFile
<1>7. GoneEverywhere'
  BY <1>0, <1>1, <1>a, RestForm, ActorsAssumption DEF GoneEverywhere, TypeOK
<1>8. KeeperAgrees'
  <2> SUFFICES ASSUME keeper' # "none"
               PROVE  KeeperAgrees'
    BY DEF KeeperAgrees
  <2>1. x \in alone /\ keeper' = p
    BY <1>1
  <2>2. state = "whole" /\ text = work[x].body
    BY <1>0, <1>1, <2>1 DEF AloneKnowsTheFile
  <2>3. \A y \in Actors : work'[y].at \notin {"write", "register"}
    BY <1>0, <1>1, <1>a, <2>1 DEF AloneIsAlone
  <2>4. p \in registered' <=> text.startup
    BY <1>1, <2>2
  <2>5. QED
    BY <1>1, <2>1, <2>2, <2>3, <2>4 DEF KeeperAgrees, Writing
<1>9. QED
  BY <1>2, <1>3, <1>4, <1>5, <1>6, <1>7, <1>8 DEF IInv

\* Who has logged out alone leaves nobody who remembers an account: the file and the
\* memory say what was saved, and everybody else is at rest.
LEMMA RememberStep ==
  ASSUME IInv, NEW x \in Actors, Remember(x)
  PROVE  IInv'
<1>0. /\ TypeOK /\ Rested /\ AloneIsAlone /\ UnreadableIsEmpty
      /\ AloneKnowsTheFile /\ GoneEverywhere /\ KeeperAgrees
  BY DEF IInv
<1>1. /\ work' \in [Actors -> Work]
      /\ work[x].at = "remember" /\ work[x].body \in Settings
      /\ work'[x].at = "idle" /\ work'[x].body = Default
      /\ \A y \in Actors \ {x} : work'[y] = work[y]
      /\ alone' = alone \ {x}
      /\ memory' = work[x].body
      /\ gone' = IF x \in alone /\ work[x].body.account = None THEN Accounts ELSE gone
      /\ UNCHANGED <<program, state, text, registered, running, keeper>>
  BY <1>0, EndsForm DEF TypeOK, Remember, file
<1>2. TypeOK'
  BY <1>0, <1>1, ActorKinds DEF TypeOK, Work, Stages, Busy
<1>3. Rested'
  BY <1>0, <1>1 DEF Rested
<1>4. AloneIsAlone'
  BY <1>0, <1>1 DEF AloneIsAlone
<1>5. UnreadableIsEmpty'
  BY <1>0, <1>1 DEF UnreadableIsEmpty
<1>6. AloneKnowsTheFile'
  BY <1>0, <1>1 DEF AloneKnowsTheFile, TypeOK, Busy
<1>7. GoneEverywhere'
  <2>1. CASE x \in alone /\ work[x].body.account = None
    <3>1. text = work[x].body
      BY <1>0, <1>1, <2>1 DEF AloneKnowsTheFile
    <3>2. \A y \in Actors : work'[y].body = Default
      BY <1>0, <1>1, <2>1 DEF AloneIsAlone, Rested
    <3>3. QED
      BY <1>1, <2>1, <3>1, <3>2, RestForm, ActorsAssumption DEF GoneEverywhere
  <2>2. CASE ~ (x \in alone /\ work[x].body.account = None)
    <3>1. \A a \in gone : Default.account # a
      BY <1>0, RestForm, ActorsAssumption DEF TypeOK
    <3>2. QED
      BY <1>0, <1>1, <2>2, <3>1 DEF GoneEverywhere
  <2>3. QED
    BY <2>1, <2>2
<1>8. KeeperAgrees'
  <2>1. \A y \in Actors : /\ work'[y].at \in {"write", "register"} <=> Writing(y)
                          /\ Writing(y) => work'[y] = work[y]
    BY <1>1 DEF Writing
  <2>2. QED
    BY <1>0, <1>1, <2>1 DEF KeeperAgrees, Writing
<1>9. QED
  BY <1>2, <1>3, <1>4, <1>5, <1>6, <1>7, <1>8 DEF IInv

\* Whoever breaks off between the file and the registry leaves the registry unkept.
LEMMA BreaksStep ==
  ASSUME IInv, NEW x \in Actors, Breaks(x)
  PROVE  IInv'
<1>0. /\ TypeOK /\ Rested /\ AloneIsAlone /\ UnreadableIsEmpty
      /\ AloneKnowsTheFile /\ GoneEverywhere /\ KeeperAgrees
  BY DEF IInv
<1>1. /\ work' \in [Actors -> Work]
      /\ work'[x].at = "idle" /\ work'[x].body = Default
      /\ \A y \in Actors \ {x} : work'[y] = work[y]
      /\ alone' = alone \ {x}
      /\ keeper' = IF work[x].at \in {"write", "register"} THEN "none" ELSE keeper
      /\ UNCHANGED <<program, state, text, registered, running, memory, gone>>
  BY <1>0, EndsForm DEF Breaks, file
<1>2. TypeOK'
  BY <1>0, <1>1, ActorKinds DEF TypeOK, Work, Stages, Busy
<1>3. Rested'
  BY <1>0, <1>1 DEF Rested
<1>4. AloneIsAlone'
  BY <1>0, <1>1 DEF AloneIsAlone
<1>5. UnreadableIsEmpty'
  BY <1>0, <1>1 DEF UnreadableIsEmpty
<1>6. AloneKnowsTheFile'
  BY <1>0, <1>1 DEF AloneKnowsTheFile, TypeOK, Busy
<1>7. GoneEverywhere'
  BY <1>0, <1>1, RestForm, ActorsAssumption DEF GoneEverywhere, TypeOK
<1>8. KeeperAgrees'
  <2> SUFFICES ASSUME keeper' # "none"
               PROVE  KeeperAgrees'
    BY DEF KeeperAgrees
  <2>1. keeper' = keeper /\ ~Writing(x)
    BY <1>1 DEF Writing
  <2>2. \A y \in Actors : /\ work'[y].at \in {"write", "register"} <=> Writing(y)
                          /\ Writing(y) => work'[y] = work[y]
    BY <1>1, <2>1 DEF Writing
  <2>3. QED
    BY <1>0, <1>1, <2>1, <2>2 DEF KeeperAgrees, Writing
<1>9. QED
  BY <1>2, <1>3, <1>4, <1>5, <1>6, <1>7, <1>8 DEF IInv

-------------------------------------------------------------------------------
(* The runtime. *)

LEMMA StartRuntimeStep ==
  ASSUME IInv, StartRuntime
  PROVE  IInv'
<1>0. /\ TypeOK /\ Rested /\ AloneIsAlone /\ UnreadableIsEmpty
      /\ AloneKnowsTheFile /\ GoneEverywhere /\ KeeperAgrees
  BY DEF IInv
<1>1. /\ running' = TRUE /\ memory' = text
      /\ UNCHANGED <<program, state, text, registered, work, alone, gone, keeper>>
  BY DEF StartRuntime, file
<1>2. TypeOK'
  BY <1>0, <1>1 DEF TypeOK, Busy
<1>7. GoneEverywhere'
  BY <1>0, <1>1 DEF GoneEverywhere
<1>8. (Rested /\ AloneIsAlone /\ UnreadableIsEmpty /\ AloneKnowsTheFile /\ KeeperAgrees)'
  BY <1>0, <1>1 DEF Rested, AloneIsAlone, UnreadableIsEmpty, AloneKnowsTheFile,
                    KeeperAgrees, Writing
<1>9. QED
  BY <1>2, <1>7, <1>8 DEF IInv

LEMMA StopRuntimeStep ==
  ASSUME IInv, StopRuntime
  PROVE  IInv'
<1>0. /\ TypeOK /\ Rested /\ AloneIsAlone /\ UnreadableIsEmpty
      /\ AloneKnowsTheFile /\ GoneEverywhere /\ KeeperAgrees
  BY DEF IInv
<1> DEFINE mine == Handlers \cup Items
<1>1. /\ work' \in [Actors -> Work]
      /\ \A y \in mine : work'[y].at = "idle" /\ work'[y].body = Default
      /\ \A y \in Actors \ mine : work'[y] = work[y]
      /\ alone' = alone \ mine
      /\ keeper' = IF \E x \in mine : work[x].at \in {"write", "register"} THEN "none" ELSE keeper
      /\ memory' = Default /\ running' = FALSE
      /\ UNCHANGED <<program, state, text, registered, gone>>
  BY <1>0, RestForm, ActorKinds DEF TypeOK, StopRuntime, file, Work, Stages
<1>a. mine \subseteq Actors /\ mine \cap Commands = {}
  BY ActorKinds
<1> HIDE DEF mine
<1>2. TypeOK'
  <2>1. \A x \in Handlers \cup Items : work'[x].at = "idle"
    BY <1>1 DEF mine
  <2>2. QED
    BY <1>0, <1>1, <1>a, <2>1, RestForm DEF TypeOK, Work, Stages, Busy, Actors
<1>3. Rested'
  BY <1>0, <1>1, <1>a DEF Rested
<1>4. AloneIsAlone'
  BY <1>0, <1>1, <1>a DEF AloneIsAlone
<1>5. UnreadableIsEmpty'
  BY <1>0, <1>1 DEF UnreadableIsEmpty
<1>6. AloneKnowsTheFile'
  BY <1>0, <1>1, <1>a DEF AloneKnowsTheFile, TypeOK, Busy
<1>7. GoneEverywhere'
  <2>1. \A a \in gone : Default.account # a
    BY <1>0, RestForm, ActorsAssumption DEF TypeOK
  <2>2. QED
    BY <1>0, <1>1, <1>a, <2>1 DEF GoneEverywhere
<1>8. KeeperAgrees'
  <2> SUFFICES ASSUME keeper' # "none"
               PROVE  KeeperAgrees'
    BY DEF KeeperAgrees
  <2>1. keeper' = keeper /\ \A y \in mine : ~Writing(y)
    BY <1>1 DEF Writing
  <2>2. \A y \in Actors : /\ work'[y].at \in {"write", "register"} <=> Writing(y)
                          /\ Writing(y) => work'[y] = work[y]
    BY <1>1, <1>a, <2>1 DEF Writing
  <2>3. QED
    BY <1>0, <1>1, <2>1, <2>2 DEF KeeperAgrees, Writing
<1>9. QED
  BY <1>2, <1>3, <1>4, <1>5, <1>6, <1>7, <1>8 DEF IInv

-------------------------------------------------------------------------------
(* The invariant and what follows from it. *)

LEMMA IInvInitially == Init => IInv
<1> SUFFICES ASSUME Init
             PROVE  IInv
  OBVIOUS
<1>1. TypeOK
  BY RestForm, ActorKinds DEF Init, TypeOK, Idle, Busy
<1>2. Rested /\ AloneIsAlone /\ UnreadableIsEmpty /\ AloneKnowsTheFile
  BY RestForm DEF Init, Rested, AloneIsAlone, UnreadableIsEmpty, AloneKnowsTheFile
<1>3. GoneEverywhere /\ KeeperAgrees
  BY DEF Init, GoneEverywhere, KeeperAgrees
<1>4. QED
  BY <1>1, <1>2, <1>3 DEF IInv

LEMMA IInvPreserved == IInv /\ [Next]_vars => IInv'
<1> SUFFICES ASSUME IInv, [Next]_vars
             PROVE  IInv'
  OBVIOUS
<1>1. CASE \E x \in Handlers \cup Commands : Login(x) \/ Leave(x)
  BY <1>1, LoginStep, LeaveStep
<1>2. CASE \E x \in Commands : ChangeByCommand(x)
  BY <1>2, ChangeByCommandStep
<1>3. CASE \E x \in Handlers : Post(x)
  BY <1>3, PostStep
<1>4. CASE \E item \in Items : Click(item)
  BY <1>4, ClickStep
<1>5. CASE \E x \in Actors : \/ Compare(x) \/ Truncate(x) \/ Write(x) \/ Register(x)
                              \/ Remember(x) \/ Breaks(x)
  BY <1>5, CompareStep, TruncateStep, WriteStep, RegisterStep, RememberStep, BreaksStep
<1>6. CASE StartRuntime \/ StopRuntime
  BY <1>6, StartRuntimeStep, StopRuntimeStep
<1>7. CASE UNCHANGED vars
  BY <1>7 DEF vars, file, IInv, TypeOK, Busy, Rested, AloneIsAlone, UnreadableIsEmpty,
              AloneKnowsTheFile, GoneEverywhere, KeeperAgrees, Writing
<1>8. QED
  BY <1>1, <1>2, <1>3, <1>4, <1>5, <1>6, <1>7 DEF Next

\* The inductive invariant holds in every state.
THEOREM Invariance == Spec => []IInv
<1>1. QED
  BY IInvInitially, IInvPreserved, PTL DEF Spec

\* The state keeps its types; only a running runtime has updates of its own.
THEOREM TypeCorrect == Spec => []TypeOK
<1>1. IInv => TypeOK
  BY DEF IInv
<1>2. QED
  BY <1>1, Invariance, PTL

\* A logout through the runtime that overlapped no other update is undone neither by
\* the menu nor by a restart nor by an update that breaks off.
THEOREM LogoutsStick == Spec => []LogoutSticks
<1>1. IInv => LogoutSticks
  BY DEF IInv, GoneEverywhere, LogoutSticks
<1>2. QED
  BY <1>1, Invariance, PTL

\* What Windows starts is what the file says, until updates overlap or break off.
THEOREM RegistrationIsRight == Spec => []RegistrationFollowsTheFile
<1>1. ASSUME IInv
      PROVE  RegistrationFollowsTheFile
  <2> SUFFICES ASSUME keeper # "none", state = "whole",
                      \A x \in Actors : work[x].at # "register"
               PROVE  keeper \in registered <=> text.startup
    BY DEF RegistrationFollowsTheFile
  <2>1. \A x \in Actors : ~Writing(x)
    BY <1>1 DEF IInv, KeeperAgrees, Writing
  <2>2. QED
    BY <1>1, <2>1 DEF IInv, KeeperAgrees
<1>2. QED
  BY <1>1, Invariance, PTL
================================================================================
