----------------------------- MODULE AIToolHistory -----------------------------
(***************************************************************************)
(* The files of the AI tools and what the tray does with them: the monitor *)
(* that watches them for requests (src/agent/cmd/agent/ai_tool_monitor.go) *)
(* and the deletion of a session (ai_tool_history.go).  A tool, codex or   *)
(* claude, appends lines to its history and keeps a file for each session. *)
(* Every two seconds the monitor reads what has been appended since its    *)
(* last look, to claude's history or to the session files of codex, and    *)
(* shows each request in a box that blocks it.  A deletion reads the       *)
(* history, copies it to the trash, rewrites it without the session's      *)
(* lines and moves the session's file to the trash.  The tool, the monitor *)
(* and the deletions know nothing of each other, and any of them may fail. *)
(*                                                                         *)
(* A line is as long as any other: its two halves measure the files.  One  *)
(* file belongs to each session, and a tool has ended a session whose file *)
(* was moved.                                                              *)
(***************************************************************************)
EXTENDS Integers, Sequences, FiniteSets, SequencesExt

CONSTANTS
  Sessions,  \* sessions of the tool
  Handlers,  \* goroutines of the tray's HTTP server that delete
  Tools,     \* the kinds of tool considered
  MaxLines,  \* bound on the lines the tool writes
  LastSecond \* bound on the clock

History == "history"

ASSUME ToolsAssumption ==
  /\ Tools \subseteq {"codex", "claude"} /\ MaxLines \in Nat
  /\ LastSecond \in Nat \ {0}
  /\ History \notin Sessions

VARIABLES
  tool,     \* the tool's kind
  content,  \* each file's lines
  half,     \* the files that end in the first half of a line
  moved,    \* the sessions whose file is in the trash
  backups,  \* the lines in the history's copy in the trash, for each second
  now,      \* the second
  written,  \* how many lines the tool has written
  offset,   \* the monitor's offsets; Unseen for a file it has none for
  scan,     \* what the monitor is doing
  del,      \* what each handler is doing
  life,     \* (history) of this run of the tray
  past      \* (history) of the deletions

disk == <<tool, content, half, moved, backups, now, written>>
monitor == <<offset, scan>>
toolsVars == <<disk, monitor, del, life, past>>

Files == Sessions \cup {History}
Unseen == -1
Line == [n : 1..MaxLines, session : Sessions, asks : BOOLEAN, whole : BOOLEAN]

Watched == IF tool = "codex" THEN Sessions ELSE {History}
Exists(f) == content[f] # <<>> /\ f \notin moved
Size(f) == 2 * Len(content[f]) - (IF f \in half THEN 1 ELSE 0)
Numbers(lines) == {l.n : l \in Range(lines)}

\* The lines of the other sessions, in their order.
WithoutSession(lines, s) ==
  LET others == {i \in DOMAIN lines : lines[i].session # s}
      Place(i) == Cardinality({j \in others : j <= i})
  IN  [k \in 1..Cardinality(others) |-> lines[CHOOSE i \in others : Place(i) = k]]

Resting == [at |-> "rest", baseline |-> FALSE, todo |-> {}, file |-> History, from |-> 0,
            events |-> {}]
NoDeletion == [at |-> "none", session |-> "none", body |-> <<>>, apart |-> FALSE, since |-> 1]

\* The lines older than the baseline, those shown or lost with a walk or a reading
\* that failed, and the files rewritten meanwhile.
Life == [base |-> {}, shown |-> {}, lost |-> {}, rewritten |-> {}]

\* A run of the tray starts with a baseline, if the notifications are on.
Starting == [Resting EXCEPT !.at = "start"]
NoOffsets == [f \in Files |-> Unseen]
NoDeletions == [d \in Handlers |-> NoDeletion]

ToolsInit ==
  /\ tool \in Tools
  /\ content = [f \in Files |-> <<>>] /\ half = {} /\ moved = {}
  /\ backups = [t \in 1..LastSecond |-> {}] /\ now = 1 /\ written = 0
  /\ offset = NoOffsets /\ scan = Starting
  /\ del = NoDeletions /\ life = Life
  /\ past = [exposed |-> {}, overwritten |-> {}, deleted |-> {}]

-------------------------------------------------------------------------------
(* The tool. *)

\* While a deletion is between its copy and its rewriting, what is appended to the
\* history is at its mercy.
Exposing == \E d \in Handlers : del[d].at \in {"truncate", "write"}

Appends(f, l) ==
  /\ written < MaxLines /\ f \notin half \cup moved
  /\ l.asks => f \in Watched
  /\ content' = [content EXCEPT ![f] = Append(@, l)]
  /\ written' = written + 1
  /\ past' = [past EXCEPT !.exposed = IF f = History /\ Exposing THEN @ \cup {l.n} ELSE @,
                          !.deleted = @ \ {l.session}]
  /\ del' = [d \in Handlers |-> IF del[d].session = l.session
                                THEN [del[d] EXCEPT !.apart = FALSE] ELSE del[d]]

\* A line of the history or of a session's file, which for claude is one line.
WriteLine(f, s) ==
  /\ f \in {s, History} /\ (tool = "claude" /\ f = s => content[f] = <<>>)
  /\ \E asks \in BOOLEAN :
       Appends(f, [n |-> written + 1, session |-> s, asks |-> asks, whole |-> TRUE])
  /\ UNCHANGED <<tool, half, moved, backups, now, monitor, life>>

\* Codex may write a line in two pieces.
StartLine(s) ==
  /\ tool = "codex"
  /\ Appends(s, [n |-> written + 1, session |-> s, asks |-> TRUE, whole |-> FALSE])
  /\ half' = half \cup {s}
  /\ UNCHANGED <<tool, moved, backups, now, monitor, life>>

FinishLine(s) ==
  /\ s \in half /\ half' = half \ {s}
  /\ UNCHANGED <<tool, content, moved, backups, now, written, monitor, del, life, past>>

NextSecond ==
  /\ now < LastSecond /\ now' = now + 1
  /\ UNCHANGED <<tool, content, half, moved, backups, written, monitor, del, life, past>>

-------------------------------------------------------------------------------
(* The monitor. *)

\* A tick, the first of which takes the baseline; nothing is done with the
\* notifications off, which the user turns on and off as he likes.
Tick ==
  /\ scan.at \in {"start", "rest"}
  /\ \/ scan' = [Resting EXCEPT !.at = "list", !.baseline = scan.at = "start",
                                !.todo = {f \in Watched : Exists(f)}]
     \/ scan' = Resting
  /\ UNCHANGED <<disk, offset, del, life, past>>

\* Variant: a file without an offset is passed over, as in the baseline.
StatSkipsNew(f) ==
  LET from == IF offset[f] = Unseen THEN Size(f) ELSE IF Size(f) < offset[f] THEN 0 ELSE offset[f]
      on_to == [scan EXCEPT !.todo = @ \ {f}]
  IN  /\ scan.at = "list" /\ f \in scan.todo
      /\ offset' = [offset EXCEPT ![f] = Size(f)]
      /\ scan' = IF scan.baseline \/ Size(f) = from THEN on_to
                 ELSE [on_to EXCEPT !.at = "read", !.file = f, !.from = from]
      /\ life' = IF scan.baseline THEN [life EXCEPT !.base = @ \cup Numbers(content[f])] ELSE life
      /\ UNCHANGED <<disk, del, past>>

\* The size is noted before the file is read, from the offset noted last time or, if
\* the file is new or has become shorter, from its start.  A file that cannot be looked
\* at, for one because it was moved, is passed over.
Stat(f) ==
  LET from == IF offset[f] = Unseen \/ Size(f) < offset[f] THEN 0 ELSE offset[f]
      on_to == [scan EXCEPT !.todo = @ \ {f}]
  IN  /\ scan.at = "list" /\ f \in scan.todo
      /\ \/ scan' = on_to /\ UNCHANGED <<offset, life>>
         \/ /\ f \notin moved /\ offset' = [offset EXCEPT ![f] = Size(f)]
            /\ IF scan.baseline
               THEN /\ scan' = on_to
                    /\ life' = [life EXCEPT !.base = @ \cup Numbers(content[f])]
               ELSE /\ scan' = IF Size(f) = from THEN on_to
                               ELSE [on_to EXCEPT !.at = "read", !.file = f, !.from = from]
                    /\ UNCHANGED life
      /\ UNCHANGED <<disk, del, past>>

\* To the end of the file; what remains of a line, or is only begun, is no request.
Read ==
  LET f == scan.file
      complete == Len(content[f]) - (IF f \in half THEN 1 ELSE 0)
      found == {i \in 1..complete : 2 * (i - 1) >= scan.from /\ content[f][i].asks}
  IN  /\ scan.at = "read"
      /\ scan' = [scan EXCEPT !.at = "list", !.file = History, !.from = 0,
                              !.events = IF f \in moved THEN @ ELSE @ \cup {content[f][i] : i \in found}]
      /\ UNCHANGED <<disk, offset, del, life, past>>

\* The file cannot be opened, or read to its end: what was behind the offset noted by
\* now is never read again.
ReadFails ==
  LET f == scan.file
      passed == {i \in DOMAIN content[f] : 2 * (i - 1) >= scan.from /\ 2 * (i - 1) < offset[f]}
  IN  /\ scan.at = "read"
      /\ scan' = [scan EXCEPT !.at = "list", !.file = History, !.from = 0]
      /\ life' = [life EXCEPT !.lost = @ \cup {content[f][i].n : i \in passed}]
      /\ UNCHANGED <<disk, offset, del, past>>

\* A directory that cannot be read ends the walk, and its events are dropped.
WalkFails ==
  /\ tool = "codex" /\ scan.at = "list"
  /\ scan' = Resting
  /\ life' = [life EXCEPT !.lost = @ \cup {l.n : l \in scan.events}]
  /\ UNCHANGED <<disk, offset, del, past>>

\* All files done, the events are shown, each until the user closes its box; one
\* worded like a box of the last 30 seconds counts as shown.
Notify ==
  /\ scan.at = "list" /\ scan.todo = {}
  /\ \/ scan.events = {} /\ scan' = Resting /\ UNCHANGED life
     \/ \E l \in scan.events :
          /\ scan' = [scan EXCEPT !.events = @ \ {l}]
          /\ life' = [life EXCEPT !.shown = @ \cup {l.n}]
  /\ UNCHANGED <<disk, offset, del, past>>

-------------------------------------------------------------------------------
(* The deletion of a session. *)

Put(d, rec) == del' = [del EXCEPT ![d] = rec]
Goes(d, at) == Put(d, [del[d] EXCEPT !.at = at])
Fails(d) == Put(d, NoDeletion) /\ UNCHANGED <<disk, monitor, life, past>>

\* The history is read; a history without lines of the session is left alone.  Two
\* deletions that overlap are not apart.
ReadHistory(d, s) ==
  LET mine == \E l \in Range(content[History]) : l.session = s
      others == {e \in Handlers : del[e].at # "none"}
  IN  /\ del[d].at = "none"
      /\ del' = [e \in Handlers |->
                   IF e = d THEN [at |-> IF mine THEN "copy" ELSE "move", session |-> s,
                                  body |-> IF mine THEN content[History] ELSE <<>>,
                                  apart |-> others = {}, since |-> IF mine THEN now ELSE 1]
                   ELSE [del[e] EXCEPT !.apart = FALSE]]
      /\ UNCHANGED <<disk, monitor, life, past>>

\* A copy is named for the second, and replaces another of the same name.
Backup(d, lines, at) ==
  /\ del[d].at = "copy"
  /\ \E t \in del[d].since..now :
       /\ backups' = [backups EXCEPT ![t] = lines]
       /\ past' = [past EXCEPT !.overwritten = @ \cup (backups[t] \ lines)]
  /\ Put(d, IF at = "none" THEN NoDeletion ELSE [del[d] EXCEPT !.at = at, !.since = 1])
  /\ UNCHANGED <<tool, content, half, moved, now, written, monitor, life>>

\* Variant: what was read first goes to the trash.
CopyWhatWasRead(d) == Backup(d, Numbers(del[d].body), "truncate")

\* The history is read again, and goes to the trash.
CopyHistory(d) == Backup(d, Numbers(content[History]), "truncate")

\* The copy breaks off when the file for it is open, and with it the deletion.
CopyFails(d) == Backup(d, {}, "none")

Truncate(d) ==
  /\ del[d].at = "truncate"
  /\ content' = [content EXCEPT ![History] = <<>>]
  /\ life' = [life EXCEPT !.rewritten = @ \cup {History}]
  /\ Goes(d, "write")
  /\ UNCHANGED <<tool, half, moved, backups, now, written, monitor, past>>

\* Variant: the kept lines are appended.
WriteKeptAppends(d) ==
  /\ del[d].at = "write"
  /\ content' = [content EXCEPT ![History] =
                   @ \o WithoutSession(del[d].body, del[d].session)]
  /\ Put(d, [del[d] EXCEPT !.at = "move", !.body = <<>>])
  /\ UNCHANGED <<tool, half, moved, backups, now, written, monitor, life, past>>

\* The other lines that were there when the history was read, over whatever is there.
WriteKept(d) ==
  /\ del[d].at = "write"
  /\ content' = [content EXCEPT ![History] = WithoutSession(del[d].body, del[d].session)]
  /\ Put(d, [del[d] EXCEPT !.at = "move", !.body = <<>>])
  /\ UNCHANGED <<tool, half, moved, backups, now, written, monitor, life, past>>

\* The deletion ends without an error.
Ends(d) ==
  /\ del[d].at = "move"
  /\ past' = IF del[d].apart THEN [past EXCEPT !.deleted = @ \cup {del[d].session}] ELSE past
  /\ Put(d, NoDeletion)
  /\ UNCHANGED <<tool, content, half, backups, now, written, monitor, life>>

\* The session's file is looked for and moved.
MoveFile(d) == Ends(d) /\ moved' = moved \cup {s \in {del[d].session} : Exists(s)}

\* The session's file stays where it is: the agent leaves out one of claude's that it
\* cannot read, the desktop all of claude's, and codex's when the sessions cannot be listed.
LeaveFile(d) == Ends(d) /\ UNCHANGED moved

\* An error ends the deletion where it is; so does a tray that quits.
DeletionFails(d) == del[d].at # "none" /\ Fails(d)

Restart ==
  /\ offset' = NoOffsets /\ scan' = Starting
  /\ del' = NoDeletions /\ life' = Life
  /\ UNCHANGED <<disk, past>>

Writing ==
  \E s \in Sessions : (\E f \in Files : WriteLine(f, s)) \/ StartLine(s) \/ FinishLine(s)

Monitoring == Tick \/ (\E f \in Files : Stat(f)) \/ Read \/ ReadFails \/ WalkFails \/ Notify

Deleting ==
  \E d \in Handlers :
    \/ \E s \in Sessions : ReadHistory(d, s)
    \/ CopyHistory(d) \/ CopyFails(d) \/ Truncate(d) \/ WriteKept(d)
    \/ MoveFile(d) \/ LeaveFile(d) \/ DeletionFails(d)

ToolsNext == Writing \/ Monitoring \/ Deleting \/ NextSecond \/ Restart

ToolsSpec == ToolsInit /\ [][ToolsNext]_toolsVars

-------------------------------------------------------------------------------
(* Properties. *)

\* The types.  No line is numbered twice in a file, a file that ends in half a line
\* is a session's, and what is being read has a place in the file's past.
ToolsTypeOK ==
  /\ tool \in Tools /\ written \in 0..MaxLines
  /\ half \subseteq {s \in Sessions : content[s] # <<>>} /\ moved \subseteq Sessions
  /\ \A f \in Files : /\ content[f] \in Seq(Line)
                      /\ Cardinality(Numbers(content[f])) = Len(content[f])
                      /\ offset[f] \in Unseen..(2 * MaxLines)
  /\ now \in 1..LastSecond /\ backups \in [1..LastSecond -> SUBSET (1..written)]
  /\ scan.at \in {"start", "rest", "list", "read"}
  /\ scan.todo \subseteq Watched /\ scan.from \in 0..(2 * MaxLines)
  /\ \A l \in scan.events : l \in Line /\ l.asks
  /\ \A d \in Handlers : del[d].at \in {"none", "copy", "truncate", "write", "move"}

\* A request that the tool writes in one go to a file nobody rewrites or moves is
\* shown or awaits its turn, lies ahead of what the monitor has read, or went with a
\* walk or a reading that failed after its offset was noted: no order of appends,
\* sizes noted and reads skips it.  And what the baseline passed over stays quiet.
RequestsAreNoticed ==
  \A f \in Watched \ (life.rewritten \cup moved) :
    LET reading == scan.at = "read" /\ scan.file = f
        news == life.shown \cup {l.n : l \in scan.events}
        Ahead(i) == 2 * (i - 1) >= offset[f] \/ (reading /\ 2 * (i - 1) >= scan.from)
    IN  \A i \in DOMAIN content[f] :
          LET l == content[f][i]
          IN  /\ l.asks /\ l.whole => l.n \in life.base \cup news \cup life.lost \/ Ahead(i)
              /\ l.n \in life.base => l.n \notin news

Found == UNION ({Numbers(content[f]) : f \in Files} \cup {backups[t] : t \in 1..LastSecond})

\* src/agent/desktop/frontend/src/App.tsx:342 tells the user that the history is
\* backed up before a deletion: a line the history ever held is in it or in a backup,
\* unless it was appended between a copy and the end of the rewriting.  The code does
\* not keep that either: two deletions in one second, and TLC refutes it.
HistoryIsBackedUp == 1..written \subseteq Found \cup past.exposed

\* What the code does keep: nothing else is lost but what was in a copy that another of
\* the same second replaced.  And a session whose deletion ended, with no
\* other at work meanwhile, has no line in the history until the tool writes one again.
DeletionIsAMove ==
  /\ 1..written \subseteq Found \cup past.exposed \cup past.overwritten
  /\ \A s \in past.deleted : \A l \in Range(content[History]) : l.session # s
================================================================================
