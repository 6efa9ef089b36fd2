------------------------------- MODULE LocalQueue -------------------------------
(***************************************************************************)
(* The file in which the agent keeps the approval events it could not      *)
(* report (src/agent/internal/localqueue/queue.go), and the processes that *)
(* use it (src/agent/cmd/agent/main.go): "agent run" reports the event of  *)
(* its CLI and queues it when that fails; every run and every "agent       *)
(* connect" that reaches the server reports what the file holds.  Several  *)
(* run at once, one for each CLI, and there is no lock.                    *)
(*                                                                         *)
(* The file is the set of the events on its readable lines: a flush may    *)
(* take them in any order.  A process opens, reads, writes and renames in  *)
(* separate steps, and may end between any two of them; a file it has open *)
(* follows a rename, and is lost with a removal.  No two events share an   *)
(* identifier or an idempotency key, which names the session, new in each  *)
(* run.                                                                    *)
(***************************************************************************)
EXTENDS Naturals, FiniteSets

CONSTANTS
  Processes,  \* agent processes of one user
  Events,     \* approval events
  DiskFills   \* whether a write may fail after a part of its line

ASSUME QueueAssumption == DiskFills \in BOOLEAN

VARIABLES
  proc,       \* what each process does
  handle,     \* the file each process has open for writing
  fresh,      \* the events no CLI has raised yet
  file,       \* the events on the queue file's readable lines
  torn,       \* whether it ends in a line that was cut short
  tmp,        \* the rewritten file: << >>, or <<its events, whether it is torn>>
  server,     \* the events the server has received
  enqueued,   \* (history) the events EnqueueApproval returned no error for
  endangered, \* (history) the events a torn line or an overlap put at risk
  removed,    \* (history) the events that undisturbed rewritings removed
  apart       \* (history) the processes whose work no other's rewriting overlapped

store == <<file, torn, tmp>>
history == <<enqueued, endangered, removed, apart>>
vars == <<proc, handle, fresh, store, server, history>>

\* A process: where it stands, the event it is about, the rest of the list it
\* flushes, and the events it keeps while it rewrites the file.
At(stage, event, items, kept) ==
  [stage |-> stage, event |-> event, items |-> items, kept |-> kept]

Off == At("off", {}, {}, {})

Running(p) == proc[p].stage # "off"

\* From the reading of the file to its replacement.
Rewriting(p) == proc[p].stage \in {"opening", "writing", "replacing"}
Rewriters == {p \in Processes : Rewriting(p)}

Init ==
  /\ proc = [p \in Processes |-> Off]
  /\ handle = [p \in Processes |-> "none"]
  /\ fresh = Events
  /\ file = {} /\ torn = FALSE /\ tmp = << >>
  /\ server = {}
  /\ enqueued = {} /\ endangered = {} /\ removed = {} /\ apart = {}

Becomes(p, x) == proc' = [proc EXCEPT ![p] = x]

\* The process leaves the files.
Leaves(p, x) ==
  /\ Becomes(p, x)
  /\ handle' = [handle EXCEPT ![p] = "none"] /\ apart' = apart \ {p}

--------------------------------------------------------------------------------
(* agent run: report an event, or queue it. *)

\* The CLI of a new run shows its prompt.
Raise(p, e) ==
  /\ ~Running(p) /\ e \in fresh
  /\ fresh' = fresh \ {e}
  /\ Becomes(p, At("posting", {e}, {}, {}))
  /\ UNCHANGED <<handle, store, server, history>>

\* The server has it: the run connects, which flushes the queue.
PostRaised(p) ==
  /\ proc[p].stage = "posting"
  /\ server' = server \cup proc[p].event
  /\ Becomes(p, At("connecting", {}, {}, {}))
  /\ UNCHANGED <<handle, fresh, store, history>>

\* No answer, or a refusal.  The server may have received the event.
PostRaisedFails(p) ==
  /\ proc[p].stage = "posting"
  /\ server' \in {server, server \cup proc[p].event}
  /\ Becomes(p, At("queueing", proc[p].event, {}, {}))
  /\ UNCHANGED <<handle, fresh, store, history>>

\* EnqueueApproval opens the file for appending,
OpenQueue(p) ==
  /\ proc[p].stage = "queueing"
  /\ Becomes(p, At("appending", proc[p].event, {}, {}))
  /\ handle' = [handle EXCEPT ![p] = "queue"]
  /\ apart' = IF Rewriters = {} THEN apart \cup {p} ELSE apart
  /\ UNCHANGED <<fresh, store, server, enqueued, endangered, removed>>

\* What an append adds to the readable lines of the queue.  Behind a line cut short
\* the event becomes part of that line, which nobody can read; a file that was
\* replaced since it was opened is nobody's any more.
Appended(p) == IF torn \/ handle[p] # "queue" THEN {} ELSE proc[p].event

\* and writes a line to it, whatever became of the file: the run ends.
EnqueueApproval(p) ==
  /\ proc[p].stage = "appending"
  /\ file' = file \cup Appended(p) /\ torn' = (torn /\ handle[p] # "queue")
  /\ enqueued' = enqueued \cup proc[p].event
  /\ endangered' = IF torn \/ p \notin apart THEN endangered \cup proc[p].event ELSE endangered
  /\ Leaves(p, Off)
  /\ UNCHANGED <<fresh, tmp, server, removed>>

\* The disk is full: the write returns an error after a part of the line, and the
\* run fails.
EnqueueFails(p) ==
  /\ DiskFills /\ proc[p].stage = "appending"
  /\ torn' = (torn \/ handle[p] = "queue")
  /\ Leaves(p, Off)
  /\ UNCHANGED <<fresh, file, tmp, server, enqueued, endangered, removed>>

--------------------------------------------------------------------------------
(* agent connect: report what the file holds. *)

Connect(p) ==
  /\ ~Running(p)
  /\ Becomes(p, At("connecting", {}, {}, {}))
  /\ UNCHANGED <<handle, fresh, store, server, history>>

\* flushQueuedApprovals lists the file once.
ListApprovals(p) ==
  /\ proc[p].stage = "connecting"
  /\ Becomes(p, At("flushing", {}, file, {}))
  /\ UNCHANGED <<handle, fresh, store, server, history>>

PostQueued(p, e) ==
  /\ proc[p].stage = "flushing" /\ e \in proc[p].items
  /\ server' = server \cup {e}
  /\ Becomes(p, At("removing", {e}, proc[p].items \ {e}, {}))
  /\ UNCHANGED <<handle, fresh, store, history>>

\* Variant: a refused event is removed like one that was received.
AfterFailedPostGoesOn(p, e) == At("removing", {e}, proc[p].items \ {e}, {})

\* The first failure ends the flush.
AfterFailedPost(p, e) == Off

PostQueuedFails(p, e) ==
  /\ proc[p].stage = "flushing" /\ e \in proc[p].items
  /\ server' \in {server, server \cup {e}}
  /\ Becomes(p, AfterFailedPost(p, e))
  /\ UNCHANGED <<handle, fresh, store, history>>

\* Variant: the list of the flush is written back, not the file's.
KeptFromList(p) == proc[p].items \ proc[p].event

\* RemoveApproval lists the file again, for what is to be kept:
Kept(p) == file \ proc[p].event

\* a rewriting that another overlaps puts at risk whatever was queued.
RemoveRead(p) ==
  /\ proc[p].stage = "removing"
  /\ Becomes(p, At("opening", proc[p].event, proc[p].items, Kept(p)))
  /\ apart' = IF Rewriters = {} THEN {p} ELSE {}
  /\ endangered' = IF Rewriters = {} THEN endangered ELSE endangered \cup enqueued
  /\ UNCHANGED <<handle, fresh, store, server, enqueued, removed>>

\* A file of one name for all is created next to it, or emptied:
OpenTmp(p) ==
  /\ proc[p].stage = "opening"
  /\ tmp' = <<{}, FALSE>>
  /\ Becomes(p, At("writing", proc[p].event, proc[p].items, proc[p].kept))
  /\ handle' = [handle EXCEPT ![p] = "tmp"]
  /\ UNCHANGED <<fresh, file, torn, server, history>>

\* The lines of two processes that write to one file cover and cut each other, and so
\* do those of one that broke off before.
Shared(p) == \E q \in Processes \ {p} : proc[q].stage \in {"writing", "replacing"}
Mixed(p, before) == (SUBSET (before[1] \cup proc[p].kept)) \X BOOLEAN
Written(p, before) ==
  IF before = <<{}, FALSE>> /\ ~Shared(p) THEN {<<proc[p].kept, FALSE>>} ELSE Mixed(p, before)

\* what is kept is written to it, under whatever name the file has by now:
WriteTmp(p) ==
  /\ proc[p].stage = "writing"
  /\ \/ /\ handle[p] = "tmp" /\ tmp' \in Written(p, tmp)
        /\ UNCHANGED <<file, torn>>
     \/ /\ handle[p] = "queue" /\ UNCHANGED tmp
        /\ \E w \in Written(p, <<file, torn>>) : file' = w[1] /\ torn' = w[2]
     \/ handle[p] = "none" /\ UNCHANGED store
  /\ Becomes(p, At("replacing", proc[p].event, proc[p].items, proc[p].kept))
  /\ handle' = [handle EXCEPT ![p] = "none"]
  /\ UNCHANGED <<fresh, server, history>>

\* A write fails, or the process ends, before the last line is written.
WriteBreaks(p) ==
  /\ proc[p].stage = "writing"
  /\ \/ /\ handle[p] = "tmp" /\ tmp' \in Mixed(p, tmp)
        /\ UNCHANGED <<file, torn>>
     \/ /\ handle[p] = "queue" /\ UNCHANGED tmp
        /\ \E w \in Mixed(p, <<file, torn>>) : file' = w[1] /\ torn' = w[2]
  /\ Leaves(p, Off)
  /\ UNCHANGED <<fresh, server, enqueued, endangered, removed>>

\* What becomes of the files the others have open.
Moved(queue, rewritten) ==
  [q \in Processes |-> CASE handle[q] = "queue" -> queue
                         [] handle[q] = "tmp" -> rewritten
                         [] OTHER -> "none"]

Removes(p) ==
  /\ apart' = apart \ {p}
  /\ removed' = IF p \in apart THEN removed \cup proc[p].event ELSE removed
  /\ UNCHANGED <<enqueued, endangered>>

\* and the new file takes the place of the old one.
Replace(p) ==
  /\ proc[p].stage = "replacing" /\ proc[p].kept # {} /\ tmp # << >>
  /\ file' = tmp[1] /\ torn' = tmp[2] /\ tmp' = << >>
  /\ handle' = Moved("none", "queue")
  /\ Becomes(p, At("flushing", {}, proc[p].items, {}))
  /\ Removes(p)
  /\ UNCHANGED <<fresh, server>>

\* With nothing to keep, both files are removed.  An error of the first removal is
\* ignored, one of the second, for want of a file, ends the flush.
RemoveBoth(p) ==
  /\ proc[p].stage = "replacing" /\ proc[p].kept = {}
  /\ tmp' = << >>
  /\ \/ /\ file' = {} /\ torn' = FALSE /\ handle' = Moved("none", "none") /\ Removes(p)
     \/ /\ handle' = Moved("queue", "none") /\ apart' = apart \ {p}
        /\ UNCHANGED <<file, torn, enqueued, endangered, removed>>
  /\ Becomes(p, IF tmp = << >> THEN Off ELSE At("flushing", {}, proc[p].items, {}))
  /\ UNCHANGED <<fresh, server>>

\* Every event of the list was received and removed.
FlushDone(p) ==
  /\ proc[p].stage = "flushing" /\ proc[p].items = {}
  /\ Becomes(p, Off)
  /\ UNCHANGED <<handle, fresh, store, server, history>>

\* The process ends, or an error makes it leave the queue, wherever it is.
Stop(p) ==
  /\ Running(p)
  /\ Leaves(p, Off)
  /\ UNCHANGED <<fresh, store, server, enqueued, endangered, removed>>

--------------------------------------------------------------------------------

RunNext(p) ==
  \/ \E e \in Events : Raise(p, e)
  \/ PostRaised(p) \/ PostRaisedFails(p)
  \/ OpenQueue(p) \/ EnqueueApproval(p) \/ EnqueueFails(p)

FlushNext(p) ==
  \/ Connect(p) \/ ListApprovals(p)
  \/ \E e \in Events : PostQueued(p, e) \/ PostQueuedFails(p, e)
  \/ RemoveRead(p) \/ OpenTmp(p) \/ WriteTmp(p) \/ WriteBreaks(p)
  \/ Replace(p) \/ RemoveBoth(p)
  \/ FlushDone(p)

Next == \E p \in Processes : RunNext(p) \/ FlushNext(p) \/ Stop(p)

Spec == Init /\ [][Next]_vars

--------------------------------------------------------------------------------
(* Properties. *)

Stages == {"off", "posting", "queueing", "appending", "connecting", "flushing", "removing",
           "opening", "writing", "replacing"}

Process == [stage: Stages, event: SUBSET Events, items: SUBSET Events, kept: SUBSET Events]

\* The shape of the state; an event not raised yet is nowhere.
TypeOK ==
  /\ proc \in [Processes -> Process]
  /\ handle \in [Processes -> {"none", "queue", "tmp"}]
  /\ fresh \subseteq Events
  /\ file \subseteq Events /\ torn \in BOOLEAN
  /\ tmp \in {<< >>} \cup ((SUBSET Events) \X BOOLEAN)
  /\ server \subseteq Events /\ enqueued \subseteq Events
  /\ endangered \subseteq enqueued /\ removed \subseteq Events
  /\ apart \subseteq {p \in Processes : Rewriting(p) \/ proc[p].stage = "appending"}
  /\ fresh \cap (file \cup server \cup enqueued \cup removed) = {}

\* docs/08-security-reliability.md:102: the agent must keep the approval events that
\* were not reported.  The code does not: TLC refutes it, for two processes on a disk
\* with room as for one on a disk that fills up.
EventsAreKept == enqueued \subseteq file \cup server

\* What the code does keep: whichever processes append, report and rewrite at once, and
\* wherever they end, an event is lost only if it was appended behind a torn line
\* or while another process rewrote the file, or was in the queue when two
\* processes rewrote the file at the same time.
QueuedIsKept == enqueued \ endangered \subseteq file \cup server

\* An event that a rewriting removed, while no other rewrote the file, does not come
\* back from any process's copy to be reported again.
RemovedStaysOut == file \cap removed = {}
================================================================================
