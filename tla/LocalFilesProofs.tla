---------------------------- MODULE LocalFilesProofs ----------------------------
(***************************************************************************)
(* Theorems about the two files of the user's disk that several programs   *)
(* rewrite: the agent's queue (LocalQueue) and the history of an AI tool   *)
(* (AIToolHistory).                                                        *)
(*                                                                         *)
(* The queue, for any number of processes and events, however they         *)
(* overlap.  A rewriting that no other overlapped owns the file it puts in *)
(* the queue's place, and holds all that is neither at risk nor received;  *)
(* one that another overlapped has put all that is queued at risk.  An     *)
(* event on its way to the queue is nowhere else, so what a rewriting      *)
(* removed is in no copy that is still to be written.                      *)
(*                                                                         *)
(* The history, for any number of sessions, of deletions at work, of lines *)
(* and of seconds.  The invariant follows each line by its number: no two  *)
(* files have a line in common, a deletion between its copy and its        *)
(* rewriting finds every line of the history in the trash or replaced      *)
(* there, and a line behind the monitor's offset is in the news or was     *)
(* lost with a walk or a reading that failed.                              *)
(***************************************************************************)
EXTENDS LocalQueue, AIToolHistory, FiniteSetTheorems, TLAPS

--------------------------------------------------------------------------------
(* The queue of the agent: the shape of its state. *)

\* What a process holds of the events, and what the rewritten file does.
Held(x) == x.event \cup x.items \cup x.kept
Rewritten == IF tmp = << >> THEN {} ELSE tmp[1]

\* No process, and no rewritten file, holds an event that was not raised.
NotFresh == (\A p \in Processes : Held(proc[p]) \cap fresh = {}) /\ Rewritten \cap fresh = {}

\* Who has the rewritten file open finds one.
OpenExists == \A p \in Processes : handle[p] = "tmp" => tmp # << >>

TInv == TypeOK /\ NotFresh /\ OpenExists

\* What the disk and the history may be.
Stored ==
  /\ file \subseteq Events /\ torn \in BOOLEAN
  /\ tmp \in {<< >>} \cup ((SUBSET Events) \X BOOLEAN)
  /\ server \subseteq Events /\ enqueued \subseteq Events
  /\ endangered \subseteq enqueued /\ removed \subseteq Events
  /\ fresh \cap (file \cup server \cup enqueued \cup removed) = {}
  /\ Rewritten \cap fresh = {}

\* An append, or a rewriting.
Busy(x) == x.stage \in {"appending", "opening", "writing", "replacing"}

Handled ==
  /\ handle \in [Processes -> {"none", "queue", "tmp"}]
  /\ apart \subseteq {p \in Processes : Busy(proc[p])}
  /\ OpenExists

LEMMA TypeParts ==
  TInv <=> /\ proc \in [Processes -> Process] /\ fresh \subseteq Events
           /\ \A p \in Processes : Held(proc[p]) \cap fresh = {}
           /\ Stored /\ Handled
BY DEF TInv, TypeOK, NotFresh, Stored, Handled, Busy, Rewriting, OpenExists

\* The parts make the whole, after a step too.
LEMMA TypeNext ==
  ASSUME proc' \in [Processes -> Process], fresh' \subseteq Events,
         \A p \in Processes : Held(proc'[p]) \cap fresh' = {}, Stored', Handled'
  PROVE  TInv'
BY DEF TInv, TypeOK, NotFresh, Stored, Handled, Busy, Rewriting, OpenExists

\* What a process holds are events that were raised.
LEMMA ProcForm ==
  ASSUME TInv, NEW p \in Processes
  PROVE  /\ proc[p].event \subseteq Events /\ proc[p].items \subseteq Events
         /\ proc[p].kept \subseteq Events
         /\ proc[p].event \cap fresh = {} /\ proc[p].items \cap fresh = {}
         /\ proc[p].kept \cap fresh = {}
<1>1. proc[p] \in Process
  BY DEF TInv, TypeOK
<1>2. Held(proc[p]) \cap fresh = {}
  BY DEF TInv, NotFresh
<1>3. QED
  BY <1>1, <1>2 DEF Process, Held

\* A process that goes on, with events that were raised.
LEMMA GoesOn ==
  ASSUME TInv, NEW p \in Processes, NEW s \in Stages, NEW e, NEW i, NEW k,
         e \subseteq Events, i \subseteq Events, k \subseteq Events,
         fresh' \subseteq fresh, (e \cup i \cup k) \cap fresh' = {},
         Becomes(p, At(s, e, i, k))
  PROVE  /\ proc' \in [Processes -> Process]
         /\ \A q \in Processes : Held(proc'[q]) \cap fresh' = {}
         /\ \A q \in Processes \ {p} : proc'[q] = proc[q]
         /\ proc'[p].stage = s /\ proc'[p].event = e /\ proc'[p].items = i /\ proc'[p].kept = k
         /\ Held(proc'[p]) = e \cup i \cup k
<1>1. PICK x : x = At(s, e, i, k)
  OBVIOUS
<1>2. /\ x \in Process /\ x.stage = s /\ x.event = e /\ x.items = i /\ x.kept = k
      /\ Held(x) = e \cup i \cup k
  BY <1>1 DEF At, Process, Held
<1>3. proc \in [Processes -> Process] /\ \A q \in Processes : Held(proc[q]) \cap fresh = {}
  BY DEF TInv, TypeOK, NotFresh
<1>4. proc' = [proc EXCEPT ![p] = x]
  BY <1>1 DEF Becomes
<1>5. /\ proc' \in [Processes -> Process] /\ proc'[p] = x
      /\ \A q \in Processes \ {p} : proc'[q] = proc[q]
  BY <1>2, <1>3, <1>4
<1>6. QED
  BY <1>2, <1>3, <1>5

\* The stages.
LEMMA StageForm ==
  /\ "off" \in Stages /\ "posting" \in Stages /\ "queueing" \in Stages /\ "appending" \in Stages
  /\ "connecting" \in Stages /\ "flushing" \in Stages /\ "removing" \in Stages
  /\ "opening" \in Stages /\ "writing" \in Stages /\ "replacing" \in Stages
BY DEF Stages

\* What the processes have open.
LEMMA HandledStep ==
  ASSUME TInv, NEW p \in Processes, \A q \in Processes \ {p} : proc'[q] = proc[q],
         handle' \in [Processes -> {"none", "queue", "tmp"}],
         apart' \subseteq apart \cup {p}, p \in apart' => Busy(proc'[p]), OpenExists'
  PROVE  Handled'
BY DEF TInv, TypeOK, Handled, Busy, Rewriting

\* One that goes on between the stages in which it has nothing open.
LEMMA HandledQuiet ==
  ASSUME TInv, NEW p \in Processes, \A q \in Processes \ {p} : proc'[q] = proc[q],
         ~ Busy(proc[p]), UNCHANGED <<handle, apart, tmp>>
  PROVE  Handled'
BY DEF TInv, TypeOK, Handled, Busy, Rewriting, OpenExists

\* One that leaves.
LEMMA LeavesForm ==
  ASSUME TInv, NEW p \in Processes, Leaves(p, Off)
  PROVE  /\ Becomes(p, At("off", {}, {}, {})) /\ apart' = apart \ {p}
         /\ handle' = [handle EXCEPT ![p] = "none"]
         /\ handle' \in [Processes -> {"none", "queue", "tmp"}]
         /\ tmp' = tmp => OpenExists'
BY DEF Leaves, Off, TInv, TypeOK, OpenExists

--------------------------------------------------------------------------------

\* The initial states have the shape.
LEMMA InitTyped == Init => TInv
<1> SUFFICES ASSUME Init PROVE TInv
  OBVIOUS
<1>1. Off \in Process /\ Held(Off) = {}
  BY StageForm DEF Off, At, Process, Held
<1>2. proc \in [Processes -> Process] /\ \A p \in Processes : Held(proc[p]) = {}
  BY <1>1 DEF Init
<1>3. QED
  BY <1>2 DEF Init, TInv, TypeOK, NotFresh, Rewritten, OpenExists

\* The steps of a run keep it.
LEMMA RunTyped == ASSUME TInv, NEW p \in Processes, RunNext(p) PROVE TInv'
<1>1. fresh \subseteq Events /\ Stored /\ Handled
  BY TypeParts
<1>2. ASSUME NEW e \in Events, Raise(p, e) PROVE TInv'
  <2>1. /\ Becomes(p, At("posting", {e}, {}, {})) /\ fresh' = fresh \ {e} /\ ~ Busy(proc[p])
        /\ UNCHANGED <<handle, file, torn, tmp, server, enqueued, endangered, removed, apart>>
    BY <1>2 DEF Raise, Running, Busy, store, history
  <2>2. {e} \cap fresh' = {} /\ fresh' \subseteq fresh
    BY <2>1
  <2>3. /\ proc' \in [Processes -> Process] /\ \A q \in Processes : Held(proc'[q]) \cap fresh' = {}
        /\ \A q \in Processes \ {p} : proc'[q] = proc[q]
    BY <2>1, <2>2, GoesOn, StageForm
  <2>4. Handled'
    BY <2>1, <2>3, HandledQuiet
  <2>5. Stored'
    BY <1>1, <2>1, <2>2 DEF Stored, Rewritten
  <2> QED
    BY <1>1, <2>2, <2>3, <2>4, <2>5, TypeNext
<1>3. CASE PostRaised(p) \/ PostRaisedFails(p)
  <2>1. /\ \/ Becomes(p, At("connecting", {}, {}, {}))
           \/ Becomes(p, At("queueing", proc[p].event, {}, {}))
        /\ server' \in {server, server \cup proc[p].event} /\ ~ Busy(proc[p])
        /\ UNCHANGED <<fresh, handle, file, torn, tmp, enqueued, endangered, removed, apart>>
    BY <1>3 DEF PostRaised, PostRaisedFails, Busy, store, history
  <2>2. /\ proc' \in [Processes -> Process] /\ \A q \in Processes : Held(proc'[q]) \cap fresh' = {}
        /\ \A q \in Processes \ {p} : proc'[q] = proc[q]
    BY <2>1, GoesOn, StageForm, ProcForm
  <2>3. Handled'
    BY <2>1, <2>2, HandledQuiet
  <2>4. Stored'
    BY <1>1, <2>1, ProcForm DEF Stored, Rewritten
  <2> QED
    BY <1>1, <2>1, <2>2, <2>3, <2>4, TypeNext
<1>4. CASE OpenQueue(p)
  <2>1. /\ Becomes(p, At("appending", proc[p].event, {}, {}))
        /\ handle' = [handle EXCEPT ![p] = "queue"] /\ apart' \subseteq apart \cup {p}
        /\ UNCHANGED <<fresh, file, torn, tmp, server, enqueued, endangered, removed>>
    BY <1>4 DEF OpenQueue, store
  <2>2. /\ proc' \in [Processes -> Process] /\ \A q \in Processes : Held(proc'[q]) \cap fresh' = {}
        /\ \A q \in Processes \ {p} : proc'[q] = proc[q]
        /\ proc'[p].stage = "appending"
    BY <2>1, GoesOn, StageForm, ProcForm
  <2>3. handle' \in [Processes -> {"none", "queue", "tmp"}] /\ Busy(proc'[p]) /\ OpenExists'
    BY <1>1, <2>1, <2>2 DEF Handled, Busy, OpenExists
  <2>4. Handled'
    BY <2>1, <2>2, <2>3, HandledStep
  <2>5. Stored'
    BY <1>1, <2>1 DEF Stored, Rewritten
  <2> QED
    BY <1>1, <2>1, <2>2, <2>4, <2>5, TypeNext
<1>5. CASE EnqueueApproval(p) \/ EnqueueFails(p)
  <2>1. /\ Leaves(p, Off) /\ torn' \in BOOLEAN
        /\ file' \in {file, file \cup proc[p].event}
        /\ enqueued' \in {enqueued, enqueued \cup proc[p].event}
        /\ endangered' \subseteq endangered \cup (enqueued' \cap proc[p].event)
        /\ endangered \subseteq endangered'
        /\ UNCHANGED <<fresh, tmp, server, removed>>
    BY <1>5 DEF EnqueueApproval, EnqueueFails, Appended
  <2>2. /\ proc' \in [Processes -> Process] /\ \A q \in Processes : Held(proc'[q]) \cap fresh' = {}
        /\ \A q \in Processes \ {p} : proc'[q] = proc[q]
    BY <2>1, GoesOn, StageForm, LeavesForm
  <2>3. Handled'
    BY <2>1, <2>2, HandledStep, LeavesForm
  <2>4. Stored'
    BY <1>1, <2>1, ProcForm DEF Stored, Rewritten
  <2> QED
    BY <1>1, <2>1, <2>2, <2>3, <2>4, TypeNext
<1>6. QED
  BY <1>2, <1>3, <1>4, <1>5 DEF RunNext

\* The steps of a flush before it rewrites the file.
LEMMA FlushTyped ==
  ASSUME TInv, NEW p \in Processes,
         \/ Connect(p) \/ ListApprovals(p) \/ FlushDone(p)
         \/ \E e \in Events : PostQueued(p, e) \/ PostQueuedFails(p, e)
  PROVE  TInv'
<1>1. fresh \subseteq Events /\ Stored /\ Handled
  BY TypeParts
<1>2. /\ server \subseteq server' /\ server' \subseteq server \cup proc[p].items
      /\ UNCHANGED <<fresh, handle, file, torn, tmp, enqueued, endangered, removed, apart>>
      /\ ~ Busy(proc[p])
  BY DEF Connect, ListApprovals, FlushDone, PostQueued, PostQueuedFails, Running, Busy,
         store, history
<1>3. /\ proc' \in [Processes -> Process] /\ \A q \in Processes : Held(proc'[q]) \cap fresh' = {}
      /\ \A q \in Processes \ {p} : proc'[q] = proc[q]
  <2>1. CASE Connect(p) \/ FlushDone(p)
    <3>1. Becomes(p, At("connecting", {}, {}, {})) \/ Becomes(p, At("off", {}, {}, {}))
      BY <2>1 DEF Connect, FlushDone, Off
    <3> QED
      BY <1>2, <3>1, GoesOn, StageForm
  <2>2. CASE ListApprovals(p)
    <3>1. Becomes(p, At("flushing", {}, file, {})) /\ file \subseteq Events /\ file \cap fresh = {}
      BY <1>1, <2>2 DEF ListApprovals, Stored
    <3> QED
      BY <1>2, <3>1, GoesOn, StageForm
  <2>3. ASSUME NEW e \in Events, PostQueued(p, e)
        PROVE  /\ proc' \in [Processes -> Process]
               /\ \A q \in Processes : Held(proc'[q]) \cap fresh' = {}
               /\ \A q \in Processes \ {p} : proc'[q] = proc[q]
    <3>1. Becomes(p, At("removing", {e}, proc[p].items \ {e}, {})) /\ e \in proc[p].items
      BY <2>3 DEF PostQueued
    <3>2. ({e} \cup (proc[p].items \ {e}) \cup {}) \cap fresh' = {}
      BY <1>2, <3>1, ProcForm
    <3>3. proc[p].items \ {e} \subseteq Events
      BY ProcForm
    <3> QED
      BY <1>2, <3>1, <3>2, <3>3, GoesOn, StageForm
  <2>4. ASSUME NEW e \in Events, PostQueuedFails(p, e)
        PROVE  /\ proc' \in [Processes -> Process]
               /\ \A q \in Processes : Held(proc'[q]) \cap fresh' = {}
               /\ \A q \in Processes \ {p} : proc'[q] = proc[q]
    <3>1. Becomes(p, At("off", {}, {}, {}))
      BY <2>4 DEF PostQueuedFails, AfterFailedPost, Off
    <3> QED
      BY <1>2, <3>1, GoesOn, StageForm
  <2>5. QED
    BY <2>1, <2>2, <2>3, <2>4
<1>4. Handled'
  BY <1>2, <1>3, HandledQuiet
<1>5. Stored'
  BY <1>1, <1>2, ProcForm DEF Stored, Rewritten
<1>6. QED
  BY <1>1, <1>2, <1>3, <1>4, <1>5, TypeNext

\* A write of what a rewriting keeps, or of a part of it, adds nothing else to the queue
\* or to the rewritten file.
Adds(p) ==
  \/ handle[p] = "tmp" /\ tmp' \in Mixed(p, tmp) /\ UNCHANGED <<file, torn>>
  \/ UNCHANGED tmp /\ \E w \in Mixed(p, <<file, torn>>) : file' = w[1] /\ torn' = w[2]
  \/ UNCHANGED <<file, torn, tmp>>

LEMMA AddsForm ==
  ASSUME TInv, NEW p \in Processes, Adds(p)
  PROVE  /\ tmp' \in {<< >>} \cup ((SUBSET Events) \X BOOLEAN) /\ (tmp # << >> => tmp' # << >>)
         /\ file' \subseteq Events /\ torn' \in BOOLEAN
         /\ file' \subseteq file \cup proc[p].kept
         /\ Rewritten' \subseteq Rewritten \cup proc[p].kept
<1>1. /\ proc[p].kept \subseteq Events /\ file \subseteq Events /\ torn \in BOOLEAN
      /\ tmp \in {<< >>} \cup ((SUBSET Events) \X BOOLEAN)
      /\ handle[p] = "tmp" => tmp # << >>
  BY ProcForm DEF TInv, TypeOK, OpenExists
<1>2. ASSUME NEW before \in (SUBSET Events) \X BOOLEAN, NEW w \in Mixed(p, before)
      PROVE  /\ w \in (SUBSET Events) \X BOOLEAN /\ w # << >>
             /\ w[1] \subseteq before[1] \cup proc[p].kept
  BY <1>1 DEF Mixed
<1>3. CASE handle[p] = "tmp" /\ tmp' \in Mixed(p, tmp) /\ UNCHANGED <<file, torn>>
  <2>1. tmp \in (SUBSET Events) \X BOOLEAN /\ Rewritten = tmp[1]
    BY <1>1, <1>3 DEF Rewritten
  <2>2. /\ tmp' \in (SUBSET Events) \X BOOLEAN /\ tmp' # << >>
        /\ tmp'[1] \subseteq tmp[1] \cup proc[p].kept
    BY <1>2, <1>3, <2>1
  <2> QED
    BY <1>1, <1>3, <2>1, <2>2 DEF Rewritten
<1>4. ASSUME NEW w \in Mixed(p, <<file, torn>>), file' = w[1], torn' = w[2], tmp' = tmp
      PROVE  file' \subseteq Events /\ torn' \in BOOLEAN /\ file' \subseteq file \cup proc[p].kept
  <2>1. <<file, torn>> \in (SUBSET Events) \X BOOLEAN /\ <<file, torn>>[1] = file
    BY <1>1
  <2> QED
    BY <1>2, <1>4, <2>1
<1>5. QED
  BY <1>1, <1>3, <1>4 DEF Adds, Rewritten

LEMMA WritesAdd == \A p \in Processes : WriteTmp(p) \/ WriteBreaks(p) => Adds(p)
<1>1. \A p \in Processes : \A before : Written(p, before) \subseteq Mixed(p, before)
  <2> SUFFICES ASSUME NEW p \in Processes, NEW before, before = <<{}, FALSE>>
               PROVE  <<proc[p].kept, FALSE>> \in Mixed(p, before)
    BY DEF Written
  <2> QED
    BY DEF Mixed
<1>2. QED
  BY <1>1 DEF WriteTmp, WriteBreaks, Adds, store

\* The steps of a rewriting keep the shape, and so does an end.
LEMMA RewriteTyped ==
  ASSUME TInv, NEW p \in Processes,
         \/ RemoveRead(p) \/ OpenTmp(p) \/ WriteTmp(p) \/ WriteBreaks(p)
         \/ Replace(p) \/ RemoveBoth(p) \/ Stop(p)
  PROVE  TInv'
<1>1. fresh \subseteq Events /\ Stored /\ Handled
  BY TypeParts
<1>2. CASE RemoveRead(p)
  <2>1. /\ Becomes(p, At("opening", proc[p].event, proc[p].items, file \ proc[p].event))
        /\ apart' \subseteq {p} /\ endangered' \in {endangered, endangered \cup enqueued}
        /\ UNCHANGED <<fresh, handle, file, torn, tmp, server, enqueued, removed>>
    BY <1>2 DEF RemoveRead, Kept, store
  <2>2. file \ proc[p].event \subseteq Events /\ (file \ proc[p].event) \cap fresh = {}
    BY <1>1 DEF Stored
  <2>3. /\ proc' \in [Processes -> Process] /\ \A q \in Processes : Held(proc'[q]) \cap fresh' = {}
        /\ \A q \in Processes \ {p} : proc'[q] = proc[q]
        /\ proc'[p].stage = "opening"
    BY <2>1, <2>2, GoesOn, StageForm, ProcForm
  <2>4. Handled'
    BY <1>1, <2>1, <2>3, HandledStep DEF Handled, Busy, OpenExists
  <2>5. Stored'
    BY <1>1, <2>1 DEF Stored, Rewritten
  <2> QED
    BY <1>1, <2>1, <2>3, <2>4, <2>5, TypeNext
<1>3. CASE OpenTmp(p)
  <2>1. /\ Becomes(p, At("writing", proc[p].event, proc[p].items, proc[p].kept))
        /\ handle' = [handle EXCEPT ![p] = "tmp"] /\ tmp' = <<{}, FALSE>>
        /\ UNCHANGED <<fresh, file, torn, server, enqueued, endangered, removed, apart>>
    BY <1>3 DEF OpenTmp, history
  <2>2. /\ proc' \in [Processes -> Process] /\ \A q \in Processes : Held(proc'[q]) \cap fresh' = {}
        /\ \A q \in Processes \ {p} : proc'[q] = proc[q]
        /\ proc'[p].stage = "writing"
    BY <2>1, GoesOn, StageForm, ProcForm
  <2>3. Handled'
    <3>1. handle' \in [Processes -> {"none", "queue", "tmp"}] /\ OpenExists'
      BY <1>1, <2>1 DEF Handled, OpenExists
    <3> QED
      BY <2>1, <2>2, <3>1, HandledStep DEF Busy
  <2>4. Stored'
    <3>1. tmp' \in (SUBSET Events) \X BOOLEAN /\ Rewritten' = {}
      BY <2>1 DEF Rewritten
    <3> QED
      BY <1>1, <2>1, <3>1 DEF Stored
  <2> QED
    BY <1>1, <2>1, <2>2, <2>3, <2>4, TypeNext
<1>4. CASE WriteTmp(p) \/ WriteBreaks(p)
  <2>1. /\ \/ Becomes(p, At("replacing", proc[p].event, proc[p].items, proc[p].kept)) /\ apart' = apart
           \/ Becomes(p, At("off", {}, {}, {})) /\ apart' = apart \ {p}
        /\ handle' = [handle EXCEPT ![p] = "none"]
        /\ UNCHANGED <<fresh, server, enqueued, endangered, removed>>
    BY <1>4, LeavesForm DEF WriteTmp, WriteBreaks, history
  <2>2. /\ proc' \in [Processes -> Process] /\ \A q \in Processes : Held(proc'[q]) \cap fresh' = {}
        /\ \A q \in Processes \ {p} : proc'[q] = proc[q]
        /\ proc'[p].stage = "replacing" \/ apart' = apart \ {p}
    BY <2>1, GoesOn, StageForm, ProcForm
  <2>3. Stored' /\ (tmp # << >> => tmp' # << >>)
    <3>1. proc[p].kept \cap fresh = {}
      BY ProcForm
    <3> QED
      BY <1>1, <1>4, <2>1, <3>1, WritesAdd, AddsForm DEF Stored
  <2>4. Handled'
    <3>1. handle' \in [Processes -> {"none", "queue", "tmp"}] /\ OpenExists'
      BY <1>1, <2>1, <2>3 DEF Handled, OpenExists
    <3> QED
      BY <2>1, <2>2, <3>1, HandledStep DEF Busy
  <2> QED
    BY <1>1, <2>1, <2>2, <2>3, <2>4, TypeNext
<1>5. CASE Replace(p) \/ RemoveBoth(p)
  <2>1. /\ \/ Becomes(p, At("off", {}, {}, {}))
           \/ Becomes(p, At("flushing", {}, proc[p].items, {}))
        /\ \/ file' = {} /\ torn' = FALSE
           \/ file' = file /\ torn' = torn
           \/ file' = tmp[1] /\ torn' = tmp[2] /\ tmp # << >>
        /\ \E queue, rewritten \in {"none", "queue"} : handle' = Moved(queue, rewritten)
        /\ tmp' = << >> /\ apart' = apart \ {p}
        /\ removed' \in {removed, removed \cup proc[p].event}
        /\ UNCHANGED <<fresh, server, enqueued, endangered>>
    BY <1>5 DEF Replace, RemoveBoth, Removes, Off
  <2>2. /\ proc' \in [Processes -> Process] /\ \A q \in Processes : Held(proc'[q]) \cap fresh' = {}
        /\ \A q \in Processes \ {p} : proc'[q] = proc[q]
    BY <2>1, GoesOn, StageForm, ProcForm
  <2>3. Handled'
    <3>1. PICK queue, rewritten \in {"none", "queue"} :
            handle' = [q \in Processes |-> CASE handle[q] = "queue" -> queue
                                             [] handle[q] = "tmp" -> rewritten
                                             [] OTHER -> "none"]
      BY <2>1 DEF Moved
    <3>2. handle' \in [Processes -> {"none", "queue"}]
      BY <3>1
    <3>3. handle' \in [Processes -> {"none", "queue", "tmp"}] /\ OpenExists'
      BY <3>2 DEF OpenExists
    <3> QED
      BY <2>1, <2>2, <3>3, HandledStep
  <2>4. Stored'
    <3>1. Rewritten' = {} /\ tmp' \in {<< >>}
      BY <2>1 DEF Rewritten
    <3>2. file' \subseteq Events /\ torn' \in BOOLEAN /\ file' \cap fresh = {}
      BY <1>1, <2>1 DEF Stored, Rewritten
    <3>3. removed' \subseteq Events /\ removed' \cap fresh = {}
      BY <1>1, <2>1, ProcForm DEF Stored
    <3> QED
      BY <1>1, <2>1, <3>1, <3>2, <3>3 DEF Stored
  <2> QED
    BY <1>1, <2>1, <2>2, <2>3, <2>4, TypeNext
<1>6. CASE Stop(p)
  <2>1. /\ Leaves(p, Off)
        /\ UNCHANGED <<fresh, file, torn, tmp, server, enqueued, endangered, removed>>
    BY <1>6 DEF Stop, store
  <2>2. /\ proc' \in [Processes -> Process] /\ \A q \in Processes : Held(proc'[q]) \cap fresh' = {}
        /\ \A q \in Processes \ {p} : proc'[q] = proc[q]
    BY <2>1, GoesOn, StageForm, LeavesForm
  <2>3. Handled'
    BY <2>1, <2>2, HandledStep, LeavesForm
  <2>4. Stored'
    BY <1>1, <2>1 DEF Stored, Rewritten
  <2> QED
    BY <1>1, <2>1, <2>2, <2>3, <2>4, TypeNext
<1>7. QED
  BY <1>2, <1>3, <1>4, <1>5, <1>6

\* The shape holds for ever.
LEMMA AlwaysTyped == Spec => []TInv
<1>1. TInv /\ [Next]_vars => TInv'
  <2> SUFFICES ASSUME TInv, [Next]_vars PROVE TInv'
    OBVIOUS
  <2>1. CASE UNCHANGED vars
    BY <2>1 DEF vars, store, history, TInv, TypeOK, NotFresh, OpenExists, Rewritten, Rewriting
  <2>2. CASE Next
    BY <2>2, RunTyped, FlushTyped, RewriteTyped DEF Next, FlushNext
  <2>3. QED
    BY <2>1, <2>2
<1>2. QED
  BY <1>1, InitTyped, PTL DEF Spec

\* Processes, the file and its events keep the shape of the code's data; an event
\* that was not raised is nowhere.
THEOREM TypeCorrect == Spec => []TypeOK
<1>1. TInv => TypeOK
  BY DEF TInv
<1>2. QED
  BY <1>1, AlwaysTyped, PTL

--------------------------------------------------------------------------------
(* What is kept. *)

\* What a process removes was received.
Reported ==
  \A p \in Processes :
    Rewriting(p) \/ proc[p].stage = "removing" => proc[p].event \subseteq server

\* A rewriting that another overlapped has put all that is queued at risk.
Overlapped == \A p \in Processes \ apart : Rewriting(p) => enqueued \subseteq endangered

\* One that none overlapped keeps what is neither at risk nor received, and the file
\* that it puts in the queue's place is its own.
Alone ==
  \A p \in apart : Rewriting(p) =>
    /\ Rewriters = {p}
    /\ enqueued \ endangered \subseteq proc[p].kept \cup server
    /\ proc[p].stage = "writing" => handle[p] = "tmp" /\ tmp = <<{}, FALSE>>
    /\ proc[p].stage = "replacing" => tmp = << >> \/ tmp[1] = proc[p].kept

\* An append that no rewriting overlapped goes to the queue's file.
Untouched ==
  \A p \in apart : proc[p].stage = "appending" => handle[p] = "queue" /\ Rewriters = {}

KInv == QueuedIsKept /\ Reported /\ Overlapped /\ Alone /\ Untouched

\* Beside a rewriting no process works apart.
LEMMA OnlyOne ==
  ASSUME TInv, KInv, NEW p \in Processes, Rewriting(p)
  PROVE  apart \subseteq {p}
<1> SUFFICES ASSUME NEW q \in apart PROVE q = p
  OBVIOUS
<1>1. p \in Rewriters
  BY DEF Rewriters
<1>2. CASE Rewriting(q)
  <2>1. Rewriters = {q}
    BY <1>2 DEF KInv, Alone
  <2> QED
    BY <1>1, <2>1
<1>3. CASE proc[q].stage = "appending"
  BY <1>1, <1>3 DEF KInv, Untouched
<1>4. QED
  BY <1>2, <1>3 DEF TInv, TypeOK

\* A process that is neither appending nor rewriting is not apart.
LEMMA QuietApart ==
  ASSUME TInv, NEW p \in Processes, ~ Busy(proc[p])
  PROVE  apart \ {p} = apart
BY DEF TInv, TypeOK, Busy, Rewriting

\* A process is where it is neither appending nor rewriting.
LEMMA LeavesKept ==
  ASSUME TInv, KInv, TInv', NEW p \in Processes, \A q \in Processes \ {p} : proc'[q] = proc[q],
         ~ Busy(proc'[p]), apart' = apart \ {p}, server \subseteq server', QueuedIsKept',
         p \notin apart => enqueued' \ endangered' \subseteq enqueued \ endangered,
         Rewriting(p) \/ (tmp' = tmp /\ \A q \in Processes \ {p} : handle'[q] = handle[q]),
         proc'[p].stage = "removing" => proc'[p].event \subseteq server'
  PROVE  KInv'
<1>1. ASSUME NEW q \in Processes, q \in apart', Rewriting(q)'
      PROVE  /\ Rewriters' = {q} /\ p \notin apart /\ q \in apart /\ Rewriting(q) /\ q # p
             /\ tmp' = tmp /\ handle'[q] = handle[q] /\ proc'[q] = proc[q]
  <2>1. q # p /\ q \in apart /\ proc'[q] = proc[q]
    BY <1>1
  <2>2. Rewriting(q)
    BY <1>1, <2>1 DEF Rewriting
  <2>3. Rewriters = {q}
    BY <2>1, <2>2 DEF KInv, Alone
  <2>4. ~ Rewriting(p) /\ p \notin apart
    <3>1. ~ Rewriting(p)
      BY <2>1, <2>3 DEF Rewriters
    <3> QED
      BY <2>3, <3>1 DEF KInv, Untouched, TInv, TypeOK
  <2>5. Rewriters' = {q}
    BY <1>1, <2>1, <2>3 DEF Rewriters, Rewriting, Busy
  <2> QED
    BY <2>1, <2>2, <2>4, <2>5
<1>2. Reported'
  BY DEF KInv, Reported, Rewriting, Busy
<1>3. Overlapped'
  <2> SUFFICES ASSUME NEW q \in Processes, q \notin apart', Rewriting(q)'
               PROVE  enqueued' \subseteq endangered'
    BY DEF Overlapped
  <2>1. q # p /\ q \notin apart /\ Rewriting(q)
    BY DEF Rewriting, Busy
  <2>2. enqueued \subseteq endangered
    BY <2>1 DEF KInv, Overlapped
  <2>3. p \notin apart
    BY <2>1, OnlyOne
  <2> QED
    BY <2>2, <2>3
<1>4. Alone'
  <2> SUFFICES ASSUME NEW q \in Processes, q \in apart', Rewriting(q)'
               PROVE  /\ Rewriters' = {q}
                      /\ enqueued' \ endangered' \subseteq proc'[q].kept \cup server'
                      /\ proc'[q].stage = "writing" => handle'[q] = "tmp" /\ tmp' = <<{}, FALSE>>
                      /\ proc'[q].stage = "replacing" => tmp' = << >> \/ tmp'[1] = proc'[q].kept
    BY DEF Alone, TInv, TypeOK
  <2>1. enqueued' \ endangered' \subseteq enqueued \ endangered
    BY <1>1
  <2>2. enqueued \ endangered \subseteq proc[q].kept \cup server
    BY <1>1 DEF KInv, Alone
  <2>3. /\ proc[q].stage = "writing" => handle[q] = "tmp" /\ tmp = <<{}, FALSE>>
        /\ proc[q].stage = "replacing" => tmp = << >> \/ tmp[1] = proc[q].kept
    BY <1>1 DEF KInv, Alone
  <2> QED
    BY <1>1, <2>1, <2>2, <2>3
<1>5. Untouched'
  <2> SUFFICES ASSUME NEW q \in Processes, q \in apart', proc'[q].stage = "appending"
               PROVE  handle'[q] = "queue" /\ Rewriters' = {}
    BY DEF Untouched, TInv, TypeOK
  <2>1. q # p /\ q \in apart /\ proc'[q] = proc[q]
    OBVIOUS
  <2>2. handle[q] = "queue" /\ Rewriters = {}
    BY <2>1 DEF KInv, Untouched
  <2>3. handle'[q] = handle[q]
    BY <2>1, <2>2 DEF Rewriters
  <2>4. Rewriters' = {}
    BY <2>2 DEF Rewriters, Rewriting, Busy
  <2> QED
    BY <2>2, <2>3, <2>4
<1>6. QED
  BY <1>2, <1>3, <1>4, <1>5 DEF KInv

\* The steps of a run keep it.
LEMMA RunKeeps ==
  ASSUME TInv, KInv, TInv', NEW p \in Processes, RunNext(p)
  PROVE  KInv'
<1>1. QueuedIsKept
  BY DEF KInv
<1>2. ASSUME NEW e \in Events, Raise(p, e) PROVE KInv'
  <2>1. /\ Becomes(p, At("posting", {e}, {}, {})) /\ fresh' = fresh \ {e} /\ ~ Busy(proc[p])
        /\ UNCHANGED <<handle, file, torn, tmp, server, enqueued, endangered, removed, apart>>
    BY <1>2 DEF Raise, Running, Busy, store, history
  <2>2. {e} \cap fresh' = {} /\ fresh' \subseteq fresh
    BY <2>1
  <2>3. (\A q \in Processes \ {p} : proc'[q] = proc[q]) /\ proc'[p].stage = "posting"
    BY <2>1, <2>2, GoesOn, StageForm
  <2>4. ~ Busy(proc'[p]) /\ apart' = apart \ {p} /\ QueuedIsKept'
    BY <1>1, <2>1, <2>3, QuietApart DEF Busy, QueuedIsKept
  <2> QED
    BY <2>1, <2>3, <2>4, LeavesKept
<1>3. CASE PostRaised(p) \/ PostRaisedFails(p)
  <2>1. /\ \/ Becomes(p, At("connecting", {}, {}, {}))
           \/ Becomes(p, At("queueing", proc[p].event, {}, {}))
        /\ server \subseteq server' /\ ~ Busy(proc[p])
        /\ UNCHANGED <<fresh, handle, file, torn, tmp, enqueued, endangered, removed, apart>>
    BY <1>3 DEF PostRaised, PostRaisedFails, Busy, store, history
  <2>2. /\ \A q \in Processes \ {p} : proc'[q] = proc[q]
        /\ proc'[p].stage \in {"connecting", "queueing"}
    BY <2>1, GoesOn, StageForm, ProcForm
  <2>3. ~ Busy(proc'[p]) /\ apart' = apart \ {p} /\ QueuedIsKept'
    BY <1>1, <2>1, <2>2, QuietApart DEF Busy, QueuedIsKept
  <2> QED
    BY <2>1, <2>2, <2>3, LeavesKept
<1>4. CASE OpenQueue(p)
  <2>1. /\ Becomes(p, At("appending", proc[p].event, {}, {})) /\ ~ Rewriting(p)
        /\ handle' = [handle EXCEPT ![p] = "queue"]
        /\ apart' = IF Rewriters = {} THEN apart \cup {p} ELSE apart
        /\ UNCHANGED <<fresh, file, torn, tmp, server, enqueued, endangered, removed>>
    BY <1>4 DEF OpenQueue, store, Rewriting
  <2>2. /\ \A q \in Processes \ {p} : proc'[q] = proc[q]
        /\ proc'[p].stage = "appending"
    BY <2>1, GoesOn, StageForm, ProcForm
  <2>3. p \notin apart /\ handle'[p] = "queue" /\ \A q \in Processes \ {p} : handle'[q] = handle[q]
    BY <1>4, <2>1 DEF OpenQueue, TInv, TypeOK, Rewriting
  <2>4. ~ Rewriting(p)' /\ Rewriters' = Rewriters
    BY <2>1, <2>2 DEF Rewriting, Rewriters
  <2>5. QueuedIsKept' /\ Reported' /\ Overlapped'
    BY <2>1, <2>2, <2>3, <2>4 DEF KInv, QueuedIsKept, Reported, Overlapped, Rewriting
  <2>6. Alone'
    <3> SUFFICES ASSUME NEW q \in Processes, q \in apart', Rewriting(q)'
                 PROVE  /\ Rewriters' = {q}
                        /\ enqueued' \ endangered' \subseteq proc'[q].kept \cup server'
                        /\ proc'[q].stage = "writing" => handle'[q] = "tmp" /\ tmp' = <<{}, FALSE>>
                        /\ proc'[q].stage = "replacing" => tmp' = << >> \/ tmp'[1] = proc'[q].kept
      BY DEF Alone, TInv, TypeOK
    <3>1. q # p
      BY <2>4
    <3>2. q \in apart /\ proc'[q] = proc[q] /\ handle'[q] = handle[q]
      BY <2>1, <2>2, <2>3, <3>1
    <3>3. Rewriting(q)
      BY <3>2 DEF Rewriting
    <3> QED
      BY <2>1, <2>4, <3>2, <3>3 DEF KInv, Alone
  <2>7. Untouched'
    BY <2>1, <2>2, <2>3, <2>4 DEF KInv, Untouched, TInv, TypeOK
  <2> QED
    BY <2>5, <2>6, <2>7 DEF KInv
<1>5. CASE EnqueueApproval(p)
  <2>1. /\ Leaves(p, Off) /\ proc[p].stage = "appending"
        /\ file' = file \cup Appended(p) /\ enqueued' = enqueued \cup proc[p].event
        /\ endangered' = IF torn \/ p \notin apart THEN endangered \cup proc[p].event ELSE endangered
        /\ UNCHANGED <<fresh, tmp, server, removed>>
    BY <1>5 DEF EnqueueApproval
  <2>2. /\ \A q \in Processes \ {p} : proc'[q] = proc[q]
        /\ proc'[p].stage = "off" /\ apart' = apart \ {p}
        /\ \A q \in Processes \ {p} : handle'[q] = handle[q]
    BY <2>1, GoesOn, StageForm, LeavesForm
  <2>3. p \in apart => handle[p] = "queue"
    BY <2>1 DEF KInv, Untouched
  <2>4. QueuedIsKept'
    BY <1>1, <2>1, <2>3 DEF QueuedIsKept, Appended
  <2>5. p \notin apart => enqueued' \ endangered' \subseteq enqueued \ endangered
    BY <2>1
  <2>6. ~ Busy(proc'[p])
    BY <2>2 DEF Busy
  <2> QED
    BY <2>1, <2>2, <2>4, <2>5, <2>6, LeavesKept
<1>6. CASE EnqueueFails(p)
  <2>1. Leaves(p, Off) /\ UNCHANGED <<fresh, file, tmp, server, enqueued, endangered, removed>>
    BY <1>6 DEF EnqueueFails
  <2>2. /\ \A q \in Processes \ {p} : proc'[q] = proc[q]
        /\ proc'[p].stage = "off" /\ apart' = apart \ {p}
        /\ \A q \in Processes \ {p} : handle'[q] = handle[q]
    BY <2>1, GoesOn, StageForm, LeavesForm
  <2>3. ~ Busy(proc'[p]) /\ QueuedIsKept'
    BY <1>1, <2>1, <2>2 DEF Busy, QueuedIsKept
  <2> QED
    BY <2>1, <2>2, <2>3, LeavesKept
<1>7. QED
  BY <1>2, <1>3, <1>4, <1>5, <1>6 DEF RunNext

\* So do those of a flush,
LEMMA FlushKeeps ==
  ASSUME TInv, KInv, TInv', NEW p \in Processes,
         \/ Connect(p) \/ ListApprovals(p) \/ FlushDone(p)
         \/ \E e \in Events : PostQueued(p, e) \/ PostQueuedFails(p, e)
  PROVE  KInv'
<1>1. /\ server \subseteq server' /\ ~ Busy(proc[p])
      /\ UNCHANGED <<fresh, handle, file, torn, tmp, enqueued, endangered, removed, apart>>
  BY DEF Connect, ListApprovals, FlushDone, PostQueued, PostQueuedFails, Running, Busy,
         store, history
<1>2. /\ \A q \in Processes \ {p} : proc'[q] = proc[q]
      /\ proc'[p].stage \in {"connecting", "flushing", "removing", "off"}
      /\ proc'[p].stage = "removing" => proc'[p].event \subseteq server'
  <2>1. CASE Connect(p) \/ FlushDone(p)
    <3>1. Becomes(p, At("connecting", {}, {}, {})) \/ Becomes(p, At("off", {}, {}, {}))
      BY <2>1 DEF Connect, FlushDone, Off
    <3> QED
      BY <1>1, <3>1, GoesOn, StageForm
  <2>2. CASE ListApprovals(p)
    <3>1. Becomes(p, At("flushing", {}, file, {})) /\ file \subseteq Events /\ file \cap fresh = {}
      BY <2>2 DEF ListApprovals, TInv, TypeOK
    <3> QED
      BY <1>1, <3>1, GoesOn, StageForm
  <2>3. ASSUME NEW e \in Events, PostQueued(p, e)
        PROVE  /\ \A q \in Processes \ {p} : proc'[q] = proc[q]
               /\ proc'[p].stage = "removing" /\ proc'[p].event \subseteq server'
    <3>1. /\ Becomes(p, At("removing", {e}, proc[p].items \ {e}, {})) /\ e \in proc[p].items
          /\ e \in server'
      BY <2>3 DEF PostQueued
    <3>2. ({e} \cup (proc[p].items \ {e}) \cup {}) \cap fresh' = {}
      BY <1>1, <3>1, ProcForm
    <3>3. proc[p].items \ {e} \subseteq Events
      BY ProcForm
    <3> QED
      BY <1>1, <3>1, <3>2, <3>3, GoesOn, StageForm
  <2>4. ASSUME NEW e \in Events, PostQueuedFails(p, e)
        PROVE  (\A q \in Processes \ {p} : proc'[q] = proc[q]) /\ proc'[p].stage = "off"
    <3>1. Becomes(p, At("off", {}, {}, {}))
      BY <2>4 DEF PostQueuedFails, AfterFailedPost, Off
    <3> QED
      BY <1>1, <3>1, GoesOn, StageForm
  <2>5. QED
    BY <2>1, <2>2, <2>3, <2>4
<1>3. ~ Busy(proc'[p]) /\ apart' = apart \ {p} /\ QueuedIsKept'
  BY <1>1, <1>2, QuietApart DEF Busy, KInv, QueuedIsKept
<1>4. QED
  BY <1>1, <1>2, <1>3, LeavesKept

\* those of a rewriting,
LEMMA RewriteKeeps ==
  ASSUME TInv, KInv, TInv', NEW p \in Processes, RemoveRead(p) \/ OpenTmp(p) \/ WriteTmp(p)
  PROVE  KInv'
<1>1. QueuedIsKept
  BY DEF KInv
<1>2. CASE RemoveRead(p)
  <2>1. /\ Becomes(p, At("opening", proc[p].event, proc[p].items, file \ proc[p].event))
        /\ apart' = IF Rewriters = {} THEN {p} ELSE {}
        /\ endangered' = IF Rewriters = {} THEN endangered ELSE endangered \cup enqueued
        /\ proc[p].stage = "removing"
        /\ UNCHANGED <<fresh, handle, file, torn, tmp, server, enqueued, removed>>
    BY <1>2 DEF RemoveRead, Kept, store
  <2>2. file \ proc[p].event \subseteq Events /\ (file \ proc[p].event) \cap fresh = {}
    BY DEF TInv, TypeOK
  <2>3. /\ \A q \in Processes \ {p} : proc'[q] = proc[q]
        /\ proc'[p].stage = "opening" /\ proc'[p].event = proc[p].event
        /\ proc'[p].kept = file \ proc[p].event
    BY <2>1, <2>2, GoesOn, StageForm, ProcForm
  <2>4. Rewriters' = Rewriters \cup {p} /\ proc[p].event \subseteq server
    BY <2>1, <2>3 DEF Rewriters, Rewriting, KInv, Reported
  <2>5. QueuedIsKept' /\ Reported'
    BY <1>1, <2>1, <2>3, <2>4 DEF QueuedIsKept, KInv, Reported, Rewriting
  <2>6. CASE Rewriters = {}
    <3>1. Overlapped'
      BY <2>1, <2>4, <2>6 DEF Overlapped, Rewriters
    <3>2. Alone'
      BY <1>1, <2>1, <2>3, <2>4, <2>6 DEF Alone, QueuedIsKept
    <3>3. Untouched'
      BY <2>1, <2>3, <2>6 DEF Untouched
    <3> QED
      BY <2>5, <3>1, <3>2, <3>3 DEF KInv
  <2>7. CASE Rewriters # {}
    BY <2>1, <2>5, <2>7 DEF KInv, Overlapped, Alone, Untouched, TInv, TypeOK
  <2>8. QED
    BY <2>6, <2>7
<1>3. ASSUME OpenTmp(p) \/ WriteTmp(p)
      PROVE  /\ \A q \in Processes \ {p} : proc'[q] = proc[q]
             /\ proc'[p].event = proc[p].event /\ proc'[p].kept = proc[p].kept
             /\ Rewriting(p) /\ Rewriting(p)' /\ Rewriters' = Rewriters /\ apart \subseteq {p}
             /\ UNCHANGED <<server, enqueued, endangered, apart>>
             /\ Reported' /\ Overlapped' /\ Untouched'
  <2>1. /\ \/ Becomes(p, At("writing", proc[p].event, proc[p].items, proc[p].kept))
           \/ Becomes(p, At("replacing", proc[p].event, proc[p].items, proc[p].kept))
        /\ Rewriting(p)
        /\ UNCHANGED <<fresh, server, enqueued, endangered, apart>>
    BY <1>3 DEF OpenTmp, WriteTmp, Rewriting, history
  <2>2. /\ \A q \in Processes \ {p} : proc'[q] = proc[q]
        /\ proc'[p].stage \in {"writing", "replacing"}
        /\ proc'[p].event = proc[p].event /\ proc'[p].kept = proc[p].kept
    BY <2>1, GoesOn, StageForm, ProcForm
  <2>3. Rewriting(p)' /\ Rewriters' = Rewriters
    BY <2>1, <2>2 DEF Rewriting, Rewriters
  <2>4. apart \subseteq {p}
    BY <2>1, OnlyOne
  <2>5. Reported'
    BY <2>1, <2>2 DEF KInv, Reported, Rewriting
  <2>6. Overlapped'
    BY <2>1, <2>2, <2>3 DEF KInv, Overlapped, Rewriting
  <2>7. Untouched'
    BY <2>1, <2>2, <2>4 DEF Untouched
  <2> QED
    BY <2>1, <2>2, <2>3, <2>4, <2>5, <2>6, <2>7
<1>4. CASE OpenTmp(p)
  <2>1. /\ Becomes(p, At("writing", proc[p].event, proc[p].items, proc[p].kept))
        /\ handle' = [handle EXCEPT ![p] = "tmp"] /\ tmp' = <<{}, FALSE>>
        /\ UNCHANGED <<fresh, file>>
    BY <1>4 DEF OpenTmp
  <2>2. proc'[p].stage = "writing"
    BY <2>1, GoesOn, StageForm, ProcForm
  <2>3. handle'[p] = "tmp"
    BY <2>1 DEF TInv, TypeOK
  <2>4. Alone'
    <3> SUFFICES ASSUME p \in apart
                 PROVE  Rewriters' = {p} /\ enqueued' \ endangered' \subseteq proc'[p].kept \cup server'
      BY <1>3, <1>4, <2>1, <2>2, <2>3 DEF Alone
    <3> QED
      BY <1>3, <1>4 DEF KInv, Alone
  <2>5. QueuedIsKept'
    BY <1>1, <1>3, <1>4, <2>1 DEF QueuedIsKept
  <2> QED
    BY <1>3, <1>4, <2>4, <2>5 DEF KInv
<1>5. CASE WriteTmp(p)
  <2>1. /\ Becomes(p, At("replacing", proc[p].event, proc[p].items, proc[p].kept))
        /\ proc[p].stage = "writing" /\ fresh' = fresh
        /\ \/ handle[p] = "tmp" /\ tmp' \in Written(p, tmp) /\ UNCHANGED <<file, torn>>
           \/ handle[p] # "tmp"
    BY <1>5 DEF WriteTmp
  <2>2. proc'[p].stage = "replacing"
    BY <2>1, GoesOn, StageForm, ProcForm
  <2>3. CASE p \in apart
    <3>1. Rewriters = {p} /\ handle[p] = "tmp" /\ tmp = <<{}, FALSE>>
      BY <1>3, <1>5, <2>1, <2>3 DEF KInv, Alone
    <3>2. ~ Shared(p)
      BY <3>1 DEF Shared, Rewriters, Rewriting
    <3>3. tmp' = <<proc[p].kept, FALSE>> /\ file' = file
      BY <2>1, <3>1, <3>2 DEF Written
    <3>4. Alone'
      BY <1>3, <1>5, <2>2, <2>3, <3>3 DEF KInv, Alone
    <3>5. QueuedIsKept'
      BY <1>1, <1>3, <1>5, <3>3 DEF QueuedIsKept
    <3> QED
      BY <1>3, <1>5, <3>4, <3>5 DEF KInv
  <2>4. CASE p \notin apart
    <3>1. apart' = {} /\ enqueued' \subseteq endangered'
      BY <1>3, <1>5, <2>4 DEF KInv, Overlapped
    <3> QED
      BY <1>3, <1>5, <3>1 DEF KInv, QueuedIsKept, Alone
  <2>5. QED
    BY <2>3, <2>4
<1>6. QED
  BY <1>2, <1>4, <1>5

\* and those that end one.
LEMMA ReplaceKeeps ==
  ASSUME TInv, KInv, TInv', NEW p \in Processes,
         Replace(p) \/ RemoveBoth(p) \/ Stop(p) \/ WriteBreaks(p)
  PROVE  KInv'
<1>1. CASE Stop(p)
  <2>1. Leaves(p, Off) /\ UNCHANGED <<fresh, file, tmp, server, enqueued, endangered>>
    BY <1>1 DEF Stop, store
  <2>2. /\ \A q \in Processes \ {p} : proc'[q] = proc[q]
        /\ proc'[p].stage = "off" /\ apart' = apart \ {p}
        /\ \A q \in Processes \ {p} : handle'[q] = handle[q]
    BY <2>1, GoesOn, StageForm, LeavesForm
  <2>3. ~ Busy(proc'[p]) /\ QueuedIsKept'
    BY <2>1, <2>2 DEF Busy, KInv, QueuedIsKept
  <2> QED
    BY <2>1, <2>2, <2>3, LeavesKept
<1>2. CASE Replace(p) \/ RemoveBoth(p)
  <2>1. /\ \/ Becomes(p, At("off", {}, {}, {}))
           \/ Becomes(p, At("flushing", {}, proc[p].items, {}))
        /\ \/ file' = {} /\ proc[p].kept = {}
           \/ file' = file
           \/ file' = tmp[1] /\ tmp # << >>
        /\ proc[p].stage = "replacing" /\ apart' = apart \ {p}
        /\ UNCHANGED <<fresh, server, enqueued, endangered>>
    BY <1>2 DEF Replace, RemoveBoth, Removes, Off
  <2>2. /\ \A q \in Processes \ {p} : proc'[q] = proc[q]
        /\ proc'[p].stage \in {"off", "flushing"}
    BY <2>1, GoesOn, StageForm, ProcForm
  <2>3. Rewriting(p) /\ ~ Busy(proc'[p])
    BY <2>1, <2>2 DEF Rewriting, Busy
  <2>4. QueuedIsKept'
    <3>1. CASE p \in apart
      <4>1. /\ enqueued \ endangered \subseteq proc[p].kept \cup server
            /\ tmp = << >> \/ tmp[1] = proc[p].kept
        BY <2>1, <2>3, <3>1 DEF KInv, Alone
      <4> QED
        BY <2>1, <4>1 DEF KInv, QueuedIsKept
    <3>2. CASE p \notin apart
      BY <2>1, <2>3, <3>2 DEF KInv, Overlapped, QueuedIsKept
    <3>3. QED
      BY <3>1, <3>2
  <2> QED
    BY <2>1, <2>2, <2>3, <2>4, LeavesKept
<1>3. CASE WriteBreaks(p)
  <2>1. /\ Leaves(p, Off) /\ proc[p].stage = "writing"
        /\ UNCHANGED <<fresh, server, enqueued, endangered>>
        /\ handle[p] # "tmp" => handle[p] = "queue"
        /\ handle[p] = "tmp" => file' = file
    BY <1>3 DEF WriteBreaks
  <2>2. /\ \A q \in Processes \ {p} : proc'[q] = proc[q]
        /\ proc'[p].stage = "off" /\ apart' = apart \ {p}
    BY <2>1, GoesOn, StageForm, LeavesForm
  <2>3. Rewriting(p) /\ ~ Busy(proc'[p])
    BY <2>1, <2>2 DEF Rewriting, Busy
  <2>4. QueuedIsKept'
    <3>1. CASE p \in apart
      <4>1. file' = file
        BY <2>1, <2>3, <3>1 DEF KInv, Alone
      <4> QED
        BY <2>1, <4>1 DEF KInv, QueuedIsKept
    <3>2. CASE p \notin apart
      BY <2>1, <2>3, <3>2 DEF KInv, Overlapped, QueuedIsKept
    <3>3. QED
      BY <3>1, <3>2
  <2> QED
    BY <2>1, <2>2, <2>3, <2>4, LeavesKept
<1>4. QED
  BY <1>1, <1>2, <1>3

\* What is kept holds for ever.
LEMMA AlwaysKept == Spec => []KInv
<1>1. Init => KInv
  BY DEF Init, KInv, QueuedIsKept, Reported, Overlapped, Alone, Untouched, Rewriting, Off, At
<1>2. TInv /\ TInv' /\ KInv /\ [Next]_vars => KInv'
  <2> SUFFICES ASSUME TInv, TInv', KInv, [Next]_vars PROVE KInv'
    OBVIOUS
  <2>1. CASE UNCHANGED vars
    BY <2>1 DEF vars, store, history, KInv, QueuedIsKept, Reported, Overlapped, Alone, Untouched,
                Rewriting, Rewriters
  <2>2. CASE Next
    BY <2>2, RunKeeps, FlushKeeps, RewriteKeeps, ReplaceKeeps DEF Next, FlushNext
  <2>3. QED
    BY <2>1, <2>2
<1>3. QED
  BY <1>1, <1>2, AlwaysTyped, PTL DEF Spec

\* Whichever processes append, report and rewrite at once, and wherever they end, an
\* event is lost only if it was appended behind a torn line or while another process
\* rewrote the file, or was queued when two processes rewrote the file at once.
THEOREM QueueKeepsEvents == Spec => []QueuedIsKept
<1>1. KInv => QueuedIsKept
  BY DEF KInv
<1>2. QED
  BY <1>1, AlwaysKept, PTL

--------------------------------------------------------------------------------
(* What was removed. *)

Raising(x) == x.stage \in {"posting", "queueing", "appending"}

\* An event on its way to the queue is nowhere else.
OnItsWay ==
  \A p \in Processes : Raising(proc[p]) =>
    /\ proc[p].event \cap (file \cup Rewritten \cup removed) = {}
    /\ \A q \in Processes \ {p} : proc[p].event \cap Held(proc[q]) = {}

\* What a rewriting keeps was not removed,
KeptStayed ==
  \A p \in Processes : Rewriting(p) => proc[p].kept \cap (proc[p].event \cup removed) = {}

\* nor was what it has written.
WrittenStayed ==
  \A p \in Processes : proc[p].stage \in {"writing", "replacing"} => Rewritten \cap removed = {}

RInv == RemovedStaysOut /\ OnItsWay /\ KeptStayed /\ WrittenStayed

\* A step of a process that is then not on its way to the queue, or stays there, leaves
\* the other events that are where they are: it only moves what it, the queue and the
\* rewritten file hold.
LEMMA OthersOnTheirWay ==
  ASSUME RInv, NEW p \in Processes, \A q \in Processes \ {p} : proc'[q] = proc[q],
         Held(proc'[p]) \subseteq Held(proc[p]) \cup file,
         file' \subseteq file \cup Rewritten \cup Held(proc[p]),
         Rewritten' \subseteq file \cup Rewritten \cup Held(proc[p]),
         removed' \subseteq removed \cup Held(proc[p]),
         Raising(proc'[p]) => /\ Raising(proc[p]) /\ proc'[p].event = proc[p].event
                              /\ Held(proc'[p]) \subseteq proc[p].event
                              /\ UNCHANGED <<file, tmp, removed>>
  PROVE  OnItsWay'
<1>1. OnItsWay
  BY DEF RInv
<1>2. ASSUME NEW q \in Processes \ {p}, Raising(proc'[q])
      PROVE  /\ proc'[q].event \cap (file' \cup Rewritten' \cup removed') = {}
             /\ \A r \in Processes \ {q} : proc'[q].event \cap Held(proc'[r]) = {}
  <2>1. /\ proc'[q] = proc[q] /\ proc[q].event \cap (file \cup Rewritten \cup removed) = {}
        /\ \A r \in Processes \ {q} : proc[q].event \cap Held(proc[r]) = {}
    BY <1>1, <1>2 DEF OnItsWay
  <2>2. proc[q].event \cap Held(proc[p]) = {}
    BY <2>1
  <2>3. proc'[q].event \cap (file' \cup Rewritten' \cup removed') = {}
    BY <2>1, <2>2
  <2>4. proc'[q].event \cap Held(proc'[p]) = {}
    BY <2>1, <2>2
  <2> QED
    BY <2>1, <2>3, <2>4
<1>3. ASSUME Raising(proc'[p])
      PROVE  /\ proc'[p].event \cap (file' \cup Rewritten' \cup removed') = {}
             /\ \A r \in Processes \ {p} : proc'[p].event \cap Held(proc'[r]) = {}
  <2>1. Rewritten' = Rewritten
    BY <1>3 DEF Rewritten
  <2> QED
    BY <1>1, <1>3, <2>1 DEF OnItsWay
<1>4. QED
  BY <1>2, <1>3 DEF OnItsWay

\* A step that leaves the files alone, of a process that rewrites neither before nor after.
LEMMA QuietStayed ==
  ASSUME RInv, NEW p \in Processes, \A q \in Processes \ {p} : proc'[q] = proc[q],
         Held(proc'[p]) \subseteq Held(proc[p]) \cup file, UNCHANGED <<file, tmp, removed>>,
         Raising(proc'[p]) => /\ Raising(proc[p]) /\ proc'[p].event = proc[p].event
                              /\ Held(proc'[p]) \subseteq proc[p].event,
         proc'[p].stage \notin {"opening", "writing", "replacing"}
  PROVE  RInv'
<1>1. Rewritten' = Rewritten
  BY DEF Rewritten
<1>2. OnItsWay'
  BY <1>1, OthersOnTheirWay
<1>3. RemovedStaysOut' /\ KeptStayed' /\ WrittenStayed'
  BY <1>1 DEF RInv, RemovedStaysOut, KeptStayed, WrittenStayed, Rewriting
<1>4. QED
  BY <1>2, <1>3 DEF RInv

\* What is read into a process, and of which it lets go, by a step of its own.
LEMMA HeldForm ==
  ASSUME NEW p
  PROVE  /\ proc[p].event \subseteq Held(proc[p]) /\ proc[p].items \subseteq Held(proc[p])
         /\ proc[p].kept \subseteq Held(proc[p])
BY DEF Held

\* The steps of a run keep out what was removed.
LEMMA RunStays ==
  ASSUME TInv, RInv, NEW p \in Processes, RunNext(p)
  PROVE  RInv'
<1>1. ASSUME NEW e \in Events, Raise(p, e) PROVE RInv'
  <2>1. /\ Becomes(p, At("posting", {e}, {}, {})) /\ fresh' = fresh \ {e} /\ e \in fresh
        /\ UNCHANGED <<file, tmp, removed>>
    BY <1>1 DEF Raise, store, history
  <2>2. {e} \cap fresh' = {} /\ fresh' \subseteq fresh
    BY <2>1
  <2>3. /\ \A q \in Processes \ {p} : proc'[q] = proc[q]
        /\ proc'[p].stage = "posting" /\ proc'[p].event = {e} /\ Held(proc'[p]) = {e}
    BY <2>1, <2>2, GoesOn, StageForm
  <2>4. /\ e \notin file \cup Rewritten \cup removed
        /\ \A q \in Processes : e \notin Held(proc[q])
    BY <2>1, TypeParts DEF Stored
  <2>5. Rewritten' = Rewritten
    BY <2>1 DEF Rewritten
  <2>6. OnItsWay'
    <3>1. ASSUME NEW q \in Processes \ {p}, Raising(proc[q])
          PROVE  /\ proc[q].event \cap (file \cup Rewritten \cup removed) = {}
                 /\ \A r \in Processes \ {q} : proc[q].event \cap Held(proc'[r]) = {}
      <4>1. /\ proc[q].event \cap (file \cup Rewritten \cup removed) = {}
            /\ \A r \in Processes \ {q} : proc[q].event \cap Held(proc[r]) = {}
        BY <3>1 DEF RInv, OnItsWay
      <4>2. proc[q].event \cap {e} = {}
        BY <2>4, HeldForm
      <4> QED
        BY <2>3, <4>1, <4>2
    <3> QED
      BY <2>1, <2>3, <2>4, <2>5, <3>1 DEF OnItsWay
  <2>7. RemovedStaysOut' /\ KeptStayed' /\ WrittenStayed'
    BY <2>1, <2>3, <2>5 DEF RInv, RemovedStaysOut, KeptStayed, WrittenStayed, Rewriting
  <2> QED
    BY <2>6, <2>7 DEF RInv
<1>2. CASE PostRaised(p)
  <2>1. /\ Becomes(p, At("connecting", {}, {}, {})) /\ UNCHANGED <<fresh, file, tmp, removed>>
    BY <1>2 DEF PostRaised, store, history
  <2>2. /\ \A q \in Processes \ {p} : proc'[q] = proc[q]
        /\ proc'[p].stage = "connecting" /\ Held(proc'[p]) = {}
    BY <2>1, GoesOn, StageForm
  <2> QED
    BY <2>1, <2>2, QuietStayed DEF Raising
<1>3. CASE PostRaisedFails(p) \/ OpenQueue(p)
  <2>1. /\ \/ Becomes(p, At("queueing", proc[p].event, {}, {}))
           \/ Becomes(p, At("appending", proc[p].event, {}, {}))
        /\ Raising(proc[p]) /\ UNCHANGED <<fresh, file, tmp, removed>>
    BY <1>3 DEF PostRaisedFails, OpenQueue, Raising, store, history
  <2>2. /\ \A q \in Processes \ {p} : proc'[q] = proc[q]
        /\ proc'[p].stage \in {"queueing", "appending"}
        /\ proc'[p].event = proc[p].event /\ Held(proc'[p]) = proc[p].event
    <3>1. /\ proc[p].event \subseteq Events /\ fresh' \subseteq fresh
          /\ (proc[p].event \cup {} \cup {}) \cap fresh' = {}
      BY <2>1, ProcForm
    <3>2. PICK s \in Stages : /\ s \in {"queueing", "appending"}
                              /\ Becomes(p, At(s, proc[p].event, {}, {}))
      BY <2>1, StageForm
    <3>3. /\ \A q \in Processes \ {p} : proc'[q] = proc[q]
          /\ proc'[p].stage = s /\ proc'[p].event = proc[p].event
          /\ proc'[p].items = {} /\ proc'[p].kept = {}
      BY <3>1, <3>2, GoesOn
    <3> QED
      BY <3>2, <3>3 DEF Held
  <2> QED
    BY <2>1, <2>2, QuietStayed, HeldForm
<1>4. CASE EnqueueApproval(p) \/ EnqueueFails(p)
  <2>1. /\ Leaves(p, Off) /\ file' \in {file, file \cup proc[p].event} /\ Raising(proc[p])
        /\ UNCHANGED <<fresh, tmp, removed>>
    BY <1>4 DEF EnqueueApproval, EnqueueFails, Appended, Raising
  <2>2. /\ \A q \in Processes \ {p} : proc'[q] = proc[q]
        /\ proc'[p].stage = "off" /\ Held(proc'[p]) = {}
    <3>1. Becomes(p, At("off", {}, {}, {})) /\ fresh' = fresh
      BY <2>1, LeavesForm
    <3> QED
      BY <3>1, GoesOn, StageForm
  <2>3. Rewritten' = Rewritten
    BY <2>1 DEF Rewritten
  <2>4. OnItsWay'
    <3>1. ~ Raising(proc'[p])
      BY <2>2 DEF Raising
    <3> QED
      BY <2>1, <2>2, <2>3, <3>1, HeldForm, OthersOnTheirWay
  <2>5. RemovedStaysOut'
    BY <2>1 DEF RInv, OnItsWay, RemovedStaysOut
  <2>6. KeptStayed' /\ WrittenStayed'
    BY <2>1, <2>2, <2>3 DEF RInv, KeptStayed, WrittenStayed, Rewriting
  <2> QED
    BY <2>4, <2>5, <2>6 DEF RInv
<1>5. QED
  BY <1>1, <1>2, <1>3, <1>4 DEF RunNext

\* The steps of a flush do.
LEMMA FlushStays ==
  ASSUME TInv, RInv, NEW p \in Processes,
         \/ Connect(p) \/ ListApprovals(p) \/ FlushDone(p)
         \/ \E e \in Events : PostQueued(p, e) \/ PostQueuedFails(p, e)
  PROVE  RInv'
<1>1. UNCHANGED <<fresh, file, tmp, removed>>
  BY DEF Connect, ListApprovals, FlushDone, PostQueued, PostQueuedFails, store, history
<1>2. /\ \A q \in Processes \ {p} : proc'[q] = proc[q]
      /\ proc'[p].stage \in {"connecting", "flushing", "removing", "off"}
      /\ Held(proc'[p]) \subseteq Held(proc[p]) \cup file
  <2>1. CASE Connect(p) \/ FlushDone(p)
    <3>1. Becomes(p, At("connecting", {}, {}, {})) \/ Becomes(p, At("off", {}, {}, {}))
      BY <2>1 DEF Connect, FlushDone, Off
    <3> QED
      BY <1>1, <3>1, GoesOn, StageForm
  <2>2. CASE ListApprovals(p)
    <3>1. Becomes(p, At("flushing", {}, file, {})) /\ file \subseteq Events /\ file \cap fresh = {}
      BY <2>2 DEF ListApprovals, TInv, TypeOK
    <3> QED
      BY <1>1, <3>1, GoesOn, StageForm
  <2>3. ASSUME NEW e \in Events, PostQueued(p, e)
        PROVE  /\ \A q \in Processes \ {p} : proc'[q] = proc[q]
               /\ proc'[p].stage = "removing" /\ Held(proc'[p]) \subseteq Held(proc[p])
    <3>1. /\ Becomes(p, At("removing", {e}, proc[p].items \ {e}, {})) /\ e \in proc[p].items
      BY <2>3 DEF PostQueued
    <3>2. ({e} \cup (proc[p].items \ {e}) \cup {}) \cap fresh' = {}
      BY <1>1, <3>1, ProcForm
    <3>3. proc[p].items \ {e} \subseteq Events
      BY ProcForm
    <3>4. /\ \A q \in Processes \ {p} : proc'[q] = proc[q]
          /\ proc'[p].stage = "removing" /\ Held(proc'[p]) = {e} \cup (proc[p].items \ {e}) \cup {}
      BY <1>1, <3>1, <3>2, <3>3, GoesOn, StageForm
    <3> QED
      BY <3>1, <3>4, HeldForm
  <2>4. ASSUME NEW e \in Events, PostQueuedFails(p, e)
        PROVE  /\ \A q \in Processes \ {p} : proc'[q] = proc[q]
               /\ proc'[p].stage = "off" /\ Held(proc'[p]) = {}
    <3>1. Becomes(p, At("off", {}, {}, {}))
      BY <2>4 DEF PostQueuedFails, AfterFailedPost, Off
    <3> QED
      BY <1>1, <3>1, GoesOn, StageForm
  <2>5. QED
    BY <2>1, <2>2, <2>3, <2>4
<1>3. QED
  BY <1>1, <1>2, QuietStayed DEF Raising

\* The steps of a rewriting do,
LEMMA RewriteStays ==
  ASSUME TInv, RInv, NEW p \in Processes, RemoveRead(p) \/ OpenTmp(p) \/ WriteTmp(p)
  PROVE  RInv'
<1>1. CASE RemoveRead(p)
  <2>1. /\ Becomes(p, At("opening", proc[p].event, proc[p].items, file \ proc[p].event))
        /\ UNCHANGED <<fresh, file, tmp, removed>>
    BY <1>1 DEF RemoveRead, Kept, store
  <2>2. file \ proc[p].event \subseteq Events /\ (file \ proc[p].event) \cap fresh = {}
    BY DEF TInv, TypeOK
  <2>3. /\ \A q \in Processes \ {p} : proc'[q] = proc[q]
        /\ proc'[p].stage = "opening" /\ proc'[p].event = proc[p].event
        /\ proc'[p].kept = file \ proc[p].event
        /\ Held(proc'[p]) = proc[p].event \cup proc[p].items \cup (file \ proc[p].event)
    BY <2>1, <2>2, GoesOn, StageForm, ProcForm
  <2>4. Rewritten' = Rewritten
    BY <2>1 DEF Rewritten
  <2>5. OnItsWay'
    BY <2>1, <2>3, <2>4, HeldForm, OthersOnTheirWay DEF Raising
  <2>6. RemovedStaysOut' /\ WrittenStayed'
    BY <2>1, <2>3, <2>4 DEF RInv, RemovedStaysOut, WrittenStayed
  <2>7. KeptStayed'
    BY <2>1, <2>3 DEF RInv, RemovedStaysOut, KeptStayed, Rewriting
  <2> QED
    BY <2>5, <2>6, <2>7 DEF RInv
<1>2. ASSUME OpenTmp(p) \/ WriteTmp(p)
      PROVE  /\ \A q \in Processes \ {p} : proc'[q] = proc[q]
             /\ Rewriting(p) /\ proc'[p].stage \in {"writing", "replacing"}
             /\ ~ Raising(proc'[p]) /\ Held(proc'[p]) \subseteq Held(proc[p])
             /\ UNCHANGED <<fresh, removed>> /\ KeptStayed'
  <2>1. /\ \/ Becomes(p, At("writing", proc[p].event, proc[p].items, proc[p].kept))
           \/ Becomes(p, At("replacing", proc[p].event, proc[p].items, proc[p].kept))
        /\ Rewriting(p) /\ UNCHANGED <<fresh, removed>>
    BY <1>2 DEF OpenTmp, WriteTmp, Rewriting, history
  <2>2. /\ \A q \in Processes \ {p} : proc'[q] = proc[q]
        /\ proc'[p].stage \in {"writing", "replacing"}
        /\ proc'[p].event = proc[p].event /\ proc'[p].kept = proc[p].kept
        /\ Held(proc'[p]) = proc[p].event \cup proc[p].items \cup proc[p].kept
    BY <2>1, GoesOn, StageForm, ProcForm
  <2>3. KeptStayed'
    BY <2>1, <2>2 DEF RInv, KeptStayed, Rewriting
  <2>4. Held(proc'[p]) \subseteq Held(proc[p])
    BY <2>2, HeldForm
  <2>5. ~ Raising(proc'[p])
    BY <2>2 DEF Raising
  <2> QED
    BY <2>1, <2>2, <2>3, <2>4, <2>5
<1>3. CASE OpenTmp(p)
  <2>1. Rewritten' = {} /\ file' = file
    BY <1>3 DEF OpenTmp, Rewritten
  <2>2. OnItsWay'
    BY <1>2, <1>3, <2>1, OthersOnTheirWay
  <2>3. RemovedStaysOut' /\ WrittenStayed'
    BY <1>2, <1>3, <2>1 DEF RInv, RemovedStaysOut, WrittenStayed
  <2> QED
    BY <1>2, <1>3, <2>2, <2>3 DEF RInv
<1>4. CASE WriteTmp(p)
  <2>1. /\ proc[p].stage = "writing" /\ proc[p].kept \cap removed = {}
        /\ Rewritten \cap removed = {} /\ file \cap removed = {}
        /\ proc[p].kept \subseteq Held(proc[p])
    BY <1>2, <1>4, HeldForm DEF WriteTmp, RInv, KeptStayed, WrittenStayed, RemovedStaysOut
  <2>2. /\ file' \subseteq file \cup proc[p].kept
        /\ Rewritten' \subseteq Rewritten \cup proc[p].kept
    BY <1>4, WritesAdd, AddsForm
  <2>3. OnItsWay'
    BY <1>2, <1>4, <2>1, <2>2, OthersOnTheirWay
  <2>4. RemovedStaysOut' /\ WrittenStayed'
    BY <1>2, <1>4, <2>1, <2>2 DEF RemovedStaysOut, WrittenStayed
  <2> QED
    BY <1>2, <1>4, <2>3, <2>4 DEF RInv
<1>5. QED
  BY <1>1, <1>3, <1>4

\* and those that end one.
LEMMA ReplaceStays ==
  ASSUME TInv, KInv, RInv, NEW p \in Processes,
         Replace(p) \/ RemoveBoth(p) \/ Stop(p) \/ WriteBreaks(p)
  PROVE  RInv'
<1>1. CASE Stop(p)
  <2>1. Leaves(p, Off) /\ UNCHANGED <<fresh, file, tmp, removed>>
    BY <1>1 DEF Stop, store
  <2>2. /\ \A q \in Processes \ {p} : proc'[q] = proc[q]
        /\ proc'[p].stage = "off" /\ Held(proc'[p]) = {}
    <3>1. Becomes(p, At("off", {}, {}, {})) /\ fresh' = fresh
      BY <2>1, LeavesForm
    <3> QED
      BY <3>1, GoesOn, StageForm
  <2> QED
    BY <2>1, <2>2, QuietStayed DEF Raising
<1>2. CASE Replace(p) \/ RemoveBoth(p)
  <2>1. /\ \/ Becomes(p, At("off", {}, {}, {}))
           \/ Becomes(p, At("flushing", {}, proc[p].items, {}))
        /\ \/ file' = {} /\ removed' \in {removed, removed \cup proc[p].event}
           \/ file' = file /\ removed' = removed
           \/ /\ file' = tmp[1] /\ tmp # << >>
              /\ removed' = IF p \in apart THEN removed \cup proc[p].event ELSE removed
        /\ removed' \in {removed, removed \cup proc[p].event}
        /\ p \notin apart => removed' = removed
        /\ proc[p].stage = "replacing" /\ tmp' = << >> /\ fresh' = fresh
    BY <1>2 DEF Replace, RemoveBoth, Removes, Off
  <2>2. /\ \A q \in Processes \ {p} : proc'[q] = proc[q]
        /\ proc'[p].stage \in {"off", "flushing"} /\ Held(proc'[p]) \subseteq proc[p].items
    BY <2>1, GoesOn, StageForm, ProcForm
  <2>3. /\ Rewriting(p) /\ ~ Raising(proc'[p]) /\ Rewritten' = {}
        /\ file' \subseteq file \cup Rewritten
    BY <2>1, <2>2 DEF Rewriting, Raising, Rewritten
  <2>4. OnItsWay'
    BY <2>1, <2>2, <2>3, HeldForm, OthersOnTheirWay
  <2>5. /\ proc[p].kept \cap (proc[p].event \cup removed) = {} /\ Rewritten \cap removed = {}
        /\ file \cap removed = {}
    BY <2>1, <2>3 DEF RInv, KeptStayed, WrittenStayed, RemovedStaysOut
  <2>6. RemovedStaysOut'
    <3>1. CASE file' = tmp[1] /\ tmp # << >> /\ p \in apart
      <4>1. tmp[1] = proc[p].kept
        BY <2>1, <2>3, <3>1 DEF KInv, Alone
      <4> QED
        BY <2>1, <2>5, <3>1, <4>1 DEF RemovedStaysOut
    <3>2. CASE file' = tmp[1] /\ tmp # << >> /\ p \notin apart
      BY <2>1, <2>5, <3>2 DEF RemovedStaysOut, Rewritten
    <3>3. QED
      BY <2>1, <2>5, <3>1, <3>2 DEF RemovedStaysOut
  <2>7. WrittenStayed'
    BY <2>3 DEF WrittenStayed
  <2>8. KeptStayed'
    <3> SUFFICES ASSUME NEW q \in Processes, Rewriting(q)'
                 PROVE  proc'[q].kept \cap (proc'[q].event \cup removed') = {}
      BY DEF KeptStayed
    <3>1. q # p /\ proc'[q] = proc[q]
      BY <2>2 DEF Rewriting
    <3>2. Rewriting(q) /\ q \in Rewriters
      BY <3>1 DEF Rewriting, Rewriters
    <3>3. p \notin apart
      BY <3>1, <3>2, OnlyOne
    <3> QED
      BY <2>1, <3>1, <3>2, <3>3 DEF RInv, KeptStayed
  <2> QED
    BY <2>4, <2>6, <2>7, <2>8 DEF RInv
<1>3. CASE WriteBreaks(p)
  <2>1. Leaves(p, Off) /\ proc[p].stage = "writing" /\ UNCHANGED <<fresh, removed>>
    BY <1>3 DEF WriteBreaks
  <2>2. /\ \A q \in Processes \ {p} : proc'[q] = proc[q]
        /\ proc'[p].stage = "off" /\ Held(proc'[p]) = {}
    <3>1. Becomes(p, At("off", {}, {}, {})) /\ fresh' = fresh
      BY <2>1, LeavesForm
    <3> QED
      BY <3>1, GoesOn, StageForm
  <2>3. /\ file' \subseteq file \cup proc[p].kept /\ proc[p].kept \subseteq Held(proc[p])
        /\ Rewritten' \subseteq Rewritten \cup proc[p].kept
    BY <1>3, WritesAdd, AddsForm, HeldForm
  <2>4. OnItsWay'
    BY <2>1, <2>2, <2>3, OthersOnTheirWay DEF Raising
  <2>5. /\ proc[p].kept \cap removed = {} /\ Rewritten \cap removed = {} /\ file \cap removed = {}
    BY <2>1 DEF RInv, KeptStayed, WrittenStayed, RemovedStaysOut, Rewriting
  <2>6. RemovedStaysOut' /\ WrittenStayed' /\ KeptStayed'
    BY <2>1, <2>2, <2>3, <2>5 DEF RInv, RemovedStaysOut, WrittenStayed, KeptStayed, Rewriting
  <2> QED
    BY <2>4, <2>6 DEF RInv
<1>4. QED
  BY <1>1, <1>2, <1>3

\* What a rewriting removed, while no other process rewrote the file, does not come back
\* from any process's copy, whichever of them append, flush and end meanwhile.
THEOREM RemovedStays == Spec => []RemovedStaysOut
<1>1. Init => RInv
  BY DEF Init, RInv, RemovedStaysOut, OnItsWay, KeptStayed, WrittenStayed, Raising, Rewriting, Off, At
<1>2. TInv /\ KInv /\ RInv /\ [Next]_vars => RInv'
  <2> SUFFICES ASSUME TInv, KInv, RInv, [Next]_vars PROVE RInv'
    OBVIOUS
  <2>1. CASE UNCHANGED vars
    BY <2>1 DEF vars, store, history, RInv, RemovedStaysOut, OnItsWay, KeptStayed, WrittenStayed,
                Rewritten, Rewriting
  <2>2. CASE Next
    BY <2>2, RunStays, FlushStays, RewriteStays, ReplaceStays DEF Next, FlushNext
  <2>3. QED
    BY <2>1, <2>2
<1>3. RInv => RemovedStaysOut
  BY DEF RInv
<1>4. QED
  BY <1>1, <1>2, <1>3, AlwaysTyped, AlwaysKept, PTL DEF Spec

--------------------------------------------------------------------------------
(* The history of an AI tool: what holds of the disk. *)

\* Each line has a number of its own.
Distinct(lines) == \A i, j \in DOMAIN lines : lines[i].n = lines[j].n => i = j

LinesOK(lines, upto) ==
  /\ lines \in Seq(Line) /\ Distinct(lines)
  /\ \A i \in DOMAIN lines : lines[i].n <= upto

\* Two files have no line in common.
Separate ==
  \A f, g \in Files : \A i \in DOMAIN content[f], j \in DOMAIN content[g] :
    content[f][i].n = content[g][j].n => f = g

DiskOK ==
  /\ tool \in Tools /\ written \in 0..MaxLines
  /\ DOMAIN content = Files /\ \A f \in Files : LinesOK(content[f], written)
  /\ Separate
  /\ half \subseteq Sessions /\ moved \subseteq Sessions
  /\ \A f \in half : content[f] # <<>> /\ ~ content[f][Len(content[f])].whole
  /\ backups \in [1..LastSecond -> SUBSET (1..written)]

--------------------------------------------------------------------------------
(* What holds of the deletions. *)

\* What a handler has read is of the history, and of no other file.
DelType == [at : {"none", "copy", "truncate", "write", "move"},
            session : Sessions \cup {"none"}, body : Seq(Line), apart : BOOLEAN,
            since : 1..LastSecond]

DelsOK ==
  /\ DOMAIN del = Handlers
  /\ \A d \in Handlers :
       /\ del[d] \in DelType
       /\ del[d].at # "none" => del[d].session \in Sessions
       /\ LinesOK(del[d].body, written)
       /\ del[d].at \in {"none", "move"} => del[d].body = <<>>
       /\ \A f \in Sessions : \A i \in DOMAIN content[f], j \in DOMAIN del[d].body :
            content[f][i].n # del[d].body[j].n

\* The lines a rewriting may lose are in the trash, or went there and were overwritten,
\* or were exposed.
Saved == (UNION {backups[t] : t \in 1..LastSecond}) \cup past.exposed \cup past.overwritten

LinesSaved ==
  /\ 1..written \subseteq (UNION {Numbers(content[f]) : f \in Files}) \cup Saved
  /\ \A d \in Handlers :
       /\ del[d].at = "copy" => Numbers(del[d].body) \subseteq Numbers(content[History]) \cup Saved
       /\ del[d].at \in {"truncate", "write"} =>
            Numbers(content[History]) \cup Numbers(del[d].body) \subseteq Saved

Without(lines, s) == \A i \in DOMAIN lines : lines[i].session # s

\* A deletion that none overlapped has taken its session out.
TakenOut ==
  /\ \A d, e \in Handlers : del[d].at # "none" /\ del[d].apart /\ del[e].at # "none" => d = e
  /\ \A d \in Handlers : del[d].at = "move" /\ del[d].apart =>
       Without(content[History], del[d].session)
  /\ DOMAIN past = {"exposed", "overwritten", "deleted"} /\ past.deleted \subseteq Sessions
  /\ \A s \in past.deleted :
       /\ Without(content[History], s)
       /\ \A d \in Handlers : Without(del[d].body, s)

--------------------------------------------------------------------------------
(* What holds of the monitor. *)

ScanType == [at : {"start", "rest", "list", "read"}, baseline : BOOLEAN, todo : SUBSET Watched,
             file : Files, from : 0..(2 * MaxLines), events : SUBSET Line]

ScanOK ==
  /\ DOMAIN offset = Files /\ \A f \in Files : offset[f] \in Unseen..(2 * MaxLines)
  /\ scan \in ScanType
  /\ \A l \in scan.events : l.asks
  /\ scan.at \in {"start", "rest"} => scan.events = {}
  /\ scan.at = "start" \/ scan.baseline => scan.events = {} /\ life.shown = {} /\ scan.at # "read"
  /\ DOMAIN life = {"base", "shown", "lost", "rewritten"}
  /\ life.base \subseteq 1..written
  /\ \A d \in Handlers : del[d].at = "write" => History \in life.rewritten

News == life.shown \cup {l.n : l \in scan.events}

\* The monitor has still to read the line, or is about to.
Ahead(f, i) ==
  \/ 2 * (i - 1) >= offset[f]
  \/ scan.at = "read" /\ scan.file = f /\ 2 * (i - 1) >= scan.from

\* What the monitor knows of a file: it is not past its end, and each line of it is
\* either dealt with or ahead.
NoticedIn(f) ==
  /\ offset[f] <= Size(f)
  /\ \A i \in DOMAIN content[f] :
       /\ content[f][i].asks /\ content[f][i].whole =>
            content[f][i].n \in life.base \cup News \cup life.lost \/ Ahead(f, i)
       /\ content[f][i].n \in life.base => content[f][i].n \notin News /\ ~ Ahead(f, i)

Noticed == \A f \in Watched \ (life.rewritten \cup moved) : NoticedIn(f)

NowOK == now \in 1..LastSecond

HInv == DiskOK /\ DelsOK /\ LinesSaved /\ TakenOut /\ ScanOK /\ Noticed

--------------------------------------------------------------------------------
(* Lemmas about lines. *)

\* A file is a function on its positions.
LEMMA FileForm ==
  ASSUME NEW lines \in Seq(Line)
  PROVE  /\ Len(lines) \in Nat /\ DOMAIN lines = 1..Len(lines)
         /\ \A i \in DOMAIN lines : lines[i] \in Line
         /\ lines # <<>> <=> Len(lines) # 0
         /\ Numbers(lines) = {lines[i].n : i \in DOMAIN lines}
         /\ \A i \in DOMAIN lines : /\ lines[i].n \in 1..MaxLines /\ lines[i].session \in Sessions
                                   /\ lines[i].asks \in BOOLEAN
<1>1. Len(lines) \in Nat /\ DOMAIN lines = 1..Len(lines) /\ \A i \in DOMAIN lines : lines[i] \in Line
  OBVIOUS
<1>2. lines # <<>> <=> Len(lines) # 0
  OBVIOUS
<1>3. Numbers(lines) = {lines[i].n : i \in DOMAIN lines}
  BY DEF Numbers, Range
<1>4. \A i \in DOMAIN lines : /\ lines[i].n \in 1..MaxLines /\ lines[i].session \in Sessions
                              /\ lines[i].asks \in BOOLEAN
  BY <1>1 DEF Line
<1>5. QED
  BY <1>1, <1>2, <1>3, <1>4

\* A number is in a file when one of its lines has it.
LEMMA NumberOf ==
  ASSUME NEW lines \in Seq(Line), NEW n
  PROVE  n \in Numbers(lines) <=> \E i \in DOMAIN lines : n = lines[i].n
<1>1. Numbers(lines) = {lines[i].n : i \in DOMAIN lines}
  BY FileForm
<1>2. QED
  BY <1>1

\* The empty file is well formed.
LEMMA EmptyFile ==
  ASSUME NEW upto
  PROVE  LinesOK(<<>>, upto) /\ Numbers(<<>>) = {} /\ \A s : Without(<<>>, s)
<1>1. <<>> \in Seq(Line) /\ DOMAIN <<>> = {} /\ Len(<<>>) = 0
  OBVIOUS
<1>2. Numbers(<<>>) = {}
  BY <1>1, FileForm
<1>3. QED
  BY <1>1, <1>2 DEF LinesOK, Distinct, Without

\* The numbers up to n.
LEMMA CountedNumbers ==
  ASSUME NEW n \in Nat
  PROVE  IsFiniteSet(1..n) /\ Cardinality(1..n) = n
<1>1. IsFiniteSet(1..n) /\ Cardinality(1..n) = IF 1 > n THEN 0 ELSE n - 1 + 1
  BY FS_Interval
<1>2. (IF 1 > n THEN 0 ELSE n - 1 + 1) = n
  OBVIOUS
<1>3. QED
  BY <1>1, <1>2

\* A well-formed file has no more lines than the tool has written.
LEMMA FileLength ==
  ASSUME NEW upto \in Nat, NEW lines, LinesOK(lines, upto)
  PROVE  Len(lines) <= upto /\ Cardinality(Numbers(lines)) = Len(lines)
<1> DEFINE num == [i \in 1..Len(lines) |-> lines[i].n]
<1>1. /\ lines \in Seq(Line) /\ Len(lines) \in Nat /\ DOMAIN lines = 1..Len(lines)
      /\ \A i \in 1..Len(lines) : lines[i].n \in 1..upto
      /\ \A i, j \in 1..Len(lines) : lines[i].n = lines[j].n => i = j
      /\ Numbers(lines) = {lines[i].n : i \in 1..Len(lines)}
  <2>1. /\ lines \in Seq(Line) /\ Distinct(lines) /\ \A i \in DOMAIN lines : lines[i].n <= upto
    BY DEF LinesOK
  <2>2. \A i \in DOMAIN lines : lines[i].n \in 1..upto
    BY <2>1, FileForm
  <2> QED
    BY <2>1, <2>2, FileForm DEF Distinct
<1>2. num \in Injection(1..Len(lines), 1..upto)
  BY <1>1 DEF Injection, IsInjective
<1>3. num \in Bijection(1..Len(lines), Numbers(lines))
  BY <1>1 DEF Bijection, Injection, IsInjective, Surjection
<1>4. /\ IsFiniteSet(1..Len(lines)) /\ Cardinality(1..Len(lines)) = Len(lines)
      /\ IsFiniteSet(1..upto) /\ Cardinality(1..upto) = upto
  BY <1>1, CountedNumbers
<1>5. Len(lines) <= upto
  <2> HIDE DEF num
  <2> QED
    BY <1>2, <1>4, FS_Injection
<1>6. Cardinality(Numbers(lines)) = Len(lines)
  <2> HIDE DEF num
  <2>1. ExistsBijection(1..Len(lines), Numbers(lines))
    BY <1>3 DEF ExistsBijection
  <2> QED
    BY <2>1, <1>4, FS_Bijection
<1>7. QED
  BY <1>5, <1>6

\* Each place in a finite set of numbers is taken by one of them.
LEMMA Places ==
  ASSUME NEW n \in Nat, NEW others \in SUBSET (1..n)
  PROVE  /\ Cardinality(others) \in Nat
         /\ \A k \in 1..Cardinality(others) :
              \E i \in others : Cardinality({j \in others : j <= i}) = k
<1> DEFINE Before(i) == {j \in others : j <= i}
           place == [i \in others |-> Cardinality(Before(i))]
<1>1. IsFiniteSet(others) /\ Cardinality(others) \in Nat
  <2>1. IsFiniteSet(1..n)
    BY CountedNumbers
  <2>2. IsFiniteSet(others)
    BY <2>1, FS_Subset
  <2> QED
    BY <2>2, FS_CardinalityType
<1>2. \A i \in others : /\ IsFiniteSet(Before(i)) /\ Cardinality(Before(i)) \in Nat
                        /\ Cardinality(Before(i)) <= Cardinality(others)
                        /\ Cardinality(Before(i)) # 0
  <2> TAKE i \in others
  <2>1. Before(i) \in SUBSET others /\ i \in Before(i)
    OBVIOUS
  <2> HIDE DEF Before
  <2>2. IsFiniteSet(Before(i)) /\ Cardinality(Before(i)) <= Cardinality(others)
    BY <1>1, <2>1, FS_Subset
  <2> QED
    BY <2>1, <2>2, FS_CardinalityType, FS_EmptySet
<1>3. \A i, j \in others : Cardinality(Before(i)) = Cardinality(Before(j)) => ~ i < j
  <2> TAKE i, j \in others
  <2> HAVE Cardinality(Before(i)) = Cardinality(Before(j))
  <2> SUFFICES ASSUME i < j PROVE FALSE
    OBVIOUS
  <2>0. i \in Nat /\ j \in Nat /\ \A m \in others : m \in Nat
    OBVIOUS
  <2>1. Before(i) \in SUBSET Before(j) /\ j \in Before(j) /\ j \notin Before(i)
    <3>1. Before(i) \in SUBSET Before(j)
      <4> SUFFICES ASSUME NEW m \in others, m <= i PROVE m <= j
        OBVIOUS
      <4> QED
        BY <2>0
    <3>2. j \in Before(j) /\ j \notin Before(i)
      BY <2>0
    <3> QED
      BY <3>1, <3>2
  <2> HIDE DEF Before
  <2> QED
    BY <1>2, <2>1, FS_Subset
<1>4. place \in Injection(others, 1..Cardinality(others))
  <2>1. \A i, j \in others : place[i] = place[j] => i = j
    <3> HIDE DEF Before
    <3> QED
      BY <1>3
  <2>2. place \in [others -> 1..Cardinality(others)]
    <3> HIDE DEF Before
    <3> QED
      BY <1>1, <1>2
  <2> HIDE DEF place
  <2> QED
    BY <2>1, <2>2 DEF Injection, IsInjective
<1>5. place \in Surjection(others, 1..Cardinality(others))
  <2> HIDE DEF place
  <2> QED
    BY <1>1, <1>4, FS_Injection, CountedNumbers
<1>6. \A k \in 1..Cardinality(others) : \E i \in others : place[i] = k
  <2> HIDE DEF place
  <2> QED
    BY <1>5 DEF Surjection
<1>7. QED
  BY <1>1, <1>6

\* What is left of a file without a session's lines.
LEMMA KeptLines ==
  ASSUME NEW upto, NEW lines, LinesOK(lines, upto), NEW s, NEW out, out = WithoutSession(lines, s)
  PROVE  /\ LinesOK(out, upto) /\ Without(out, s)
         /\ \A k \in DOMAIN out : \E i \in DOMAIN lines : out[k] = lines[i]
<1> DEFINE others == {i \in DOMAIN lines : lines[i].session # s}
           Place(i) == Cardinality({j \in others : j <= i})
           pick == [k \in 1..Cardinality(others) |-> CHOOSE i \in others : Place(i) = k]
<1>1. lines \in Seq(Line) /\ Len(lines) \in Nat /\ DOMAIN lines = 1..Len(lines)
  BY FileForm DEF LinesOK
<1>2. Cardinality(others) \in Nat /\ \A k \in 1..Cardinality(others) : \E i \in others : Place(i) = k
  <2>1. others \in SUBSET (1..Len(lines))
    BY <1>1
  <2> HIDE DEF others
  <2> QED
    BY <1>1, <2>1, Places
<1>3. \A k \in 1..Cardinality(others) : pick[k] \in others /\ Place(pick[k]) = k
  <2> HIDE DEF others, Place
  <2> QED
    BY <1>2
<1>4. out = [k \in 1..Cardinality(others) |-> lines[pick[k]]]
  BY DEF WithoutSession
<1> HIDE DEF pick, Place
<1>5. \A k \in 1..Cardinality(others) :
        pick[k] \in DOMAIN lines /\ lines[pick[k]].session # s
  BY <1>3
<1>6. \A k, m \in 1..Cardinality(others) : pick[k] = pick[m] => k = m
  BY <1>3
<1> HIDE DEF others
<1>7. DOMAIN out = 1..Cardinality(others) /\ \A k \in DOMAIN out : out[k] = lines[pick[k]]
  BY <1>4
<1>8. out \in Seq(Line)
  BY <1>1, <1>2, <1>4, <1>5
<1>9. Distinct(out)
  BY <1>5, <1>6, <1>7 DEF Distinct, LinesOK
<1>10. \A k \in DOMAIN out : out[k].n <= upto
  BY <1>5, <1>7 DEF LinesOK
<1>11. LinesOK(out, upto) /\ Without(out, s)
  BY <1>5, <1>7, <1>8, <1>9, <1>10 DEF LinesOK, Without
<1>12. QED
  BY <1>5, <1>7, <1>11
\* A line written to a file is its last, and new.
LEMMA AppendedLine ==
  ASSUME NEW upto \in Nat, NEW lines, LinesOK(lines, upto), NEW l \in Line, l.n = upto + 1,
         NEW out \in {Append(lines, l)}
  PROVE  /\ LinesOK(out, upto + 1) /\ Len(out) = Len(lines) + 1
         /\ Numbers(out) = Numbers(lines) \cup {l.n}
         /\ DOMAIN out = DOMAIN lines \cup {Len(out)}
         /\ out[Len(out)] = l /\ \A i \in DOMAIN lines : out[i] = lines[i] /\ i # Len(out)
<1>1. lines \in Seq(Line) /\ Distinct(lines) /\ \A i \in DOMAIN lines : lines[i].n <= upto
  BY DEF LinesOK
<1>2. /\ Len(lines) \in Nat /\ DOMAIN lines = 1..Len(lines)
      /\ \A i \in DOMAIN lines : lines[i].n \in Int
      /\ Numbers(lines) = {lines[i].n : i \in DOMAIN lines}
  BY <1>1, FileForm
<1>3. /\ out \in Seq(Line) /\ Len(out) = Len(lines) + 1
      /\ out[Len(out)] = l /\ \A i \in 1..Len(lines) : out[i] = lines[i] /\ i # Len(out)
  BY <1>1, <1>2
<1>4. DOMAIN out = 1..Len(out) /\ Numbers(out) = {out[i].n : i \in DOMAIN out}
  BY <1>3, FileForm
<1>5. DOMAIN out = DOMAIN lines \cup {Len(out)}
  BY <1>2, <1>3, <1>4
<1>6. Numbers(out) = Numbers(lines) \cup {l.n}
  BY <1>2, <1>3, <1>4, <1>5
<1>7. Distinct(out)
  BY <1>1, <1>2, <1>3, <1>5 DEF Distinct
<1>8. \A i \in DOMAIN out : out[i].n <= upto + 1
  BY <1>1, <1>2, <1>3, <1>5
<1>9. QED
  BY <1>2, <1>3, <1>5, <1>6, <1>7, <1>8 DEF LinesOK

\* More lines may have been written since.
LEMMA OlderLines ==
  ASSUME NEW upto \in Nat, NEW lines, LinesOK(lines, upto)
  PROVE  LinesOK(lines, upto + 1) /\ \A i \in DOMAIN lines : lines[i].n # upto + 1
<1>1. lines \in Seq(Line) /\ Distinct(lines) /\ \A i \in DOMAIN lines : lines[i].n <= upto
  BY DEF LinesOK
<1>2. \A i \in DOMAIN lines : lines[i].n \in Int
  BY <1>1, FileForm
<1>3. QED
  BY <1>1, <1>2 DEF LinesOK

--------------------------------------------------------------------------------
(* Lemmas about files. *)

\* The shape of a file, and of its size.
LEMMA SizeForm ==
  ASSUME ToolsAssumption, DiskOK, NEW f \in Files
  PROVE  /\ content[f] \in Seq(Line) /\ LinesOK(content[f], written)
         /\ Len(content[f]) \in Nat /\ DOMAIN content[f] = 1..Len(content[f])
         /\ Size(f) \in Nat /\ Size(f) <= 2 * MaxLines
         /\ f \in half => Size(f) = 2 * Len(content[f]) - 1 /\ Len(content[f]) # 0
         /\ f \notin half => Size(f) = 2 * Len(content[f])
<1>1. LinesOK(content[f], written) /\ written \in 0..MaxLines /\ MaxLines \in Nat
  BY DEF DiskOK, ToolsAssumption
<1>2. content[f] \in Seq(Line) /\ Len(content[f]) <= written
  BY <1>1, FileLength DEF LinesOK
<1>3. Len(content[f]) \in Nat /\ DOMAIN content[f] = 1..Len(content[f])
  BY <1>2, FileForm
<1>4. f \in half => Len(content[f]) # 0
  BY <1>2, FileForm DEF DiskOK
<1>5. CASE f \in half
  BY <1>1, <1>2, <1>3, <1>4, <1>5 DEF Size
<1>6. CASE f \notin half
  BY <1>1, <1>2, <1>3, <1>6 DEF Size
<1>7. QED
  BY <1>5, <1>6

\* The files that are watched are files.
LEMMA WatchedFiles == Watched \subseteq Files /\ Sessions \subseteq Files /\ History \in Files
BY DEF Watched, Files

--------------------------------------------------------------------------------
(* What the invariant says. *)

\* The types follow from it.
LEMMA InvTypes == ASSUME ToolsAssumption, HInv, NowOK PROVE ToolsTypeOK
<1>1. \A f \in Files : /\ content[f] \in Seq(Line)
                       /\ Cardinality(Numbers(content[f])) = Len(content[f])
                       /\ offset[f] \in Unseen..(2 * MaxLines)
  <2> TAKE f \in Files
  <2>1. LinesOK(content[f], written) /\ written \in Nat
    BY DEF HInv, DiskOK, ToolsAssumption
  <2>2. offset[f] \in Unseen..(2 * MaxLines)
    BY DEF HInv, ScanOK
  <2> QED
    BY <2>1, <2>2, FileLength DEF LinesOK
<1>2. half \subseteq {s \in Sessions : content[s] # <<>>} /\ moved \subseteq Sessions
  BY DEF HInv, DiskOK
<1>3. /\ tool \in Tools /\ written \in 0..MaxLines /\ now \in 1..LastSecond
      /\ backups \in [1..LastSecond -> SUBSET (1..written)]
  BY DEF HInv, DiskOK, NowOK
<1>4. /\ scan.at \in {"start", "rest", "list", "read"}
      /\ scan.todo \subseteq Watched /\ scan.from \in 0..(2 * MaxLines)
      /\ \A l \in scan.events : l \in Line /\ l.asks
  BY DEF HInv, ScanOK, ScanType
<1>5. \A d \in Handlers : del[d].at \in {"none", "copy", "truncate", "write", "move"}
  BY DEF HInv, DelsOK, DelType
<1>6. QED
  BY <1>1, <1>2, <1>3, <1>4, <1>5 DEF ToolsTypeOK

\* No request is skipped.
LEMMA InvNotices == ASSUME HInv PROVE RequestsAreNoticed
<1>1. Noticed
  BY DEF HInv
<1>2. QED
  BY <1>1 DEF Noticed, NoticedIn, RequestsAreNoticed, Ahead, News

\* What is deleted is moved.
LEMMA InvMoves == ASSUME ToolsAssumption, HInv PROVE DeletionIsAMove
<1>1. 1..written \subseteq (UNION {Numbers(content[f]) : f \in Files}) \cup Saved
  BY DEF HInv, LinesSaved
<1>2. Saved \subseteq Found \cup past.exposed \cup past.overwritten
  BY DEF Saved, Found
<1>3. \A f \in Files : Numbers(content[f]) \subseteq Found
  BY DEF Found
<1>4. ASSUME NEW s \in past.deleted
      PROVE  \A l \in Range(content[History]) : l.session # s
  BY DEF HInv, TakenOut, Without, Range
<1>5. QED
  BY <1>1, <1>2, <1>3, <1>4 DEF DeletionIsAMove
--------------------------------------------------------------------------------
(* The monitor. *)

\* What the monitor does leaves files and deletions alone.
LEMMA MonitorStep ==
  ASSUME HInv, UNCHANGED <<disk, del, past>>, ScanOK', Noticed'
  PROVE  HInv'
<1>1. /\ tool' = tool /\ content' = content /\ half' = half /\ moved' = moved
      /\ backups' = backups /\ written' = written /\ del' = del /\ past' = past
  BY DEF disk
<1>2. DiskOK' /\ DelsOK'
  <2>1. DiskOK /\ DelsOK
    BY DEF HInv
  <2>2. DiskOK'
    BY <1>1, <2>1 DEF DiskOK, Separate
  <2>3. DelsOK'
    BY <1>1, <2>1 DEF DelsOK
  <2> QED
    BY <2>2, <2>3
<1>3. LinesSaved'
  BY <1>1 DEF HInv, LinesSaved, Saved
<1>4. TakenOut'
  BY <1>1 DEF HInv, TakenOut
<1>5. QED
  BY <1>2, <1>3, <1>4 DEF HInv

\* What the monitor does, by its parts.
LEMMA ScanForm ==
  ASSUME NEW at \in {"start", "rest", "list", "read"}, NEW b \in BOOLEAN,
         NEW todo \in SUBSET Watched, NEW f \in Files, NEW from \in 0..(2 * MaxLines),
         NEW events \in SUBSET Line, NEW x,
         x = [at |-> at, baseline |-> b, todo |-> todo, file |-> f, from |-> from,
               events |-> events]
  PROVE  /\ x \in ScanType
         /\ x.at = at /\ x.baseline = b /\ x.todo = todo /\ x.file = f /\ x.from = from
         /\ x.events = events
<1>1. x \in ScanType
  BY DEF ScanType
<1>2. x.at = at /\ x.todo = todo /\ x.file = f /\ x.from = from /\ x.events = events
  OBVIOUS
<1>3. x.baseline = b
  BY Zenon
<1>4. QED
  BY <1>1, <1>2, <1>3, Zenon

\* A scan is the record of its parts.
LEMMA ScanParts ==
  ASSUME NEW x \in ScanType
  PROVE  /\ x = [at |-> x.at, baseline |-> x.baseline, todo |-> x.todo, file |-> x.file,
                 from |-> x.from, events |-> x.events]
         /\ x.at \in {"start", "rest", "list", "read"} /\ x.baseline \in BOOLEAN
         /\ x.todo \in SUBSET Watched /\ x.file \in Files /\ x.from \in 0..(2 * MaxLines)
         /\ x.events \in SUBSET Line
BY DEF ScanType

\* A monitor that does nothing.
LEMMA RestForm ==
  ASSUME ToolsAssumption
  PROVE  /\ Resting \in ScanType /\ Starting \in ScanType
         /\ Resting.at = "rest" /\ Resting.events = {} /\ Resting.baseline = FALSE
         /\ Starting.at = "start" /\ Starting.events = {} /\ Starting.baseline = FALSE
<1>1. History \in Files /\ 0 \in 0..(2 * MaxLines) /\ FALSE \in BOOLEAN
  BY WatchedFiles DEF ToolsAssumption
<1>2. Resting \in ScanType /\ Resting.at = "rest" /\ Resting.events = {}
  BY <1>1 DEF Resting, ScanType
<1>3. Resting.baseline = FALSE
  BY Zenon DEF Resting
<1>4. Starting \in ScanType /\ Starting.at = "start" /\ Starting.events = {}
  BY <1>2 DEF Starting, ScanType
<1>5. Starting.baseline = Resting.baseline
  BY <1>2 DEF Starting, ScanType
<1>6. QED
  BY <1>2, <1>3, <1>4, <1>5, Zenon

\* A monitor that begins.
LEMMA ListingForm ==
  ASSUME ToolsAssumption, NEW b \in BOOLEAN, NEW todo \in SUBSET Watched,
         NEW x, x = [Resting EXCEPT !.at = "list", !.baseline = b, !.todo = todo]
  PROVE  x \in ScanType /\ x.at = "list" /\ x.baseline = b /\ x.events = {}
<1>1. Resting \in ScanType /\ Resting.events = {}
  BY RestForm
<1>2. x \in ScanType /\ x.at = "list" /\ x.events = {}
  BY <1>1 DEF ScanType
<1>3. x.baseline = b
  BY <1>1 DEF ScanType
<1>4. QED
  BY <1>2, <1>3, Zenon

\* A tick.
LEMMA TickKeeps == ASSUME ToolsAssumption, HInv, Tick PROVE HInv'
<1> DEFINE listing == [Resting EXCEPT !.at = "list", !.baseline = scan.at = "start",
                                      !.todo = {f \in Watched : Exists(f)}]
<1>1. /\ scan.at \in {"start", "rest"}
      /\ scan' = listing \/ scan' = Resting
      /\ UNCHANGED <<disk, offset, del, life, past>>
  BY DEF Tick
<1>2. /\ tool' = tool /\ content' = content /\ half' = half /\ moved' = moved /\ written' = written
      /\ offset' = offset /\ life' = life /\ del' = del
  BY <1>1 DEF disk
<1>3. ScanOK /\ Noticed
  BY DEF HInv
<1>4. /\ scan' \in ScanType /\ scan'.events = {} /\ scan'.at \in {"list", "rest"}
      /\ scan'.baseline => scan.at = "start"
  <2>1. /\ listing \in ScanType /\ listing.events = {} /\ listing.at = "list"
        /\ listing.baseline = (scan.at = "start")
    <3>1. PICK b \in BOOLEAN : b = (scan.at = "start")
      OBVIOUS
    <3>2. listing = [Resting EXCEPT !.at = "list", !.baseline = b,
                                    !.todo = {f \in Watched : Exists(f)}]
      BY <3>1, Zenon
    <3> HIDE DEF listing
    <3>3. listing \in ScanType /\ listing.events = {} /\ listing.at = "list" /\ listing.baseline = b
      <4>1. PICK todo \in SUBSET Watched : todo = {f \in Watched : Exists(f)}
        OBVIOUS
      <4>2. listing = [Resting EXCEPT !.at = "list", !.baseline = b, !.todo = todo]
        BY <3>2, <4>1, Zenon
      <4> QED
        BY <4>2, ListingForm
    <3> QED
      BY <3>1, <3>3, Zenon
  <2> HIDE DEF listing
  <2> QED
    BY <1>1, <2>1, RestForm
<1>5. ScanOK'
  <2>1. Watched' = Watched
    BY <1>2 DEF Watched
  <2>2. ScanType' = ScanType
    BY <2>1 DEF ScanType
  <2>3. scan'.baseline => life.shown = {}
    BY <1>3, <1>4 DEF ScanOK
  <2>4. scan'.at # "start" /\ scan'.at # "read"
    BY <1>4
  <2> QED
    BY <1>2, <1>3, <1>4, <2>2, <2>3, <2>4 DEF ScanOK
<1>6. scan.events = {} /\ scan.at # "read"
  BY <1>1, <1>3 DEF ScanOK
<1>7. Noticed'
  <2>1. Watched' = Watched /\ News' = News /\ \A f : Size(f)' = Size(f)
    BY <1>2, <1>4, <1>6 DEF Watched, News, Size
  <2>2. \A f, i : Ahead(f, i)' <=> Ahead(f, i)
    BY <1>2, <1>4, <1>6 DEF Ahead
  <2> QED
    BY <1>2, <1>3, <2>1, <2>2 DEF Noticed, NoticedIn
<1>8. QED
  BY <1>1, <1>5, <1>7, MonitorStep
\* A step of the monitor leaves it with what is in the files.
LEMMA ScanStep ==
  ASSUME HInv, UNCHANGED <<disk, del, past>>,
         scan' \in ScanType, scan'.at \notin {"start", "rest"}, \A l \in scan'.events : l.asks,
         scan'.baseline => scan.baseline, scan'.baseline => scan'.events = {} /\ scan'.at # "read",
         DOMAIN offset' = Files, \A f \in Files : offset'[f] \in Unseen..(2 * MaxLines),
         DOMAIN life' = DOMAIN life, life'.base \subseteq 1..written,
         scan'.baseline => life'.shown = {}, life'.rewritten = life.rewritten
  PROVE  ScanOK'
<1>1. ScanOK /\ Watched' = Watched /\ written' = written /\ del' = del
  BY DEF HInv, disk, Watched
<1>2. ScanType' = ScanType
  BY <1>1 DEF ScanType
<1>3. QED
  BY <1>1, <1>2 DEF ScanOK

\* A file is passed.
LEMMA PassedForm ==
  ASSUME ScanOK, NEW f, NEW x, x = [scan EXCEPT !.todo = @ \ {f}]
  PROVE  /\ x \in ScanType /\ x.at = scan.at /\ x.events = scan.events
         /\ x.baseline = scan.baseline
<1>1. scan \in ScanType
  BY DEF ScanOK
<1>2. QED
  BY <1>1 DEF ScanType

\* Another file is as it was when neither its offset nor the news change.
LEMMA OtherFile ==
  ASSUME UNCHANGED disk, NEW g, NoticedIn(g), offset'[g] = offset[g],
         News' = News, life'.base = life.base, life.lost \subseteq life'.lost,
         scan.at = "list", scan'.at = "read" => scan'.file # g
  PROVE  NoticedIn(g)'
<1>1. content' = content /\ half' = half /\ Size(g)' = Size(g)
  BY DEF disk, Size
<1>2. \A i : Ahead(g, i)' <=> Ahead(g, i)
  BY DEF Ahead
<1>3. QED
  BY <1>1, <1>2 DEF NoticedIn

\* A size is noted, outside the baseline.
LEMMA StatReads ==
  ASSUME ToolsAssumption, HInv, NEW f \in Watched, f \notin moved, scan.at = "list",
         UNCHANGED <<disk, del, past, life>>, ~ scan.baseline,
         offset' = [offset EXCEPT ![f] = Size(f)], NEW from,
         from = IF offset[f] = Unseen \/ Size(f) < offset[f] THEN 0 ELSE offset[f],
         scan'.events = scan.events,
         \/ Size(f) = from /\ scan'.at = "list"
         \/ scan'.at = "read" /\ scan'.file = f /\ scan'.from = from
  PROVE  Noticed'
<1> SUFFICES ASSUME NEW g \in Watched \ (life.rewritten \cup moved) PROVE NoticedIn(g)'
  BY DEF Noticed, Watched, disk
<1>1. ScanOK /\ Noticed /\ DiskOK /\ NoticedIn(g)
  BY DEF HInv, Noticed
<1>2. News' = News /\ life' = life /\ content' = content /\ half' = half
  BY DEF News, disk
<1>3. DOMAIN offset = Files /\ f \in Files /\ offset[f] \in Unseen..(2 * MaxLines)
  BY <1>1, WatchedFiles DEF ScanOK
<1>4. CASE g # f
  BY <1>1, <1>2, <1>3, <1>4, OtherFile
<1>5. CASE g = f
  <2>1. /\ Size(f) \in Nat /\ Size(f)' = Size(f) /\ offset'[f] = Size(f)
        /\ Len(content[f]) \in Nat /\ DOMAIN content[f] = 1..Len(content[f])
        /\ 2 * Len(content[f]) - 1 <= Size(f)
    <3>1. Size(f)' = Size(f)
      BY <1>2 DEF Size
    <3>2. offset'[f] = Size(f)
      BY <1>3
    <3> QED
      BY <1>1, <1>3, <3>1, <3>2, SizeForm
  <2>2. offset[f] \in Int /\ offset[f] <= Size(f) /\ Unseen = -1
    BY <1>1, <1>3, <1>5 DEF NoticedIn, Unseen, ToolsAssumption
  <2>3. \A i \in DOMAIN content[f] : i \in Int /\ 2 * (i - 1) < Size(f)
    BY <2>1
  <2>4. \A i \in DOMAIN content[f] : Ahead(f, i) => 2 * (i - 1) >= from
    BY <2>1, <2>2 DEF Ahead
  <2>5. \A i \in DOMAIN content[f] : Ahead(f, i)' => Ahead(f, i)
    <3> TAKE i \in DOMAIN content[f]
    <3>1. ~ (2 * (i - 1) >= offset'[f])
      BY <2>1, <2>3
    <3>2. scan'.at = "read" => 2 * (i - 1) >= offset[f] \/ ~ (2 * (i - 1) >= scan'.from)
      BY <2>1, <2>2, <2>3
    <3> QED
      BY <3>1, <3>2 DEF Ahead
  <2>6. \A i \in DOMAIN content[f] : Ahead(f, i) => Ahead(f, i)'
    <3> TAKE i \in DOMAIN content[f]
    <3>1. Ahead(f, i) => 2 * (i - 1) >= from
      BY <2>4
    <3>2. 2 * (i - 1) >= from => Size(f) # from
      BY <2>1, <2>3
    <3> QED
      BY <3>1, <3>2 DEF Ahead
  <2>7. QED
    BY <1>1, <1>2, <1>5, <2>1, <2>5, <2>6 DEF NoticedIn
<1>6. QED
  BY <1>4, <1>5
\* The baseline notes a size, and passes over what is there.
LEMMA StatPasses ==
  ASSUME ToolsAssumption, HInv, NEW f \in Watched, f \notin moved, scan.at = "list",
         UNCHANGED <<disk, del, past>>, scan.baseline,
         offset' = [offset EXCEPT ![f] = Size(f)],
         life' = [life EXCEPT !.base = @ \cup Numbers(content[f])],
         scan'.events = scan.events, scan'.at = "list"
  PROVE  Noticed' /\ life'.base \subseteq 1..written
<1>1. ScanOK /\ Noticed /\ DiskOK
  BY DEF HInv
<1>2. content' = content /\ half' = half
  BY DEF disk
<1>3. DOMAIN offset = Files /\ f \in Files
  BY <1>1, WatchedFiles DEF ScanOK
<1>4. scan.events = {} /\ life.shown = {} /\ DOMAIN life = {"base", "shown", "lost", "rewritten"}
  BY <1>1 DEF ScanOK
<1>5. /\ life'.base = life.base \cup Numbers(content[f]) /\ life'.shown = life.shown
      /\ life'.lost = life.lost /\ life'.rewritten = life.rewritten
  BY <1>4
<1>6. News' = {}
  BY <1>4, <1>5 DEF News
<1>7. life'.base \subseteq 1..written
  <2>1. content[f] \in Seq(Line) /\ LinesOK(content[f], written) /\ written \in Nat
    BY <1>1, <1>3, SizeForm DEF DiskOK, ToolsAssumption
  <2>2. \A n \in Numbers(content[f]) : n \in 1..written
    <3> TAKE n \in Numbers(content[f])
    <3>1. PICK i \in DOMAIN content[f] : n = content[f][i].n
      BY <2>1, NumberOf
    <3>2. n \in 1..MaxLines /\ n <= written
      BY <2>1, <3>1, FileForm DEF LinesOK
    <3> QED
      BY <2>1, <3>2
  <2> QED
    BY <1>1, <1>5, <2>2 DEF ScanOK
<1>8. ASSUME NEW g \in Watched \ (life.rewritten \cup moved) PROVE NoticedIn(g)'
  <2>1. NoticedIn(g) /\ g \in Files /\ Size(g)' = Size(g)
    BY <1>1, <1>2, WatchedFiles DEF Noticed, Size
  <2>2. CASE g # f
    <3>1. \A i : Ahead(g, i)' <=> Ahead(g, i)
      BY <1>3, <2>2 DEF Ahead
    <3>2. \A i \in DOMAIN content[g] : content[g][i].n \notin Numbers(content[f])
      <4> SUFFICES ASSUME NEW i \in DOMAIN content[g], content[g][i].n \in Numbers(content[f])
                   PROVE  FALSE
        OBVIOUS
      <4>1. PICK j \in DOMAIN content[f] : content[g][i].n = content[f][j].n
        BY <1>1, <1>3, SizeForm, NumberOf
      <4> QED
        BY <1>1, <1>3, <2>1, <2>2, <4>1 DEF DiskOK, Separate
    <3>3. offset'[g] = offset[g]
      BY <2>2
    <3> QED
      <4>1. offset'[g] <= Size(g)'
        BY <2>1, <3>3 DEF NoticedIn
      <4>2. News = {}
        BY <1>4 DEF News
      <4>3. \A i \in DOMAIN content[g] :
              /\ content[g][i].asks /\ content[g][i].whole =>
                   content[g][i].n \in life.base \cup life.lost \/ Ahead(g, i)
              /\ content[g][i].n \in life.base => ~ Ahead(g, i)
        BY <2>1, <4>2 DEF NoticedIn
      <4>4. \A i \in DOMAIN content[g] :
              /\ content[g][i].asks /\ content[g][i].whole =>
                   content[g][i].n \in life'.base \cup life'.lost \/ Ahead(g, i)'
              /\ content[g][i].n \in life'.base => ~ Ahead(g, i)'
        BY <1>5, <3>1, <3>2, <4>3
      <4> QED
        BY <1>2, <1>6, <4>1, <4>4 DEF NoticedIn
  <2>3. CASE g = f
    <3>1. /\ Size(f) \in Nat /\ Len(content[f]) \in Nat /\ DOMAIN content[f] = 1..Len(content[f])
          /\ 2 * Len(content[f]) - 1 <= Size(f)
      BY <1>1, <1>3, SizeForm
    <3>2. offset'[f] = Size(f)
      BY <1>3
    <3>3. \A i \in DOMAIN content[f] : ~ Ahead(f, i)'
      BY <3>1, <3>2 DEF Ahead
    <3>4. \A i \in DOMAIN content[f] : content[f][i].n \in life'.base
      BY <1>1, <1>3, <1>5, SizeForm, FileForm
    <3> QED
      BY <1>2, <1>6, <2>1, <2>3, <3>1, <3>2, <3>3, <3>4 DEF NoticedIn
  <2>4. QED
    BY <2>2, <2>3
<1>9. Noticed'
  <2>1. Watched' = Watched /\ moved' = moved
    BY DEF Watched, disk
  <2> QED
    BY <1>5, <1>8, <2>1 DEF Noticed
<1>10. QED
  BY <1>7, <1>9

\* A size is noted.
LEMMA StatKeeps == ASSUME ToolsAssumption, HInv, NEW f \in Files, Stat(f) PROVE HInv'
<1> DEFINE from == IF offset[f] = Unseen \/ Size(f) < offset[f] THEN 0 ELSE offset[f]
           onTo == [scan EXCEPT !.todo = @ \ {f}]
           reads == [onTo EXCEPT !.at = "read", !.file = f, !.from = from]
<1>1. /\ scan.at = "list" /\ f \in scan.todo /\ UNCHANGED <<disk, del, past>>
      /\ \/ scan' = onTo /\ UNCHANGED <<offset, life>>
         \/ /\ f \notin moved /\ offset' = [offset EXCEPT ![f] = Size(f)] /\ scan.baseline
            /\ scan' = onTo /\ life' = [life EXCEPT !.base = @ \cup Numbers(content[f])]
         \/ /\ f \notin moved /\ offset' = [offset EXCEPT ![f] = Size(f)] /\ ~ scan.baseline
            /\ UNCHANGED life
            /\ \/ Size(f) = from /\ scan' = onTo
               \/ Size(f) # from /\ scan' = reads
  BY DEF Stat
<1>2. ScanOK /\ Noticed /\ DiskOK /\ scan \in ScanType
  BY DEF HInv, ScanOK
<1>3. f \in Watched
  BY <1>1, <1>2 DEF ScanType
<1>4. /\ onTo \in ScanType /\ onTo.at = "list" /\ onTo.events = scan.events
      /\ onTo.baseline = scan.baseline
  BY <1>1, <1>2, PassedForm
<1>5. from \in 0..(2 * MaxLines) /\ Size(f) \in Unseen..(2 * MaxLines)
  <2>1. offset[f] \in Unseen..(2 * MaxLines) /\ Unseen = -1 /\ MaxLines \in Nat
    BY <1>2 DEF ScanOK, Unseen, ToolsAssumption
  <2>2. Size(f) \in Nat /\ Size(f) <= 2 * MaxLines
    BY <1>2, SizeForm
  <2>3. from \in 0..(2 * MaxLines)
    BY <2>1, <2>2
  <2> QED
    BY <2>1, <2>2, <2>3
<1>6. /\ reads \in ScanType /\ reads.at = "read" /\ reads.events = scan.events
      /\ reads.baseline = scan.baseline /\ reads.file = f /\ reads.from = from
  <2> HIDE DEF onTo, from
  <2> QED
    BY <1>4, <1>5 DEF ScanType
<1>7. /\ \A l \in scan.events : l.asks
      /\ DOMAIN offset = Files
      /\ \A g \in Files : offset[g] \in Unseen..(2 * MaxLines)
      /\ scan.baseline => scan.events = {} /\ life.shown = {}
      /\ DOMAIN life = {"base", "shown", "lost", "rewritten"} /\ life.base \subseteq 1..written
  BY <1>2 DEF ScanOK
<1> HIDE DEF onTo, reads, from
<1>8. ASSUME offset' = [offset EXCEPT ![f] = Size(f)]
      PROVE  DOMAIN offset' = Files /\ \A g \in Files : offset'[g] \in Unseen..(2 * MaxLines)
  BY <1>5, <1>7, <1>8
<1>9. CASE scan' = onTo /\ UNCHANGED <<offset, life>>
  <2>1. ScanOK'
    BY <1>1, <1>4, <1>7, <1>9, ScanStep
  <2>2. Noticed'
    <3>1. News' = News /\ Watched' = Watched /\ moved' = moved
      BY <1>1, <1>4, <1>9 DEF News, Watched, disk
    <3>2. \A g \in Watched \ (life.rewritten \cup moved) : NoticedIn(g)'
      BY <1>1, <1>2, <1>4, <1>9, <3>1, OtherFile DEF Noticed
    <3> QED
      BY <1>9, <3>1, <3>2 DEF Noticed
  <2> QED
    BY <1>1, <2>1, <2>2, MonitorStep
<1>10. CASE /\ f \notin moved /\ offset' = [offset EXCEPT ![f] = Size(f)] /\ scan.baseline
            /\ scan' = onTo /\ life' = [life EXCEPT !.base = @ \cup Numbers(content[f])]
  <2>1. Noticed' /\ life'.base \subseteq 1..written
    BY <1>1, <1>3, <1>4, <1>10, StatPasses
  <2>2. DOMAIN life' = DOMAIN life /\ life'.shown = life.shown /\ life'.rewritten = life.rewritten
    BY <1>7, <1>10
  <2>3. ScanOK'
    BY <1>1, <1>4, <1>7, <1>8, <1>10, <2>1, <2>2, ScanStep
  <2> QED
    BY <1>1, <2>1, <2>3, MonitorStep
<1>11. CASE /\ f \notin moved /\ offset' = [offset EXCEPT ![f] = Size(f)] /\ ~ scan.baseline
            /\ UNCHANGED life
            /\ \/ Size(f) = from /\ scan' = onTo
               \/ Size(f) # from /\ scan' = reads
  <2>1. /\ scan' \in ScanType /\ scan'.events = scan.events /\ scan'.baseline = scan.baseline
        /\ \/ Size(f) = from /\ scan'.at = "list"
           \/ scan'.at = "read" /\ scan'.file = f /\ scan'.from = from
    BY <1>4, <1>6, <1>11
  <2>2. Noticed'
    BY <1>1, <1>3, <1>11, <2>1, StatReads DEF from
  <2>3. ScanOK'
    BY <1>1, <1>7, <1>8, <1>11, <2>1, ScanStep
  <2> QED
    BY <1>1, <2>2, <2>3, MonitorStep
<1>12. QED
  BY <1>1, <1>9, <1>10, <1>11
\* The places of the requests a reading finds.
FoundIn(f) ==
  {i \in 1..(Len(content[f]) - (IF f \in half THEN 1 ELSE 0)) :
     2 * (i - 1) >= scan.from /\ content[f][i].asks}

\* What is in a file is read, or the file is gone.
LEMMA ReadNotices ==
  ASSUME ToolsAssumption, HInv, scan.at = "read",
         UNCHANGED <<disk, offset, del, life, past>>, scan'.at = "list",
         scan'.events = IF scan.file \in moved THEN scan.events
                        ELSE scan.events \cup {content[scan.file][i] : i \in FoundIn(scan.file)}
  PROVE  Noticed' /\ \A l \in scan'.events : l \in Line /\ l.asks
<1>0. PICK f, found : f = scan.file /\ found = FoundIn(f)
  OBVIOUS
<1>1. ScanOK /\ Noticed /\ DiskOK /\ scan \in ScanType /\ f \in Files
  BY <1>0 DEF HInv, ScanOK, ScanType
<1>2. content' = content /\ half' = half /\ moved' = moved /\ offset' = offset /\ life' = life
      /\ Watched' = Watched
  BY DEF disk, Watched
<1>3. /\ content[f] \in Seq(Line) /\ Len(content[f]) \in Nat
      /\ DOMAIN content[f] = 1..Len(content[f])
      /\ f \in half => Len(content[f]) # 0 /\ ~ content[f][Len(content[f])].whole
  BY <1>1, SizeForm DEF DiskOK
<1>4. /\ \A i \in found : /\ i \in DOMAIN content[f] /\ 2 * (i - 1) >= scan.from
                          /\ content[f][i].asks /\ content[f][i] \in Line
      /\ \A i \in DOMAIN content[f] :
           2 * (i - 1) >= scan.from /\ content[f][i].asks /\ content[f][i].whole => i \in found
  <2>1. CASE f \in half
    <3>1. found = {i \in 1..(Len(content[f]) - 1) :
                     2 * (i - 1) >= scan.from /\ content[f][i].asks}
      BY <1>0, <2>1 DEF FoundIn
    <3> QED
      BY <1>3, <2>1, <3>1
  <2>2. CASE f \notin half
    <3>1. found = {i \in 1..Len(content[f]) :
                     2 * (i - 1) >= scan.from /\ content[f][i].asks}
      BY <1>0, <1>3, <2>2 DEF FoundIn
    <3> QED
      BY <1>3, <2>2, <3>1
  <2>3. QED
    BY <2>1, <2>2
<1>5. /\ scan.events \subseteq scan'.events
      /\ \A l \in scan'.events :
           l \in scan.events \/ (f \notin moved /\ \E i \in found : l = content[f][i])
      /\ f \notin moved => \A i \in found : content[f][i] \in scan'.events
  <2>1. CASE f \in moved
    BY <1>0, <2>1
  <2>2. CASE f \notin moved
    BY <1>0, <2>2
  <2>3. QED
    BY <2>1, <2>2
<1>6. \A l \in scan'.events : l \in Line /\ l.asks
  <2>1. \A l \in scan.events : l \in Line /\ l.asks
    BY <1>1 DEF ScanOK, ScanType
  <2> QED
    BY <1>4, <1>5, <2>1
<1>7. /\ News \subseteq News'
      /\ \A n \in News' : n \in News \/ (f \notin moved /\ \E i \in found : n = content[f][i].n)
      /\ f \notin moved => \A i \in found : content[f][i].n \in News'
  <2>1. /\ News = life.shown \cup {l.n : l \in scan.events}
        /\ News' = life.shown \cup {l.n : l \in scan'.events}
    BY <1>2 DEF News
  <2>2. News \subseteq News'
    BY <1>5, <2>1
  <2>3. ASSUME NEW n \in News'
        PROVE  n \in News \/ (f \notin moved /\ \E i \in found : n = content[f][i].n)
    <3>1. CASE n \in life.shown
      BY <2>1, <3>1
    <3>2. CASE n \in {l.n : l \in scan'.events}
      <4> PICK l \in scan'.events : n = l.n
        BY <3>2
      <4> QED
        BY <1>5, <2>1
    <3>3. QED
      BY <2>1, <2>3, <3>1, <3>2
  <2>4. ASSUME f \notin moved, NEW i \in found PROVE content[f][i].n \in News'
    BY <1>5, <2>1, <2>4
  <2> QED
    BY <2>2, <2>3, <2>4
<1>8. ASSUME NEW g \in Watched \ (life.rewritten \cup moved) PROVE NoticedIn(g)'
  <2>1. NoticedIn(g) /\ Size(g)' = Size(g) /\ g \in Files /\ g \notin moved
    BY <1>1, <1>2, WatchedFiles DEF Noticed, Size
  <2>2. \A i \in DOMAIN content[g] :
          (Ahead(g, i)' <=> 2 * (i - 1) >= offset[g])
    BY <1>2 DEF Ahead
  <2>3. \A i \in DOMAIN content[g] :
          content[g][i].asks /\ content[g][i].whole =>
            content[g][i].n \in life.base \cup News' \cup life.lost \/ Ahead(g, i)'
    <3> SUFFICES ASSUME NEW i \in DOMAIN content[g], content[g][i].asks, content[g][i].whole,
                        content[g][i].n \notin life.base \cup News' \cup life.lost
                 PROVE  2 * (i - 1) >= offset[g]
      BY <2>2
    <3>1. Ahead(g, i)
      BY <1>7, <2>1 DEF NoticedIn
    <3>2. f = g /\ 2 * (i - 1) >= scan.from => content[g][i].n \in News'
      BY <1>4, <1>7, <2>1
    <3> QED
      BY <1>0, <3>1, <3>2 DEF Ahead
  <2>4. \A i \in DOMAIN content[g] :
          content[g][i].n \in life.base => content[g][i].n \notin News' /\ ~ Ahead(g, i)'
    <3> SUFFICES ASSUME NEW i \in DOMAIN content[g], content[g][i].n \in life.base
                 PROVE  content[g][i].n \notin News' /\ ~ Ahead(g, i)'
      OBVIOUS
    <3>1. content[g][i].n \notin News /\ ~ Ahead(g, i)
      BY <2>1 DEF NoticedIn
    <3>2. ~ (2 * (i - 1) >= offset[g]) /\ (f = g => ~ (2 * (i - 1) >= scan.from))
      BY <1>0, <3>1 DEF Ahead
    <3>3. ASSUME NEW j \in found, content[g][i].n = content[f][j].n PROVE FALSE
      <4>1. j \in DOMAIN content[f] /\ 2 * (j - 1) >= scan.from
        BY <1>4
      <4>2. f = g
        BY <1>1, <2>1, <3>3, <4>1 DEF DiskOK, Separate
      <4>3. i = j
        BY <1>1, <3>3, <4>1, <4>2 DEF DiskOK, LinesOK, Distinct
      <4> QED
        BY <3>2, <4>1, <4>2, <4>3
    <3> QED
      BY <1>7, <2>2, <3>1, <3>2, <3>3
  <2> QED
    BY <1>2, <2>1, <2>3, <2>4 DEF NoticedIn
<1>9. QED
  BY <1>2, <1>6, <1>8 DEF Noticed

\* A file is read.
LEMMA ReadKeeps == ASSUME ToolsAssumption, HInv, Read PROVE HInv'
<1> DEFINE f == scan.file
           events == IF f \in moved THEN scan.events
                     ELSE scan.events \cup {content[f][i] : i \in FoundIn(f)}
<1>1. /\ scan.at = "read" /\ UNCHANGED <<disk, offset, del, life, past>>
      /\ scan' = [scan EXCEPT !.at = "list", !.file = History, !.from = 0, !.events = events]
  BY DEF Read, FoundIn
<1>2. ScanOK /\ scan \in ScanType
  BY DEF HInv, ScanOK
<1> HIDE DEF events
<1>3. /\ scan'.at = "list" /\ scan'.events = events /\ scan'.baseline = scan.baseline
      /\ scan'.file = History /\ scan'.from = 0 /\ scan'.todo = scan.todo
      /\ DOMAIN scan' = DOMAIN scan
  BY <1>1, <1>2 DEF ScanType
<1>4. Noticed' /\ \A l \in scan'.events : l \in Line /\ l.asks
  BY <1>1, <1>3, ReadNotices DEF events
<1>5. scan' \in ScanType
  <2>1. events \in SUBSET Line /\ History \in Files /\ 0 \in 0..(2 * MaxLines)
    BY <1>3, <1>4, WatchedFiles DEF ToolsAssumption
  <2> QED
    BY <1>1, <1>2, <2>1 DEF ScanType
<1>6. ScanOK'
  <2>1. ~ scan.baseline
    BY <1>1, <1>2 DEF ScanOK
  <2> QED
    BY <1>1, <1>2, <1>3, <1>4, <1>5, <2>1, ScanStep DEF ScanOK
<1>7. QED
  BY <1>1, <1>4, <1>6, MonitorStep

\* A reading fails: what was ahead of it alone is lost.
LEMMA ReadFailsKeeps == ASSUME ToolsAssumption, HInv, ReadFails PROVE HInv'
<1>1. PICK f, passed :
        /\ f = scan.file /\ scan.at = "read" /\ UNCHANGED <<disk, offset, del, past>>
        /\ passed = {i \in DOMAIN content[f] : 2 * (i - 1) >= scan.from /\ 2 * (i - 1) < offset[f]}
        /\ scan' = [scan EXCEPT !.at = "list", !.file = History, !.from = 0]
        /\ life' = [life EXCEPT !.lost = @ \cup {content[f][i].n : i \in passed}]
  BY DEF ReadFails
<1>2. /\ ScanOK /\ Noticed /\ DOMAIN life = {"base", "shown", "lost", "rewritten"}
      /\ scan \in ScanType /\ f \in Files /\ DiskOK
  BY <1>1 DEF HInv, ScanOK, ScanType
<1>3. /\ scan'.at = "list" /\ scan'.events = scan.events /\ scan'.baseline = scan.baseline
      /\ scan' \in ScanType
  <2>1. History \in Files /\ 0 \in 0..(2 * MaxLines)
    BY WatchedFiles DEF ToolsAssumption
  <2> QED
    BY <1>1, <1>2, <2>1 DEF ScanType
<1>4. /\ life'.lost = life.lost \cup {content[f][i].n : i \in passed} /\ life'.base = life.base
      /\ life'.shown = life.shown /\ life'.rewritten = life.rewritten
      /\ DOMAIN life' = DOMAIN life
  BY <1>1, <1>2
<1>5. /\ content' = content /\ half' = half /\ moved' = moved /\ offset' = offset
      /\ Watched' = Watched /\ News' = News
  BY <1>1, <1>3, <1>4 DEF disk, Watched, News
<1>6. ScanOK'
  <2>1. ~ scan.baseline
    BY <1>1, <1>2 DEF ScanOK
  <2> QED
    BY <1>1, <1>2, <1>3, <1>4, <2>1, ScanStep DEF ScanOK
<1>7. ASSUME NEW g \in Watched \ (life.rewritten \cup moved) PROVE NoticedIn(g)'
  <2>1. NoticedIn(g) /\ g \in Files /\ Size(g)' = Size(g)
    BY <1>2, <1>5, WatchedFiles DEF Noticed, Size
  <2>2. \A i \in DOMAIN content[g] : Ahead(g, i)' <=> 2 * (i - 1) >= offset[g]
    BY <1>3, <1>5 DEF Ahead
  <2>3. \A i \in DOMAIN content[g] : Ahead(g, i)' => Ahead(g, i)
    BY <2>2 DEF Ahead
  <2>4. ASSUME NEW i \in DOMAIN content[g], Ahead(g, i)
        PROVE  Ahead(g, i)' \/ content[g][i].n \in life'.lost
    <3>1. i \in Int /\ offset[g] \in Int
      BY <1>2, <2>1, SizeForm DEF ScanOK, Unseen, ToolsAssumption
    <3>2. CASE 2 * (i - 1) >= offset[g]
      BY <2>2, <3>2
    <3>3. CASE ~ (2 * (i - 1) >= offset[g])
      <4>1. g = f /\ 2 * (i - 1) >= scan.from
        BY <1>1, <2>4, <3>3 DEF Ahead
      <4>2. 2 * (i - 1) < offset[g]
        BY <3>1, <3>3
      <4>3. i \in passed
        BY <1>1, <4>1, <4>2
      <4> QED
        BY <1>4, <4>1, <4>3
    <3>4. QED
      BY <3>2, <3>3
  <2>5. offset'[g] <= Size(g)'
    BY <1>5, <2>1 DEF NoticedIn
  <2>6. \A i \in DOMAIN content[g] :
          /\ content[g][i].asks /\ content[g][i].whole =>
               content[g][i].n \in life'.base \cup News \cup life'.lost \/ Ahead(g, i)'
          /\ content[g][i].n \in life'.base => content[g][i].n \notin News /\ ~ Ahead(g, i)'
    BY <1>4, <2>1, <2>3, <2>4 DEF NoticedIn
  <2> QED
    BY <1>5, <2>5, <2>6 DEF NoticedIn
<1>8. Noticed'
  BY <1>4, <1>5, <1>7 DEF Noticed
<1>9. QED
  BY <1>1, <1>6, <1>8, MonitorStep

\* A walk fails.
LEMMA WalkFailsKeeps == ASSUME ToolsAssumption, HInv, WalkFails PROVE HInv'
<1>1. /\ scan.at = "list" /\ scan' = Resting /\ UNCHANGED <<disk, offset, del, past>>
      /\ life' = [life EXCEPT !.lost = @ \cup {l.n : l \in scan.events}]
  BY DEF WalkFails
<1>2. /\ ScanOK /\ Noticed /\ DOMAIN life = {"base", "shown", "lost", "rewritten"}
      /\ scan'.events = {} /\ scan'.at = "rest" /\ scan' \in ScanType /\ scan'.baseline = FALSE
  BY <1>1, RestForm DEF HInv, ScanOK
<1>3. /\ life'.lost = life.lost \cup {l.n : l \in scan.events} /\ life'.base = life.base
      /\ life'.shown = life.shown /\ life'.rewritten = life.rewritten
      /\ DOMAIN life' = DOMAIN life
  BY <1>1, <1>2
<1>4. /\ content' = content /\ half' = half /\ moved' = moved /\ offset' = offset
      /\ Watched' = Watched /\ written' = written /\ del' = del
  BY <1>1 DEF disk, Watched
<1>5. ScanOK'
  <2>1. ScanType' = ScanType
    BY <1>4 DEF ScanType
  <2> QED
    BY <1>2, <1>3, <1>4, <2>1 DEF ScanOK
<1>6. Noticed'
  <2>1. News' \subseteq News /\ News \cup life.lost \subseteq News' \cup life'.lost
    BY <1>2, <1>3 DEF News
  <2>2. \A g, i : Ahead(g, i)' <=> Ahead(g, i)
    BY <1>1, <1>2, <1>4 DEF Ahead
  <2>3. \A g : Size(g)' = Size(g)
    BY <1>4 DEF Size
  <2> SUFFICES ASSUME NEW g \in Watched \ (life.rewritten \cup moved) PROVE NoticedIn(g)'
    BY <1>3, <1>4 DEF Noticed
  <2>4. NoticedIn(g)
    BY <1>2 DEF Noticed
  <2> QED
    BY <1>3, <1>4, <2>1, <2>2, <2>3, <2>4 DEF NoticedIn
<1>7. QED
  BY <1>1, <1>5, <1>6, MonitorStep

\* Events are shown.
LEMMA NotifyKeeps == ASSUME ToolsAssumption, HInv, Notify PROVE HInv'
<1>1. scan.at = "list" /\ UNCHANGED <<disk, offset, del, past>>
  BY DEF Notify
<1>2. /\ ScanOK /\ Noticed /\ DOMAIN life = {"base", "shown", "lost", "rewritten"}
      /\ scan \in ScanType
  BY <1>1 DEF HInv, ScanOK
<1>3. /\ content' = content /\ half' = half /\ moved' = moved /\ offset' = offset
      /\ Watched' = Watched /\ written' = written /\ del' = del
  BY <1>1 DEF disk, Watched
<1>4. ScanType' = ScanType
  BY <1>3 DEF ScanType
<1>5. /\ scan' \in ScanType /\ scan'.at \in {"list", "rest"} /\ News' = News
      /\ scan'.at = "rest" => scan'.events = {}
      /\ scan'.events \subseteq scan.events
      /\ scan'.baseline => scan.baseline
      /\ life'.base = life.base /\ life'.lost = life.lost /\ life'.rewritten = life.rewritten
      /\ DOMAIN life' = DOMAIN life
      /\ scan.events = {} => life'.shown = life.shown
  <2>1. CASE scan.events = {} /\ scan' = Resting /\ UNCHANGED life
    BY <1>2, <2>1, RestForm DEF News
  <2>2. CASE \E l \in scan.events : /\ scan' = [scan EXCEPT !.events = @ \ {l}]
                                    /\ life' = [life EXCEPT !.shown = @ \cup {l.n}]
    <3> PICK l \in scan.events : /\ scan' = [scan EXCEPT !.events = @ \ {l}]
                                 /\ life' = [life EXCEPT !.shown = @ \cup {l.n}]
      BY <2>2
    <3>1. /\ scan' \in ScanType /\ scan'.at = "list" /\ scan'.events = scan.events \ {l}
          /\ scan'.baseline = scan.baseline
      BY <1>1, <1>2 DEF ScanType
    <3>2. /\ life'.shown = life.shown \cup {l.n} /\ life'.base = life.base
          /\ life'.lost = life.lost /\ life'.rewritten = life.rewritten
          /\ DOMAIN life' = DOMAIN life
      BY <1>2
    <3>3. News' = News
      BY <3>1, <3>2 DEF News
    <3> QED
      BY <3>1, <3>2, <3>3
  <2>3. QED
    BY <2>1, <2>2 DEF Notify
<1>6. ScanOK'
  <2>1. \A l \in scan'.events : l.asks
    BY <1>2, <1>5 DEF ScanOK
  <2>2. scan'.baseline => scan'.events = {} /\ life'.shown = {}
    BY <1>2, <1>5 DEF ScanOK
  <2>3. scan'.at # "start" /\ scan'.at # "read"
    BY <1>5
  <2> QED
    BY <1>2, <1>3, <1>4, <1>5, <2>1, <2>2, <2>3 DEF ScanOK
<1>7. Noticed'
  <2>1. \A g : Size(g)' = Size(g)
    BY <1>3 DEF Size
  <2>2. \A g, i : Ahead(g, i)' <=> Ahead(g, i)
    BY <1>1, <1>3, <1>5 DEF Ahead
  <2> QED
    BY <1>2, <1>3, <1>5, <2>1, <2>2 DEF Noticed, NoticedIn
<1>8. QED
  BY <1>1, <1>6, <1>7, MonitorStep
--------------------------------------------------------------------------------
(* The tool. *)

\* A line is added to a file, whole or its first half.
Grows(f, l) ==
  /\ f \in Files /\ f \notin half \cup moved /\ written < MaxLines
  /\ l \in Line /\ l.n = written + 1 /\ f \in {l.session, History}
  /\ Appends(f, l)
  /\ half' = half \/ (f \in Sessions /\ half' = half \cup {f} /\ ~ l.whole)
  /\ UNCHANGED <<tool, moved, backups, now, monitor, life>>

\* What is written is such a line.
LEMMA WritingGrows ==
  ASSUME ToolsAssumption, HInv, NEW s \in Sessions, NEW f \in Files, WriteLine(f, s) \/ StartLine(s)
  PROVE  \E g, l : Grows(g, l)
<1>1. written \in Nat /\ MaxLines \in Nat
  BY DEF HInv, DiskOK, ToolsAssumption
<1>2. CASE WriteLine(f, s)
  <2>1. PICK asks \in BOOLEAN :
          Appends(f, [n |-> written + 1, session |-> s, asks |-> asks, whole |-> TRUE])
    BY <1>2 DEF WriteLine
  <2>2. PICK l : l = [n |-> written + 1, session |-> s, asks |-> asks, whole |-> TRUE]
    OBVIOUS
  <2>3. f \notin half \cup moved /\ written < MaxLines /\ Appends(f, l)
    BY <2>1, <2>2 DEF Appends
  <2>4. l \in Line /\ l.n = written + 1 /\ l.session = s
    BY <1>1, <2>2, <2>3 DEF Line
  <2>5. /\ f \in {s, History} /\ half' = half
        /\ UNCHANGED <<tool, moved, backups, now, monitor, life>>
    BY <1>2 DEF WriteLine
  <2> QED
    BY <2>3, <2>4, <2>5 DEF Grows
<1>3. CASE StartLine(s)
  <2>1. PICK l : l = [n |-> written + 1, session |-> s, asks |-> TRUE, whole |-> FALSE]
    OBVIOUS
  <2>2. Appends(s, l) /\ half' = half \cup {s} /\ UNCHANGED <<tool, moved, backups, now, monitor, life>>
    BY <1>3, <2>1 DEF StartLine
  <2>3. s \notin half \cup moved /\ written < MaxLines
    BY <2>2 DEF Appends
  <2>4. l \in Line /\ l.n = written + 1 /\ l.session = s /\ ~ l.whole
    BY <1>1, <2>1, <2>3 DEF Line
  <2> QED
    BY <2>2, <2>3, <2>4, WatchedFiles DEF Grows
<1>4. QED
  BY <1>2, <1>3

\* The files afterwards.
LEMMA GrownFiles ==
  ASSUME ToolsAssumption, HInv, NEW f, NEW l, Grows(f, l)
  PROVE  /\ f \in Files /\ written \in Nat /\ written' = written + 1 /\ DOMAIN content' = Files
         /\ \A g \in Files \ {f} : content'[g] = content[g]
         /\ \A g \in Files : LinesOK(content'[g], written')
         /\ Numbers(content'[f]) = Numbers(content[f]) \cup {written'}
         /\ DOMAIN content'[f] = DOMAIN content[f] \cup {Len(content'[f])}
         /\ Len(content'[f]) = Len(content[f]) + 1 /\ content'[f][Len(content'[f])] = l
         /\ \A i \in DOMAIN content[f] : content'[f][i] = content[f][i] /\ i # Len(content'[f])
         /\ \A g \in Files : \A i \in DOMAIN content[g] : content[g][i].n # written'
<1>1. /\ f \in Files /\ l \in Line /\ l.n = written + 1 /\ written' = written + 1
      /\ content' = [content EXCEPT ![f] = Append(content[f], l)]
  BY DEF Grows, Appends
<1>2. /\ written \in Nat /\ DOMAIN content = Files
      /\ \A g \in Files : LinesOK(content[g], written)
  BY DEF HInv, DiskOK, ToolsAssumption
<1>3. /\ DOMAIN content' = Files /\ content'[f] = Append(content[f], l)
      /\ \A g \in Files \ {f} : content'[g] = content[g]
  BY <1>1, <1>2
<1>4. /\ LinesOK(content'[f], written') /\ Numbers(content'[f]) = Numbers(content[f]) \cup {written'}
      /\ DOMAIN content'[f] = DOMAIN content[f] \cup {Len(content'[f])}
      /\ Len(content'[f]) = Len(content[f]) + 1 /\ content'[f][Len(content'[f])] = l
      /\ \A i \in DOMAIN content[f] : content'[f][i] = content[f][i] /\ i # Len(content'[f])
  <2>1. PICK lines, out : lines = content[f] /\ out = content'[f]
    OBVIOUS
  <2>2. LinesOK(lines, written) /\ out = Append(lines, l)
    BY <1>1, <1>2, <1>3, <2>1
  <2>3. /\ LinesOK(out, written + 1) /\ Len(out) = Len(lines) + 1
        /\ Numbers(out) = Numbers(lines) \cup {l.n}
        /\ DOMAIN out = DOMAIN lines \cup {Len(out)}
        /\ out[Len(out)] = l /\ \A i \in DOMAIN lines : out[i] = lines[i] /\ i # Len(out)
    <3>1. written \in Nat /\ l \in Line /\ l.n = written + 1
      BY <1>1, <1>2
    <3> QED
      BY <2>2, <3>1, AppendedLine
  <2> QED
    BY <1>1, <2>1, <2>3
<1>5. \A g \in Files : /\ LinesOK(content[g], written')
                       /\ \A i \in DOMAIN content[g] : content[g][i].n # written'
  BY <1>1, <1>2, OlderLines
<1>6. QED
  BY <1>1, <1>2, <1>3, <1>4, <1>5

LEMMA GrownDisk ==
  ASSUME ToolsAssumption, HInv, NEW f, NEW l, Grows(f, l)
  PROVE  DiskOK'
<1>1. /\ f \in Files /\ l.n = written' /\ written < MaxLines /\ f \notin half /\ tool' = tool
      /\ moved' = moved /\ backups' = backups
      /\ half' = half \/ (f \in Sessions /\ half' = half \cup {f} /\ ~ l.whole)
  BY DEF Grows, Appends
<1>2. /\ tool \in Tools /\ half \subseteq Sessions /\ moved \subseteq Sessions
      /\ backups \in [1..LastSecond -> SUBSET (1..written)] /\ Separate /\ MaxLines \in Nat
      /\ \A g \in half : content[g] # <<>> /\ ~ content[g][Len(content[g])].whole
  BY DEF HInv, DiskOK, ToolsAssumption
<1>3. Separate'
  <2> SUFFICES ASSUME NEW g \in Files, NEW h \in Files, NEW i \in DOMAIN content'[g],
                      NEW j \in DOMAIN content'[h], content'[g][i].n = content'[h][j].n
               PROVE  g = h
    BY DEF Separate
  <2>1. CASE i \in DOMAIN content[g] /\ j \in DOMAIN content[h]
    <3>1. content'[g][i] = content[g][i] /\ content'[h][j] = content[h][j]
      BY <2>1, GrownFiles
    <3>2. content[g][i].n = content[h][j].n
      BY <3>1
    <3> QED
      BY <1>2, <2>1, <3>2 DEF Separate
  <2>2. CASE i \notin DOMAIN content[g]
    BY <1>1, <2>2, GrownFiles
  <2>3. CASE j \notin DOMAIN content[h]
    BY <1>1, <2>3, GrownFiles
  <2>4. QED
    BY <2>1, <2>2, <2>3
<1>4. ASSUME NEW g \in half' PROVE content'[g] # <<>> /\ ~ content'[g][Len(content'[g])].whole
  <2>1. CASE g = f
    <3>1. ~ l.whole /\ content'[f][Len(content'[f])] = l /\ Len(content'[f]) \in DOMAIN content'[f]
      BY <1>1, <1>4, <2>1, GrownFiles
    <3> QED
      BY <2>1, <3>1
  <2>2. CASE g # f
    BY <1>1, <1>2, <1>4, <2>2, GrownFiles, WatchedFiles
  <2>3. QED
    BY <2>1, <2>2
<1>5. written' \in 0..MaxLines /\ backups \in [1..LastSecond -> SUBSET (1..written')]
  <2>1. written \in Nat /\ written' = written + 1
    BY GrownFiles
  <2>2. 1..written \subseteq 1..written'
    BY <2>1
  <2> QED
    BY <1>1, <1>2, <2>1, <2>2
<1>6. half' \subseteq Sessions
  BY <1>1, <1>2
<1>7. QED
  BY <1>1, <1>2, <1>3, <1>4, <1>5, <1>6, GrownFiles DEF DiskOK

\* The deletions afterwards.
LEMMA GrownDels ==
  ASSUME ToolsAssumption, HInv, NEW f, NEW l, Grows(f, l)
  PROVE  /\ DelsOK'
         /\ \A d \in Handlers : /\ del'[d].at = del[d].at /\ del'[d].session = del[d].session
                                /\ del'[d].body = del[d].body
                                /\ del'[d].apart => del[d].apart /\ del[d].session # l.session
<1>1. del' = [d \in Handlers |-> IF del[d].session = l.session
                                 THEN [del[d] EXCEPT !.apart = FALSE] ELSE del[d]]
  BY DEF Grows, Appends
<1>2. DelsOK
  BY DEF HInv
<1>3. ASSUME NEW d \in Handlers
      PROVE  /\ del'[d] \in DelType
             /\ del'[d].at = del[d].at /\ del'[d].session = del[d].session
             /\ del'[d].body = del[d].body
             /\ del'[d].apart => del[d].apart /\ del[d].session # l.session
  <2>1. del[d] \in DelType
    BY <1>2 DEF DelsOK
  <2>2. CASE del[d].session = l.session
    <3>1. del'[d] = [del[d] EXCEPT !.apart = FALSE]
      BY <1>1, <2>2
    <3>2. FALSE \in BOOLEAN
      OBVIOUS
    <3>3. ~ del'[d].apart
      BY <2>1, <3>1 DEF DelType
    <3> QED
      BY <2>1, <3>1, <3>2, <3>3 DEF DelType
  <2>3. CASE del[d].session # l.session
    BY <1>1, <2>1, <2>3
  <2>4. QED
    BY <2>2, <2>3
<1>4. ASSUME NEW d \in Handlers
      PROVE  /\ LinesOK(del[d].body, written')
             /\ \A i \in DOMAIN del[d].body : del[d].body[i].n # written'
  <2>1. LinesOK(del[d].body, written)
    BY <1>2 DEF DelsOK
  <2> QED
    BY <2>1, GrownFiles, OlderLines
<1>5. ASSUME NEW d \in Handlers, NEW g \in Sessions, NEW i \in DOMAIN content'[g],
             NEW j \in DOMAIN del[d].body
      PROVE  content'[g][i].n # del[d].body[j].n
  <2>1. CASE i \in DOMAIN content[g]
    BY <1>2, <2>1, GrownFiles, WatchedFiles DEF DelsOK
  <2>2. CASE i \notin DOMAIN content[g]
    <3>1. content'[g][i] = l /\ l.n = written'
      BY <2>2, GrownFiles, WatchedFiles DEF Grows
    <3> QED
      BY <1>4, <3>1
  <2>3. QED
    BY <2>1, <2>2
<1>6. DelsOK'
  BY <1>1, <1>2, <1>3, <1>4, <1>5 DEF DelsOK
<1>7. QED
  BY <1>3, <1>6
\* The lines the history may lose.
LEMMA GrownSaved ==
  ASSUME ToolsAssumption, HInv, NEW f, NEW l, Grows(f, l)
  PROVE  LinesSaved'
<1>1. /\ f \in Files /\ written' = written + 1 /\ written \in Nat
      /\ \A g \in Files \ {f} : content'[g] = content[g]
      /\ Numbers(content'[f]) = Numbers(content[f]) \cup {written'}
  BY GrownFiles
<1>2. /\ backups' = backups /\ l.n = written'
      /\ past' = [past EXCEPT !.exposed = IF f = History /\ Exposing THEN @ \cup {l.n} ELSE @,
                              !.deleted = @ \ {l.session}]
  BY <1>1 DEF Grows, Appends
<1>3. DOMAIN past = {"exposed", "overwritten", "deleted"} /\ LinesSaved
  BY DEF HInv, TakenOut
<1>4. /\ past'.exposed = IF f = History /\ Exposing THEN past.exposed \cup {written'}
                         ELSE past.exposed
      /\ past'.deleted = past.deleted \ {l.session} /\ past'.overwritten = past.overwritten
  BY <1>2, <1>3
<1>5. Saved \subseteq Saved' /\ (f = History /\ Exposing => written' \in Saved')
  BY <1>2, <1>4 DEF Saved
<1>6. \A g \in Files : Numbers(content[g]) \subseteq Numbers(content'[g])
  BY <1>1
<1>7. 1..written' \subseteq (UNION {Numbers(content'[g]) : g \in Files}) \cup Saved'
  <2> SUFFICES ASSUME NEW n \in 1..written'
               PROVE  n \in Saved' \/ \E g \in Files : n \in Numbers(content'[g])
    OBVIOUS
  <2>1. CASE n = written'
    BY <1>1, <2>1
  <2>2. CASE n \in 1..written
    <3>1. n \in Saved \/ \E g \in Files : n \in Numbers(content[g])
      BY <1>3, <2>2 DEF LinesSaved
    <3> QED
      BY <1>5, <1>6, <3>1
  <2>3. QED
    BY <1>1, <2>1, <2>2
<1>8. ASSUME NEW d \in Handlers
      PROVE  /\ del'[d].at = "copy" =>
                  Numbers(del'[d].body) \subseteq Numbers(content'[History]) \cup Saved'
             /\ del'[d].at \in {"truncate", "write"} =>
                  Numbers(content'[History]) \cup Numbers(del'[d].body) \subseteq Saved'
  <2>1. del'[d].at = del[d].at /\ del'[d].body = del[d].body
    BY GrownDels
  <2>2. CASE del[d].at = "copy"
    BY <1>3, <1>5, <1>6, <2>1, <2>2, WatchedFiles DEF LinesSaved
  <2>3. CASE del[d].at \in {"truncate", "write"}
    <3>1. Numbers(content[History]) \cup Numbers(del[d].body) \subseteq Saved
      BY <1>3, <2>3 DEF LinesSaved
    <3>2. Numbers(content'[History]) \subseteq Saved'
      BY <1>1, <1>5, <2>3, <3>1, WatchedFiles DEF Exposing
    <3> QED
      BY <1>5, <2>1, <2>3, <3>1, <3>2
  <2>4. QED
    BY <2>1, <2>2, <2>3
<1>9. QED
  BY <1>7, <1>8 DEF LinesSaved

\* The sessions taken out.
LEMMA GrownTaken ==
  ASSUME ToolsAssumption, HInv, NEW f, NEW l, Grows(f, l)
  PROVE  TakenOut'
<1>1. /\ f \in {l.session, History} /\ l.session \in Sessions /\ moved' = moved
      /\ past' = [past EXCEPT !.exposed = IF f = History /\ Exposing THEN @ \cup {l.n} ELSE @,
                              !.deleted = @ \ {l.session}]
  BY DEF Grows, Appends, Line
<1>2. TakenOut /\ DOMAIN past = {"exposed", "overwritten", "deleted"} /\ History \notin Sessions
  BY DEF HInv, TakenOut, ToolsAssumption
<1>3. past'.deleted = past.deleted \ {l.session} /\ DOMAIN past' = {"exposed", "overwritten", "deleted"}
  BY <1>1, <1>2
<1>4. ASSUME NEW s, s # l.session, Without(content[History], s) PROVE Without(content'[History], s)
  <2>1. CASE f # History
    BY <1>4, <2>1, GrownFiles, WatchedFiles
  <2>2. CASE f = History
    BY <1>4, <2>2, GrownFiles DEF Without
  <2>3. QED
    BY <2>1, <2>2
<1>5. ASSUME NEW d \in Handlers, NEW e \in Handlers,
             del'[d].at # "none", del'[d].apart, del'[e].at # "none"
      PROVE  d = e
  BY <1>2, <1>5, GrownDels DEF TakenOut
<1>6. ASSUME NEW d \in Handlers, del'[d].at = "move", del'[d].apart
      PROVE  Without(content'[History], del'[d].session)
  <2>1. /\ del[d].at = "move" /\ del[d].apart /\ del[d].session # l.session
        /\ del'[d].session = del[d].session
    BY <1>6, GrownDels
  <2> QED
    BY <1>2, <1>4, <2>1 DEF TakenOut
<1>7. ASSUME NEW s \in past'.deleted
      PROVE  /\ Without(content'[History], s)
             /\ \A d \in Handlers : Without(del'[d].body, s)
  <2>1. s \in past.deleted /\ s # l.session /\ s \in Sessions
    BY <1>2, <1>3 DEF TakenOut
  <2> QED
    BY <1>1, <1>2, <1>4, <2>1, GrownDels DEF TakenOut
<1>8. QED
  BY <1>2, <1>3, <1>5, <1>6, <1>7 DEF TakenOut

\* What the monitor knows.
LEMMA GrownScan ==
  ASSUME ToolsAssumption, HInv, NEW f, NEW l, Grows(f, l)
  PROVE  ScanOK' /\ Noticed'
<1>1. /\ tool' = tool /\ moved' = moved /\ offset' = offset /\ scan' = scan /\ life' = life
      /\ f \notin half /\ l.n = written'
      /\ half' = half \/ (f \in Sessions /\ half' = half \cup {f} /\ ~ l.whole)
  BY DEF Grows, monitor, Appends
<1>2. ScanOK /\ Noticed /\ DiskOK /\ Watched' = Watched /\ News' = News
  BY <1>1 DEF HInv, Watched, News
<1>3. written \in Nat /\ written' = written + 1 /\ f \in Files
  BY GrownFiles
<1>4. ScanOK'
  <2>1. ScanType' = ScanType /\ 1..written \subseteq 1..written'
    BY <1>2, <1>3 DEF ScanType
  <2>2. \A d \in Handlers : del'[d].at = del[d].at
    BY GrownDels
  <2> QED
    BY <1>1, <1>2, <2>1, <2>2 DEF ScanOK
<1>5. ASSUME NEW g \in Watched \ (life.rewritten \cup moved) PROVE NoticedIn(g)'
  <2>1. NoticedIn(g) /\ g \in Files /\ \A i : Ahead(g, i)' <=> Ahead(g, i)
    BY <1>1, <1>2, WatchedFiles DEF Noticed, Ahead
  <2>2. CASE g # f
    <3>1. content'[g] = content[g] /\ Size(g)' = Size(g)
      BY <1>1, <2>1, <2>2, GrownFiles DEF Size
    <3> QED
      BY <1>1, <1>2, <2>1, <3>1 DEF NoticedIn
  <2>3. CASE g = f
    <3>1. Size(f) = 2 * Len(content[f]) /\ Len(content[f]) \in Nat /\ offset[f] <= Size(f)
      BY <1>1, <1>2, <1>3, <2>1, <2>3, SizeForm DEF NoticedIn
    <3>2. offset[f] \in Int
      BY <1>2, <1>3 DEF ScanOK, Unseen, ToolsAssumption
    <3>3. Len(content'[f]) = Len(content[f]) + 1
      BY GrownFiles
    <3>4. offset[f] <= Size(f)'
      <4>1. Size(f)' = 2 * Len(content'[f]) - (IF f \in half' THEN 1 ELSE 0)
        BY DEF Size
      <4>2. Size(f)' \in {2 * Len(content'[f]), 2 * Len(content'[f]) - 1}
        <5>1. CASE f \in half'
          BY <4>1, <5>1
        <5>2. CASE f \notin half'
          BY <3>1, <3>3, <4>1, <5>2
        <5>3. QED
          BY <5>1, <5>2
      <4> QED
        BY <3>1, <3>2, <3>3, <4>2
    <3>5. Ahead(f, Len(content'[f]))
      BY <3>1, <3>2, <3>3 DEF Ahead
    <3>6. written' \notin life.base
      BY <1>2, <1>3 DEF ScanOK
    <3>7. ASSUME NEW i \in DOMAIN content'[f]
          PROVE  /\ content'[f][i].asks /\ content'[f][i].whole =>
                      content'[f][i].n \in life.base \cup News \cup life.lost \/ Ahead(f, i)
                 /\ content'[f][i].n \in life.base => content'[f][i].n \notin News /\ ~ Ahead(f, i)
      <4>1. CASE i \in DOMAIN content[f]
        BY <2>1, <2>3, <4>1, GrownFiles DEF NoticedIn
      <4>2. CASE i \notin DOMAIN content[f]
        BY <1>1, <3>5, <3>6, <4>2, GrownFiles
      <4>3. QED
        BY <4>1, <4>2
    <3> QED
      BY <1>1, <1>2, <2>1, <2>3, <3>4, <3>7 DEF NoticedIn
  <2>4. QED
    BY <2>2, <2>3
<1>6. QED
  BY <1>1, <1>2, <1>4, <1>5 DEF Noticed

\* A line is written.
LEMMA WritingKeeps ==
  ASSUME ToolsAssumption, HInv, NEW s \in Sessions, NEW f \in Files, WriteLine(f, s) \/ StartLine(s)
  PROVE  HInv'
<1>1. PICK g, l : Grows(g, l)
  BY WritingGrows
<1>2. QED
  BY <1>1, GrownDisk, GrownDels, GrownSaved, GrownTaken, GrownScan DEF HInv

\* The second half of a line is written.
LEMMA FinishKeeps == ASSUME ToolsAssumption, HInv, NEW s \in Sessions, FinishLine(s) PROVE HInv'
<1>1. /\ tool' = tool /\ content' = content /\ half' = half \ {s} /\ moved' = moved
      /\ backups' = backups /\ written' = written /\ del' = del /\ past' = past
      /\ offset' = offset /\ scan' = scan /\ life' = life
  BY DEF FinishLine, monitor
<1>2. DiskOK /\ DelsOK /\ LinesSaved /\ TakenOut /\ ScanOK /\ Noticed
  BY DEF HInv
<1>3. DiskOK' /\ DelsOK'
  <2>1. DiskOK'
    BY <1>1, <1>2 DEF DiskOK, Separate
  <2>2. DelsOK'
    BY <1>1, <1>2 DEF DelsOK
  <2> QED
    BY <2>1, <2>2
<1>4. LinesSaved' /\ TakenOut'
  BY <1>1, <1>2 DEF LinesSaved, Saved, TakenOut
<1>5. Watched' = Watched /\ News' = News /\ \A g, i : Ahead(g, i)' <=> Ahead(g, i)
  BY <1>1 DEF Watched, News, Ahead
<1>6. ScanOK'
  <2>1. ScanType' = ScanType
    BY <1>5 DEF ScanType
  <2> QED
    BY <1>1, <1>2, <2>1 DEF ScanOK
<1>7. ASSUME NEW g \in Watched \ (life.rewritten \cup moved) PROVE NoticedIn(g)'
  <2>1. NoticedIn(g) /\ g \in Files
    BY <1>2, WatchedFiles DEF Noticed
  <2>2. Len(content[g]) \in Nat /\ Size(g) \in Nat
    BY <1>2, <2>1, SizeForm
  <2>3. offset[g] \in Int
    BY <1>2, <2>1 DEF ScanOK, Unseen, ToolsAssumption
  <2>4. Size(g) <= Size(g)' /\ Size(g)' \in Int
    <3>1. CASE g \in half' /\ g \in half
      BY <1>1, <2>2, <3>1 DEF Size
    <3>2. CASE g \notin half' /\ g \in half
      BY <1>1, <2>2, <3>2 DEF Size
    <3>3. CASE g \notin half' /\ g \notin half
      BY <1>1, <2>2, <3>3 DEF Size
    <3>4. QED
      BY <1>1, <3>1, <3>2, <3>3
  <2>5. offset[g] <= Size(g)'
    BY <2>1, <2>2, <2>3, <2>4 DEF NoticedIn
  <2> QED
    BY <1>1, <1>5, <2>1, <2>5 DEF NoticedIn
<1>8. QED
  BY <1>1, <1>3, <1>4, <1>5, <1>6, <1>7 DEF HInv, Noticed
--------------------------------------------------------------------------------
(* The deletions. *)

\* What the monitor knows survives a deletion, which touches only the history.
LEMMA ScanUndisturbed ==
  ASSUME ToolsAssumption, HInv, UNCHANGED <<tool, half, written, monitor>>,
         DOMAIN life' = DOMAIN life, life'.base = life.base, life'.shown = life.shown,
         life'.lost = life.lost, life.rewritten \subseteq life'.rewritten, moved \subseteq moved',
         \A g \in Files \ life'.rewritten : content'[g] = content[g],
         \A d \in Handlers : del'[d].at = "write" => History \in life'.rewritten
  PROVE  ScanOK' /\ Noticed'
<1>1. /\ tool' = tool /\ half' = half /\ written' = written /\ offset' = offset /\ scan' = scan
  BY DEF monitor
<1>2. ScanOK /\ Noticed
  BY DEF HInv
<1>3. Watched' = Watched /\ News' = News /\ \A g, i : Ahead(g, i)' <=> Ahead(g, i)
  BY <1>1 DEF Watched, News, Ahead
<1>4. ScanOK'
  <2>1. ScanType' = ScanType
    BY <1>3 DEF ScanType
  <2> QED
    BY <1>1, <1>2, <2>1 DEF ScanOK
<1>5. ASSUME NEW g \in Watched \ (life'.rewritten \cup moved') PROVE NoticedIn(g)'
  <2>1. NoticedIn(g) /\ g \in Files \ life'.rewritten
    BY <1>2, <1>5, WatchedFiles DEF Noticed
  <2>2. content'[g] = content[g] /\ Size(g)' = Size(g)
    BY <1>1, <2>1 DEF Size
  <2> QED
    BY <1>1, <1>3, <2>1, <2>2 DEF NoticedIn
<1>6. QED
  BY <1>3, <1>4, <1>5 DEF Noticed

\* A handler goes on with what it has read, or with nothing.
LEMMA HandlerGoesOn ==
  ASSUME DelsOK, NEW d \in Handlers, NEW rec \in DelType, del' = [del EXCEPT ![d] = rec],
         written' = written, \A g \in Sessions : content'[g] = content[g],
         rec.body = del[d].body \/ rec.body = <<>>, rec.at # "none" => rec.session \in Sessions,
         rec.at \in {"none", "move"} => rec.body = <<>>
  PROVE  DelsOK' /\ del'[d] = rec /\ \A e \in Handlers \ {d} : del'[e] = del[e]
<1>1. DOMAIN del' = Handlers /\ del'[d] = rec /\ \A e \in Handlers \ {d} : del'[e] = del[e]
  BY DEF DelsOK
<1>2. ASSUME NEW g \in Sessions, NEW i \in DOMAIN content[g], NEW e \in Handlers,
             NEW j \in DOMAIN del'[e].body
      PROVE  content[g][i].n # del'[e].body[j].n
  <2>1. del'[e].body = del[e].body \/ del'[e].body = <<>>
    BY <1>1
  <2>2. DOMAIN <<>> = {}
    OBVIOUS
  <2>3. del'[e].body = del[e].body
    BY <1>2, <2>1, <2>2
  <2> QED
    BY <1>2, <2>3 DEF DelsOK
<1>3. \A e \in Handlers : LinesOK(del'[e].body, written)
  BY <1>1, EmptyFile DEF DelsOK
<1>4. DelsOK'
  BY <1>1, <1>2, <1>3 DEF DelsOK
<1>5. QED
  BY <1>1, <1>4

\* The parts of what a handler does.
LEMMA HandlerForm ==
  ASSUME ToolsAssumption, DelsOK, NEW d \in Handlers,
         NEW at \in {"none", "copy", "truncate", "write", "move"},
         NEW x, x = [del[d] EXCEPT !.at = at]
  PROVE  /\ x \in DelType /\ x.at = at /\ x.session = del[d].session
         /\ x.body = del[d].body /\ x.apart = del[d].apart
<1>1. del[d] \in DelType /\ <<>> \in Seq(Line) /\ 1 \in 1..LastSecond
  BY DEF DelsOK, ToolsAssumption
<1>2. QED
  BY <1>1 DEF DelType

LEMMA HandlerWroteForm ==
  ASSUME ToolsAssumption, DelsOK, NEW d \in Handlers,
         NEW at \in {"none", "copy", "truncate", "write", "move"},
         NEW x, x = [del[d] EXCEPT !.at = at, !.body = <<>>]
  PROVE  /\ x \in DelType /\ x.at = at /\ x.session = del[d].session
         /\ x.body = <<>> /\ x.apart = del[d].apart
<1>1. del[d] \in DelType /\ <<>> \in Seq(Line) /\ 1 \in 1..LastSecond
  BY DEF DelsOK, ToolsAssumption
<1>2. QED
  BY <1>1 DEF DelType

LEMMA HandlerCopiedForm ==
  ASSUME ToolsAssumption, DelsOK, NEW d \in Handlers,
         NEW x, x = [del[d] EXCEPT !.at = "truncate", !.since = 1]
  PROVE  /\ x \in DelType /\ x.at = "truncate" /\ x.session = del[d].session
         /\ x.body = del[d].body /\ x.apart = del[d].apart
<1>1. del[d] \in DelType /\ 1 \in 1..LastSecond
  BY DEF DelsOK, ToolsAssumption
<1>2. QED
  BY <1>1 DEF DelType

LEMMA NoDeletionForm ==
  /\ NoDeletion \in DelType /\ NoDeletion.at = "none" /\ NoDeletion.body = <<>>
  /\ ~ NoDeletion.apart
<1>1. <<>> \in Seq(Line) /\ FALSE \in BOOLEAN /\ 1 \in 1..LastSecond
  BY ToolsAssumption DEF ToolsAssumption
<1>2. NoDeletion \in DelType /\ NoDeletion.at = "none" /\ NoDeletion.body = <<>>
  BY <1>1 DEF NoDeletion, DelType
<1>3. NoDeletion.apart = FALSE
  BY Zenon DEF NoDeletion
<1>4. QED
  BY <1>2, <1>3

\* A deletion ends where it is.
LEMMA FailsKeeps ==
  ASSUME ToolsAssumption, HInv, NEW d \in Handlers, DeletionFails(d)
  PROVE  HInv'
<1>1. /\ tool' = tool /\ content' = content /\ half' = half /\ moved' = moved
      /\ backups' = backups /\ written' = written /\ past' = past /\ life' = life
      /\ UNCHANGED monitor /\ del' = [del EXCEPT ![d] = NoDeletion]
  BY DEF DeletionFails, Fails, Put, disk
<1>2. DiskOK /\ DelsOK /\ LinesSaved /\ TakenOut /\ ScanOK
  BY DEF HInv
<1>3. /\ DelsOK' /\ del'[d] = NoDeletion /\ \A e \in Handlers \ {d} : del'[e] = del[e]
  BY <1>1, <1>2, HandlerGoesOn, NoDeletionForm
<1>4. DiskOK'
  BY <1>1, <1>2 DEF DiskOK, Separate
<1>5. LinesSaved'
  <2>1. \A e \in Handlers : del'[e].at # "none" => e # d
    BY <1>3, NoDeletionForm
  <2>2. Saved' = Saved
    BY <1>1 DEF Saved
  <2> QED
    BY <1>1, <1>2, <1>3, <2>1, <2>2 DEF LinesSaved
<1>6. TakenOut'
  <2>1. \A e \in Handlers : del'[e].at # "none" => e # d
    BY <1>3, NoDeletionForm
  <2>2. \A e \in Handlers : \A s : Without(del[e].body, s) => Without(del'[e].body, s)
    BY <1>3, NoDeletionForm, EmptyFile
  <2> QED
    BY <1>1, <1>2, <1>3, <2>1, <2>2 DEF TakenOut
<1>7. ScanOK' /\ Noticed'
  <2>1. \A e \in Handlers : del'[e].at = "write" => History \in life.rewritten
    BY <1>2, <1>3, NoDeletionForm DEF ScanOK
  <2> QED
    BY <1>1, <2>1, ScanUndisturbed
<1>8. QED
  BY <1>3, <1>4, <1>5, <1>6, <1>7 DEF HInv

\* A copy goes to the trash, and nothing that was saved is not any more.
LEMMA BackupSaves ==
  ASSUME ToolsAssumption, HInv, NowOK, NEW d \in Handlers, NEW lines \in SUBSET (1..written),
         NEW t \in del[d].since..now,
         backups' = [backups EXCEPT ![t] = lines],
         past' = [past EXCEPT !.overwritten = @ \cup (backups[t] \ lines)]
  PROVE  /\ backups' \in [1..LastSecond -> SUBSET (1..written)]
         /\ Saved \cup lines \subseteq Saved'
         /\ past'.deleted = past.deleted /\ DOMAIN past' = DOMAIN past
<1>1. /\ backups \in [1..LastSecond -> SUBSET (1..written)] /\ del[d] \in DelType
      /\ DOMAIN past = {"exposed", "overwritten", "deleted"}
  BY DEF HInv, DiskOK, DelsOK, TakenOut
<1>2. t \in 1..LastSecond
  <2>1. del[d].since \in 1..LastSecond /\ now \in 1..LastSecond /\ LastSecond \in Nat
    BY <1>1 DEF DelType, NowOK, ToolsAssumption
  <2> QED
    BY <2>1
<1>3. /\ backups' \in [1..LastSecond -> SUBSET (1..written)] /\ backups'[t] = lines
      /\ \A u \in 1..LastSecond : u # t => backups'[u] = backups[u]
  BY <1>1, <1>2
<1>4. /\ past'.overwritten = past.overwritten \cup (backups[t] \ lines)
      /\ past'.exposed = past.exposed /\ past'.deleted = past.deleted
      /\ DOMAIN past' = DOMAIN past
  BY <1>1
<1>5. ASSUME NEW n \in Saved PROVE n \in Saved'
  <2>1. CASE n \in past.exposed \cup past.overwritten
    BY <1>4, <2>1 DEF Saved
  <2>2. CASE \E u \in 1..LastSecond : n \in backups[u]
    <3> PICK u \in 1..LastSecond : n \in backups[u]
      BY <2>2
    <3>1. n \in backups'[u] \/ n \in past'.overwritten
      BY <1>3, <1>4
    <3> QED
      BY <3>1 DEF Saved
  <2>3. QED
    BY <2>1, <2>2 DEF Saved
<1>6. lines \subseteq Saved'
  BY <1>2, <1>3 DEF Saved
<1>7. QED
  BY <1>3, <1>4, <1>5, <1>6

\* The numbers in a well-formed file.
LEMMA WrittenNumbers ==
  ASSUME ToolsAssumption, DiskOK, NEW f \in Files
  PROVE  Numbers(content[f]) \in SUBSET (1..written)
<1> SUFFICES ASSUME NEW n \in Numbers(content[f]) PROVE n \in 1..written
  OBVIOUS
<1>1. content[f] \in Seq(Line) /\ LinesOK(content[f], written) /\ written \in Nat
  BY SizeForm DEF DiskOK, ToolsAssumption
<1>2. PICK i \in DOMAIN content[f] : n = content[f][i].n
  BY <1>1, NumberOf
<1>3. n \in 1..MaxLines /\ n <= written
  BY <1>1, <1>2, FileForm DEF LinesOK
<1> QED
  BY <1>1, <1>3

\* The history goes to the trash, or a copy breaks off.
LEMMA CopyKeeps ==
  ASSUME ToolsAssumption, HInv, NowOK, NEW d \in Handlers, CopyHistory(d) \/ CopyFails(d)
  PROVE  HInv'
<1>1. PICK lines, at : /\ \/ lines = Numbers(content[History]) /\ at = "truncate"
                          \/ lines = {} /\ at = "none"
                       /\ Backup(d, lines, at)
  BY DEF CopyHistory, CopyFails
<1>2. /\ tool' = tool /\ content' = content /\ half' = half /\ moved' = moved
      /\ written' = written /\ life' = life /\ UNCHANGED monitor
      /\ del[d].at = "copy"
      /\ del' = [del EXCEPT ![d] = IF at = "none" THEN NoDeletion
                                   ELSE [del[d] EXCEPT !.at = at, !.since = 1]]
  BY <1>1 DEF Backup, Put
<1>3. PICK t \in del[d].since..now :
        /\ backups' = [backups EXCEPT ![t] = lines]
        /\ past' = [past EXCEPT !.overwritten = @ \cup (backups[t] \ lines)]
  BY <1>1 DEF Backup
<1>4. DiskOK /\ DelsOK /\ LinesSaved /\ TakenOut /\ ScanOK /\ del[d].session \in Sessions
  BY <1>2 DEF HInv, DelsOK
<1>5. lines \in SUBSET (1..written)
  BY <1>1, <1>4, WrittenNumbers, WatchedFiles
<1>6. /\ backups' \in [1..LastSecond -> SUBSET (1..written)] /\ Saved \cup lines \subseteq Saved'
      /\ past'.deleted = past.deleted /\ DOMAIN past' = DOMAIN past
  BY <1>3, <1>5, BackupSaves
<1>7. PICK rec \in DelType :
        /\ del' = [del EXCEPT ![d] = rec]
        /\ \/ rec.at = "none" /\ rec.body = <<>>
           \/ /\ rec.at = "truncate" /\ lines = Numbers(content[History])
              /\ rec.session = del[d].session /\ rec.body = del[d].body
              /\ rec.apart = del[d].apart
  <2>1. CASE at = "none"
    BY <1>2, <2>1, NoDeletionForm
  <2>2. CASE at # "none"
    <3>1. at = "truncate" /\ lines = Numbers(content[History])
      BY <1>1, <2>2
    <3>2. PICK x : x = [del[d] EXCEPT !.at = "truncate", !.since = 1]
      OBVIOUS
    <3>3. del' = [del EXCEPT ![d] = x]
      BY <1>2, <2>2, <3>1, <3>2
    <3>4. /\ x \in DelType /\ x.at = "truncate" /\ x.session = del[d].session
          /\ x.body = del[d].body /\ x.apart = del[d].apart
      BY <1>4, <3>2, HandlerCopiedForm
    <3>5. \/ x.at = "none" /\ x.body = <<>>
          \/ /\ x.at = "truncate" /\ lines = Numbers(content[History])
             /\ x.session = del[d].session /\ x.body = del[d].body
             /\ x.apart = del[d].apart
      BY <3>1, <3>4, Zenon
    <3> QED
      BY <3>3, <3>4, <3>5, Zenon
  <2>3. QED
    BY <2>1, <2>2
<1>8. /\ DelsOK' /\ del'[d] = rec /\ \A e \in Handlers \ {d} : del'[e] = del[e]
  BY <1>2, <1>4, <1>7, HandlerGoesOn
<1>9. DiskOK'
  BY <1>2, <1>4, <1>6 DEF DiskOK, Separate
<1>10. LinesSaved'
  <2>1. ASSUME NEW e \in Handlers
        PROVE  /\ del'[e].at = "copy" =>
                    Numbers(del'[e].body) \subseteq Numbers(content[History]) \cup Saved'
               /\ del'[e].at \in {"truncate", "write"} =>
                    Numbers(content[History]) \cup Numbers(del'[e].body) \subseteq Saved'
    <3>1. CASE e = d /\ rec.at = "none"
      BY <1>8, <3>1
    <3>2. CASE e = d /\ rec.at = "truncate"
      <4>1. /\ lines = Numbers(content[History]) /\ rec.body = del[d].body
            /\ Numbers(del[d].body) \subseteq Numbers(content[History]) \cup Saved
        BY <1>2, <1>4, <1>7, <3>2 DEF LinesSaved
      <4> QED
        BY <1>6, <1>8, <3>2, <4>1
    <3>3. CASE e # d
      BY <1>4, <1>6, <1>8, <3>3 DEF LinesSaved
    <3>4. QED
      BY <1>7, <3>1, <3>2, <3>3
  <2>2. 1..written \subseteq (UNION {Numbers(content[f]) : f \in Files}) \cup Saved'
    BY <1>4, <1>6 DEF LinesSaved
  <2> QED
    BY <1>2, <2>1, <2>2 DEF LinesSaved
<1>11. TakenOut'
  <2>1. ASSUME NEW e \in Handlers, del'[e].at # "none"
        PROVE  /\ del[e].at # "none" /\ del'[e].session = del[e].session
               /\ del'[e].apart = del[e].apart
               /\ del'[e].at = "move" => del[e].at = "move"
    <3>1. CASE e = d
      BY <1>2, <1>7, <1>8, <2>1, <3>1
    <3>2. CASE e # d
      BY <1>8, <2>1, <3>2
    <3>3. QED
      BY <3>1, <3>2
  <2>2. \A e \in Handlers : \A s : Without(del[e].body, s) => Without(del'[e].body, s)
    BY <1>7, <1>8, EmptyFile
  <2>3. /\ \A e, g \in Handlers : del'[e].at # "none" /\ del'[e].apart /\ del'[g].at # "none" => e = g
        /\ \A e \in Handlers : del'[e].at = "move" /\ del'[e].apart =>
             Without(content[History], del'[e].session)
    <3>1. \A e, g \in Handlers : del'[e].at # "none" /\ del'[e].apart /\ del'[g].at # "none" => e = g
      BY <1>4, <2>1 DEF TakenOut
    <3>2. \A e \in Handlers : del'[e].at = "move" /\ del'[e].apart =>
            Without(content[History], del'[e].session)
      BY <1>4, <2>1 DEF TakenOut
    <3> QED
      BY <3>1, <3>2
  <2> QED
    BY <1>2, <1>4, <1>6, <2>2, <2>3 DEF TakenOut
<1>12. ScanOK' /\ Noticed'
  <2>1. \A e \in Handlers : del'[e].at = "write" => History \in life.rewritten
    BY <1>4, <1>7, <1>8 DEF ScanOK
  <2> QED
    BY <1>2, <2>1, ScanUndisturbed
<1>13. QED
  BY <1>8, <1>9, <1>10, <1>11, <1>12 DEF HInv
\* What the handlers hold when one of them begins: it alone may be apart.
LEMMA ReadDels ==
  ASSUME ToolsAssumption, HInv, NowOK, NEW d \in Handlers, NEW s \in Sessions, ReadHistory(d, s)
  PROVE  /\ del[d].at = "none"
         /\ \A e \in Handlers : del'[e] \in DelType
         /\ \A e \in Handlers \ {d} :
              /\ del'[e].at = del[e].at /\ del'[e].session = del[e].session
              /\ del'[e].body = del[e].body /\ ~ del'[e].apart
         /\ del'[d].session = s
         /\ del'[d].apart => \A e \in Handlers : del[e].at = "none"
         /\ \/ del'[d].at = "copy" /\ del'[d].body = content[History]
            \/ /\ del'[d].at = "move" /\ del'[d].body = <<>>
               /\ Without(content[History], s)
         /\ DOMAIN del' = Handlers
<1> DEFINE mine == \E l \in Range(content[History]) : l.session = s
           others == {e \in Handlers : del[e].at # "none"}
<1>1. /\ del[d].at = "none"
      /\ del' = [e \in Handlers |->
                   IF e = d THEN [at |-> IF mine THEN "copy" ELSE "move", session |-> s,
                                  body |-> IF mine THEN content[History] ELSE <<>>,
                                  apart |-> others = {}, since |-> IF mine THEN now ELSE 1]
                   ELSE [del[e] EXCEPT !.apart = FALSE]]
  BY DEF ReadHistory
<1>2. DelsOK /\ content[History] \in Seq(Line)
  BY WatchedFiles, SizeForm DEF HInv
<1>3. ~ mine => Without(content[History], s)
  BY DEF Without, Range
<1>4. PICK b \in BOOLEAN : b <=> others = {}
  OBVIOUS
<1>5. PICK at, body, since : /\ at = IF mine THEN "copy" ELSE "move"
                             /\ body = IF mine THEN content[History] ELSE <<>>
                             /\ since = IF mine THEN now ELSE 1
  OBVIOUS
<1>0. since \in 1..LastSecond
  BY <1>5 DEF NowOK, ToolsAssumption
<1>6. /\ at \in {"copy", "move"} /\ body \in Seq(Line)
      /\ \/ at = "copy" /\ body = content[History]
         \/ at = "move" /\ body = <<>> /\ Without(content[History], s)
  <2>1. CASE mine
    BY <1>2, <1>5, <2>1
  <2>2. CASE ~ mine
    <3>1. at = "move" /\ body = <<>>
      BY <1>5, <2>2
    <3>2. <<>> \in Seq(Line)
      OBVIOUS
    <3> QED
      BY <1>3, <2>2, <3>1, <3>2
  <2>3. QED
    BY <2>1, <2>2
<1> HIDE DEF mine
<1>7. del'[d] = [at |-> at, session |-> s, body |-> body, apart |-> others = {}, since |-> since]
  BY <1>1, <1>5
<1>8. /\ del'[d] \in DelType /\ del'[d].at = at /\ del'[d].session = s /\ del'[d].body = body
      /\ del'[d].apart => others = {}
  <2> HIDE DEF others
  <2>1. del'[d] = [at |-> at, session |-> s, body |-> body, apart |-> b, since |-> since]
    <3>1. b = (others = {})
      BY <1>4
    <3> QED
      BY <1>7, <3>1, Zenon
  <2>2. del'[d] \in DelType /\ del'[d].at = at /\ del'[d].session = s /\ del'[d].body = body
    BY <1>0, <1>6, <2>1 DEF DelType
  <2>3. del'[d].apart = b
    BY <2>1
  <2> QED
    BY <1>4, <2>2, <2>3
<1>9. ASSUME NEW e \in Handlers \ {d}
      PROVE  /\ del'[e] \in DelType
             /\ del'[e].at = del[e].at /\ del'[e].session = del[e].session
             /\ del'[e].body = del[e].body /\ ~ del'[e].apart
  <2>1. del'[e] = [del[e] EXCEPT !.apart = FALSE] /\ del[e] \in DelType /\ FALSE \in BOOLEAN
    BY <1>1, <1>2 DEF DelsOK
  <2> QED
    BY <2>1 DEF DelType
<1>10. QED
  BY <1>1, <1>6, <1>8, <1>9

\* The history is read.
LEMMA ReadHistoryKeeps ==
  ASSUME ToolsAssumption, HInv, NowOK, NEW d \in Handlers, NEW s \in Sessions, ReadHistory(d, s)
  PROVE  HInv'
<1>1. /\ tool' = tool /\ content' = content /\ half' = half /\ moved' = moved
      /\ backups' = backups /\ written' = written /\ past' = past /\ life' = life
      /\ UNCHANGED monitor
  BY DEF ReadHistory, disk
<1>2. DiskOK /\ DelsOK /\ LinesSaved /\ TakenOut /\ ScanOK /\ LinesOK(content[History], written)
  BY WatchedFiles, SizeForm DEF HInv
<1>3. DiskOK'
  BY <1>1, <1>2 DEF DiskOK, Separate
<1>4. DelsOK'
  <2>1. ASSUME NEW e \in Handlers
        PROVE  /\ del'[e].at # "none" => del'[e].session \in Sessions
               /\ LinesOK(del'[e].body, written)
               /\ del'[e].at \in {"none", "move"} => del'[e].body = <<>>
               /\ \A f \in Sessions : \A i \in DOMAIN content[f], j \in DOMAIN del'[e].body :
                    content[f][i].n # del'[e].body[j].n
    <3>1. CASE e # d
      BY <1>2, <3>1, ReadDels DEF DelsOK
    <3>2. CASE e = d /\ del'[d].at = "copy" /\ del'[d].body = content[History]
      <4>1. \A f \in Sessions : \A i \in DOMAIN content[f], j \in DOMAIN content[History] :
              content[f][i].n # content[History][j].n
        BY <1>2, WatchedFiles DEF DiskOK, Separate, ToolsAssumption
      <4> QED
        BY <1>2, <3>2, <4>1, ReadDels
    <3>3. CASE e = d /\ del'[d].at = "move" /\ del'[d].body = <<>>
      <4>1. DOMAIN <<>> = {}
        OBVIOUS
      <4> QED
        BY <3>3, <4>1, ReadDels, EmptyFile
    <3>4. QED
      BY <3>1, <3>2, <3>3, ReadDels
  <2> QED
    BY <1>1, <2>1, ReadDels DEF DelsOK
<1>5. LinesSaved'
  <2>1. Saved' = Saved
    BY <1>1 DEF Saved
  <2>2. ASSUME NEW e \in Handlers
        PROVE  /\ del'[e].at = "copy" =>
                    Numbers(del'[e].body) \subseteq Numbers(content[History]) \cup Saved
               /\ del'[e].at \in {"truncate", "write"} =>
                    Numbers(content[History]) \cup Numbers(del'[e].body) \subseteq Saved
    <3>1. CASE e # d
      BY <1>2, <3>1, ReadDels DEF LinesSaved
    <3>2. CASE e = d
      BY <3>2, ReadDels
    <3>3. QED
      BY <3>1, <3>2
  <2> QED
    BY <1>1, <1>2, <2>1, <2>2 DEF LinesSaved
<1>6. TakenOut'
  <2>1. ASSUME NEW e \in Handlers, NEW g \in Handlers,
               del'[e].at # "none", del'[e].apart, del'[g].at # "none"
        PROVE  e = g
    BY <2>1, ReadDels
  <2>2. \A e \in Handlers : del'[e].at = "move" /\ del'[e].apart =>
          Without(content[History], del'[e].session)
    BY ReadDels
  <2>3. ASSUME NEW r \in past.deleted, NEW e \in Handlers PROVE Without(del'[e].body, r)
    <3>1. Without(del[e].body, r) /\ Without(content[History], r)
      BY <1>2 DEF TakenOut
    <3> QED
      BY <3>1, ReadDels, EmptyFile
  <2> QED
    BY <1>1, <1>2, <2>1, <2>2, <2>3 DEF TakenOut
<1>7. ScanOK' /\ Noticed'
  <2>1. \A e \in Handlers : del'[e].at = "write" => History \in life.rewritten
    BY <1>2, ReadDels DEF ScanOK
  <2> QED
    BY <1>1, <2>1, ScanUndisturbed
<1>8. QED
  BY <1>3, <1>4, <1>5, <1>6, <1>7 DEF HInv

\* The history is replaced, by lines of a body or by nothing: a disk that was well
\* formed still is.
LEMMA RewrittenDisk ==
  ASSUME ToolsAssumption, HInv, NEW d \in Handlers, NEW out,
         UNCHANGED <<tool, half, moved, backups, written>>,
         content' = [content EXCEPT ![History] = out], LinesOK(out, written),
         \A k \in DOMAIN out : \E j \in DOMAIN del[d].body : out[k] = del[d].body[j]
  PROVE  /\ DiskOK' /\ content'[History] = out
         /\ \A f \in Files \ {History} : content'[f] = content[f]
<1>1. DiskOK /\ DelsOK /\ DOMAIN content = Files
  BY DEF HInv, DiskOK
<1>2. /\ DOMAIN content' = Files /\ content'[History] = out
      /\ \A f \in Files \ {History} : content'[f] = content[f]
  BY <1>1, WatchedFiles
<1>3. ASSUME NEW f \in Sessions, NEW i \in DOMAIN content[f], NEW k \in DOMAIN out
      PROVE  content[f][i].n # out[k].n
  BY <1>1 DEF DelsOK
<1>4. Separate'
  <2> SUFFICES ASSUME NEW f \in Files, NEW g \in Files, NEW i \in DOMAIN content'[f],
                      NEW j \in DOMAIN content'[g], content'[f][i].n = content'[g][j].n
               PROVE  f = g
    BY DEF Separate
  <2>1. CASE f # History /\ g # History
    BY <1>1, <1>2, <2>1 DEF DiskOK, Separate
  <2>2. CASE f = History /\ g # History
    BY <1>2, <1>3, <2>2 DEF Files
  <2>3. CASE f # History /\ g = History
    BY <1>2, <1>3, <2>3 DEF Files
  <2>4. QED
    BY <2>1, <2>2, <2>3
<1>5. \A f \in half : content'[f] # <<>> /\ ~ content'[f][Len(content'[f])].whole
  <2> TAKE f \in half
  <2>1. f \in Files \ {History}
    BY <1>1, WatchedFiles DEF DiskOK, ToolsAssumption
  <2> QED
    BY <1>1, <1>2, <2>1 DEF DiskOK
<1>6. DiskOK'
  BY <1>1, <1>2, <1>4, <1>5 DEF DiskOK
<1>7. QED
  BY <1>2, <1>6
\* What stands in the history when the rewriting is under way is safe, and the
\* rewriting changes neither the trash nor the deletions' past.
LEMMA RewrittenLines ==
  ASSUME ToolsAssumption, HInv, NEW d \in Handlers, del[d].at \in {"truncate", "write"}, NEW out,
         UNCHANGED <<moved, backups, written, past>>,
         content'[History] = out, \A f \in Files \ {History} : content'[f] = content[f],
         LinesOK(out, written),
         \A k \in DOMAIN out : \E j \in DOMAIN del[d].body : out[k] = del[d].body[j],
         NEW rec, del'[d] = rec, \A e \in Handlers \ {d} : del'[e] = del[e],
         rec.body \in {del[d].body, <<>>}, rec.at \in {"write", "move"},
         rec.at = "write" => rec.body = del[d].body,
         rec.session = del[d].session, rec.apart = del[d].apart,
         rec.at = "move" => Without(out, rec.session)
  PROVE  LinesSaved' /\ TakenOut'
<1>1. LinesSaved /\ TakenOut /\ DelsOK /\ Saved' = Saved /\ moved' = moved /\ past' = past
      /\ written' = written
  BY DEF HInv, Saved
<1>2. Numbers(content[History]) \cup Numbers(del[d].body) \subseteq Saved
  BY <1>1 DEF LinesSaved
<1>3. Numbers(out) \subseteq Numbers(del[d].body)
  <2> SUFFICES ASSUME NEW n \in Numbers(out) PROVE n \in Numbers(del[d].body)
    OBVIOUS
  <2>1. out \in Seq(Line) /\ del[d].body \in Seq(Line)
    BY <1>1 DEF LinesOK, DelsOK
  <2>2. PICK k \in DOMAIN out : n = out[k].n
    BY <2>1, NumberOf
  <2>3. PICK j \in DOMAIN del[d].body : n = del[d].body[j].n
    BY <2>2
  <2> QED
    BY <2>1, <2>3, NumberOf
<1>4. LinesSaved'
  <2>1. ASSUME NEW n \in 1..written
        PROVE  n \in Saved \/ \E f \in Files : n \in Numbers(content'[f])
    <3>1. n \in Saved \/ \E f \in Files : n \in Numbers(content[f])
      BY <1>1 DEF LinesSaved
    <3> QED
      BY <1>2, <3>1
  <2>2. ASSUME NEW e \in Handlers
        PROVE  /\ del'[e].at = "copy" =>
                    Numbers(del'[e].body) \subseteq Numbers(out) \cup Saved
               /\ del'[e].at \in {"truncate", "write"} =>
                    Numbers(out) \cup Numbers(del'[e].body) \subseteq Saved
    <3>1. CASE e = d
      BY <1>2, <1>3, <3>1
    <3>2. CASE e # d
      BY <1>1, <1>2, <1>3, <3>2 DEF LinesSaved
    <3>3. QED
      BY <3>1, <3>2
  <2> QED
    BY <1>1, <2>1, <2>2 DEF LinesSaved
<1>5. TakenOut'
  <2>1. ASSUME NEW e \in Handlers, NEW g \in Handlers,
               del'[e].at # "none", del'[e].apart, del'[g].at # "none"
        PROVE  e = g
    BY <1>1, <2>1 DEF TakenOut
  <2>2. ASSUME NEW e \in Handlers, del'[e].at = "move", del'[e].apart
        PROVE  Without(out, del'[e].session)
    <3>1. del'[d].at # "none"
      OBVIOUS
    <3>2. e = d
      BY <2>1, <2>2, <3>1
    <3> QED
      BY <2>2, <3>2
  <2>3. ASSUME NEW r \in past.deleted
        PROVE  /\ Without(out, r)
               /\ \A e \in Handlers : Without(del'[e].body, r)
    <3>1. \A e \in Handlers : Without(del[e].body, r)
      BY <1>1 DEF TakenOut
    <3>3. Without(out, r)
      BY <3>1 DEF Without
    <3>4. \A e \in Handlers : Without(del'[e].body, r)
      BY <3>1, EmptyFile
    <3> QED
      BY <3>3, <3>4
  <2> QED
    BY <1>1, <2>1, <2>2, <2>3 DEF TakenOut
<1>6. QED
  BY <1>4, <1>5

\* The history is emptied.
LEMMA TruncateKeeps ==
  ASSUME ToolsAssumption, HInv, NEW d \in Handlers, Truncate(d)
  PROVE  HInv'
<1>1. /\ del[d].at = "truncate" /\ content' = [content EXCEPT ![History] = <<>>]
      /\ life' = [life EXCEPT !.rewritten = @ \cup {History}]
      /\ UNCHANGED <<tool, half, moved, backups, written, monitor, past>>
      /\ del' = [del EXCEPT ![d] = [del[d] EXCEPT !.at = "write"]]
  BY DEF Truncate, Goes, Put
<1>2. /\ DelsOK /\ ScanOK /\ del[d].session \in Sessions
      /\ DOMAIN life = {"base", "shown", "lost", "rewritten"}
  BY <1>1 DEF HInv, DelsOK, ScanOK
<1>3. PICK rec \in DelType : /\ rec = [del[d] EXCEPT !.at = "write"] /\ rec.at = "write"
                             /\ rec.session = del[d].session /\ rec.body = del[d].body
                             /\ rec.apart = del[d].apart
  <2>1. PICK x : x = [del[d] EXCEPT !.at = "write"]
    OBVIOUS
  <2>2. /\ x \in DelType /\ x.at = "write" /\ x.session = del[d].session
        /\ x.body = del[d].body /\ x.apart = del[d].apart
    BY <1>2, <2>1, HandlerForm
  <2> QED
    BY <2>1, <2>2, Zenon
<1>4. PICK out : /\ out = <<>> /\ LinesOK(out, written) /\ DOMAIN out = {}
  <2>1. DOMAIN <<>> = {}
    OBVIOUS
  <2> QED
    BY <2>1, EmptyFile
<1>5. /\ DiskOK' /\ content'[History] = out
      /\ \A f \in Files \ {History} : content'[f] = content[f]
  BY <1>1, <1>4, RewrittenDisk
<1>6. DelsOK' /\ del'[d] = rec /\ \A e \in Handlers \ {d} : del'[e] = del[e]
  <2>1. \A g \in Sessions : content'[g] = content[g]
    BY <1>5, WatchedFiles DEF ToolsAssumption
  <2> QED
    BY <1>1, <1>2, <1>3, <2>1, HandlerGoesOn
<1>7. LinesSaved' /\ TakenOut'
  BY <1>1, <1>3, <1>4, <1>5, <1>6, RewrittenLines
<1>8. ScanOK' /\ Noticed'
  <2>1. /\ life'.rewritten = life.rewritten \cup {History} /\ DOMAIN life' = DOMAIN life
        /\ life'.base = life.base /\ life'.shown = life.shown /\ life'.lost = life.lost
    BY <1>1, <1>2
  <2> QED
    BY <1>1, <1>5, <2>1, ScanUndisturbed
<1>9. QED
  BY <1>5, <1>6, <1>7, <1>8 DEF HInv

\* The kept lines are written.
LEMMA WriteKeptKeeps ==
  ASSUME ToolsAssumption, HInv, NEW d \in Handlers, WriteKept(d)
  PROVE  HInv'
<1>1. /\ del[d].at = "write"
      /\ content' = [content EXCEPT ![History] = WithoutSession(del[d].body, del[d].session)]
      /\ UNCHANGED <<tool, half, moved, backups, written, monitor, life, past>>
      /\ del' = [del EXCEPT ![d] = [del[d] EXCEPT !.at = "move", !.body = <<>>]]
  BY DEF WriteKept, Put
<1>2. /\ DelsOK /\ ScanOK /\ del[d].session \in Sessions /\ LinesOK(del[d].body, written)
      /\ History \in life.rewritten
  BY <1>1 DEF HInv, DelsOK, ScanOK
<1>3. PICK rec \in DelType : /\ rec = [del[d] EXCEPT !.at = "move", !.body = <<>>]
                             /\ rec.at = "move" /\ rec.body = <<>>
                             /\ rec.session = del[d].session /\ rec.apart = del[d].apart
  BY <1>2, HandlerWroteForm
<1>4. PICK out : out = WithoutSession(del[d].body, del[d].session)
  OBVIOUS
<1>5. /\ LinesOK(out, written) /\ Without(out, del[d].session)
      /\ \A k \in DOMAIN out : \E j \in DOMAIN del[d].body : out[k] = del[d].body[j]
  BY <1>2, <1>4, KeptLines
<1>6. /\ DiskOK' /\ content'[History] = out
      /\ \A f \in Files \ {History} : content'[f] = content[f]
  BY <1>1, <1>4, <1>5, RewrittenDisk
<1>7. DelsOK' /\ del'[d] = rec /\ \A e \in Handlers \ {d} : del'[e] = del[e]
  <2>1. \A g \in Sessions : content'[g] = content[g]
    BY <1>6, WatchedFiles DEF ToolsAssumption
  <2> QED
    BY <1>1, <1>2, <1>3, <2>1, HandlerGoesOn
<1>8. LinesSaved' /\ TakenOut'
  <2>1. /\ rec.body \in {del[d].body, <<>>} /\ rec.at # "write" /\ Without(out, rec.session)
        /\ del[d].at \in {"truncate", "write"} /\ rec.at \in {"write", "move"}
    BY <1>1, <1>3, <1>5
  <2>2. rec.session = del[d].session /\ rec.apart = del[d].apart
    BY <1>3
  <2> QED
    <3>1. moved' = moved /\ backups' = backups /\ written' = written /\ past' = past
      BY <1>1
    <3>2. /\ content'[History] = out /\ \A f \in Files \ {History} : content'[f] = content[f]
          /\ LinesOK(out, written)
          /\ \A k \in DOMAIN out : \E j \in DOMAIN del[d].body : out[k] = del[d].body[j]
      BY <1>5, <1>6
    <3>3. del'[d] = rec /\ \A e \in Handlers \ {d} : del'[e] = del[e]
      BY <1>7
    <3> QED
      BY <2>1, <2>2, <3>1, <3>2, <3>3, RewrittenLines
<1>9. ScanOK' /\ Noticed'
  <2>1. \A g \in Files \ life.rewritten : content'[g] = content[g]
    BY <1>2, <1>6
  <2> QED
    BY <1>1, <1>2, <2>1, ScanUndisturbed
<1>10. QED
  BY <1>6, <1>7, <1>8, <1>9 DEF HInv

\* The deletion ends; the session's file is moved, or left where it is.
LEMMA EndKeeps ==
  ASSUME ToolsAssumption, HInv, NEW d \in Handlers, MoveFile(d) \/ LeaveFile(d)
  PROVE  HInv'
<1>1. PICK s : s = del[d].session
  OBVIOUS
<1>2. /\ del[d].at = "move" /\ moved \subseteq moved' /\ moved' \subseteq moved \cup {s}
      /\ past' = IF del[d].apart THEN [past EXCEPT !.deleted = @ \cup {s}] ELSE past
      /\ del' = [del EXCEPT ![d] = NoDeletion]
      /\ tool' = tool /\ content' = content /\ half' = half /\ backups' = backups
      /\ written' = written /\ life' = life /\ UNCHANGED monitor
  <2>1. Ends(d) /\ moved \subseteq moved' /\ moved' \subseteq moved \cup {s}
    BY <1>1 DEF MoveFile, LeaveFile
  <2> QED
    BY <1>1, <2>1 DEF Ends, Put
<1>3. /\ DiskOK /\ DelsOK /\ LinesSaved /\ TakenOut /\ ScanOK /\ s \in Sessions
      /\ del[d].body = <<>> /\ DOMAIN past = {"exposed", "overwritten", "deleted"}
  BY <1>1, <1>2 DEF HInv, DelsOK, TakenOut
<1>4. /\ DelsOK' /\ del'[d] = NoDeletion /\ \A e \in Handlers \ {d} : del'[e] = del[e]
  BY <1>2, <1>3, HandlerGoesOn, NoDeletionForm
<1>5. moved \subseteq moved' /\ moved' \subseteq Sessions
  BY <1>2, <1>3 DEF DiskOK
<1>6. DiskOK'
  BY <1>2, <1>3, <1>5 DEF DiskOK, Separate
<1>7. /\ past'.exposed = past.exposed /\ past'.overwritten = past.overwritten /\ past.deleted \subseteq past'.deleted
      /\ DOMAIN past' = {"exposed", "overwritten", "deleted"}
      /\ \A r \in past'.deleted : r \in past.deleted \/ (r = s /\ del[d].apart)
  <2>1. CASE del[d].apart
    BY <1>2, <1>3, <2>1
  <2>2. CASE ~ del[d].apart
    BY <1>2, <1>3, <2>2
  <2>3. QED
    BY <2>1, <2>2
<1>8. LinesSaved'
  <2>1. \A e \in Handlers : del'[e].at # "none" => e # d
    BY <1>4, NoDeletionForm
  <2>2. Saved' = Saved
    BY <1>2, <1>7 DEF Saved
  <2> QED
    BY <1>2, <1>3, <1>4, <2>1, <2>2 DEF LinesSaved
<1>9. TakenOut'
  <2>1. \A e \in Handlers : del'[e].at # "none" => e # d
    BY <1>4, NoDeletionForm
  <2>2. \A e \in Handlers : \A r : Without(del[e].body, r) => Without(del'[e].body, r)
    BY <1>4, NoDeletionForm, EmptyFile
  <2>3. ASSUME del[d].apart
        PROVE  /\ Without(content[History], s)
               /\ \A e \in Handlers : Without(del'[e].body, s)
    <3>1. \A e \in Handlers : del[e].at # "none" => e = d
      BY <1>2, <1>3, <2>3 DEF TakenOut
    <3>2. \A e \in Handlers : del[e].body = <<>>
      BY <1>3, <3>1 DEF DelsOK
    <3>3. Without(content[History], s)
      BY <1>1, <1>2, <1>3, <2>3 DEF TakenOut
    <3> QED
      BY <2>2, <3>2, <3>3, EmptyFile
  <2>4. ASSUME NEW r \in past'.deleted
        PROVE  /\ r \in Sessions /\ Without(content[History], r)
               /\ \A e \in Handlers : Without(del'[e].body, r)
    <3>1. CASE r \in past.deleted
      BY <1>2, <1>3, <1>5, <2>2, <3>1 DEF TakenOut
    <3>2. CASE r = s /\ del[d].apart
      BY <1>3, <2>3, <3>2
    <3>3. QED
      BY <1>7, <3>1, <3>2
  <2>5. /\ \A e, g \in Handlers : del'[e].at # "none" /\ del'[e].apart /\ del'[g].at # "none" => e = g
        /\ \A e \in Handlers : del'[e].at = "move" /\ del'[e].apart =>
             Without(content[History], del'[e].session)
    BY <1>3, <1>4, <2>1 DEF TakenOut
  <2> QED
    BY <1>2, <1>7, <2>4, <2>5 DEF TakenOut
<1>10. ScanOK' /\ Noticed'
  <2>1. \A e \in Handlers : del'[e].at = "write" => History \in life.rewritten
    BY <1>3, <1>4, NoDeletionForm DEF ScanOK
  <2> QED
    BY <1>2, <1>5, <2>1, ScanUndisturbed
<1>11. QED
  BY <1>4, <1>6, <1>8, <1>9, <1>10 DEF HInv
--------------------------------------------------------------------------------
(* A run of the tray, and all of the steps. *)

\* A tray that starts knows nothing and deletes nothing.
LEMMA FreshTray ==
  /\ ToolsAssumption /\ DiskOK /\ offset = NoOffsets /\ scan = Starting /\ del = NoDeletions
  /\ life = Life
  => ScanOK /\ Noticed /\ DelsOK /\ \A d \in Handlers : del[d] = NoDeletion
<1> SUFFICES ASSUME ToolsAssumption, DiskOK, offset = NoOffsets, scan = Starting,
                    del = NoDeletions, life = Life
             PROVE  ScanOK /\ Noticed /\ DelsOK /\ \A d \in Handlers : del[d] = NoDeletion
  OBVIOUS
<1>1. /\ DOMAIN del = Handlers /\ \A d \in Handlers : del[d] = NoDeletion
      /\ DOMAIN offset = Files /\ \A f \in Files : offset[f] = -1
  BY DEF NoDeletions, NoOffsets, Unseen
<1>2. /\ DOMAIN life = {"base", "shown", "lost", "rewritten"} /\ life.base = {} /\ life.shown = {}
  BY DEF Life
<1>3. /\ scan \in ScanType /\ scan.events = {} /\ scan.at = "start"
  BY RestForm
<1>4. ScanOK
  <2>1. \A f \in Files : offset[f] \in Unseen..(2 * MaxLines)
    BY <1>1 DEF Unseen, ToolsAssumption
  <2> QED
    BY <1>1, <1>2, <1>3, <2>1, NoDeletionForm DEF ScanOK
<1>5. Noticed
  <2> SUFFICES ASSUME NEW f \in Files PROVE NoticedIn(f)
    BY WatchedFiles DEF Noticed
  <2>1. Size(f) \in Nat /\ Len(content[f]) \in Nat /\ DOMAIN content[f] = 1..Len(content[f])
    BY SizeForm
  <2>2. \A i \in DOMAIN content[f] : Ahead(f, i)
    BY <1>1, <2>1 DEF Ahead
  <2> QED
    BY <1>1, <1>2, <2>1, <2>2 DEF NoticedIn
<1>6. DelsOK
  <2>1. DOMAIN <<>> = {}
    OBVIOUS
  <2> QED
    BY <1>1, <2>1, NoDeletionForm, EmptyFile DEF DelsOK
<1>7. QED
  BY <1>1, <1>4, <1>5, <1>6

\* The initial states.
LEMMA InitKeeps == ASSUME ToolsAssumption, ToolsInit PROVE HInv
<1>1. /\ tool \in Tools /\ content = [f \in Files |-> <<>>] /\ half = {} /\ moved = {}
      /\ backups = [t \in 1..LastSecond |-> {}] /\ written = 0
      /\ past = [exposed |-> {}, overwritten |-> {}, deleted |-> {}]
      /\ offset = NoOffsets /\ scan = Starting /\ del = NoDeletions /\ life = Life
  BY DEF ToolsInit
<1>2. DOMAIN content = Files /\ \A f \in Files : content[f] = <<>>
  BY <1>1
<1>3. DOMAIN <<>> = {}
  OBVIOUS
<1>4. DiskOK
  <2>1. \A f \in Files : LinesOK(content[f], written) /\ DOMAIN content[f] = {}
    BY <1>2, <1>3, EmptyFile
  <2>2. written \in 0..MaxLines
    BY <1>1 DEF ToolsAssumption
  <2> QED
    BY <1>1, <1>2, <2>1, <2>2 DEF DiskOK, Separate
<1>5. ScanOK /\ Noticed /\ DelsOK /\ \A d \in Handlers : del[d] = NoDeletion
  BY <1>1, <1>4, FreshTray
<1>6. LinesSaved
  <2>1. 1..written = {}
    BY <1>1
  <2> QED
    BY <1>5, <2>1, NoDeletionForm DEF LinesSaved
<1>7. TakenOut
  <2>1. past.deleted = {} /\ DOMAIN past = {"exposed", "overwritten", "deleted"}
    BY <1>1
  <2> QED
    BY <1>5, <2>1, NoDeletionForm DEF TakenOut
<1>8. QED
  BY <1>4, <1>5, <1>6, <1>7 DEF HInv

\* The tray is started again.
LEMMA RestartKeeps == ASSUME ToolsAssumption, HInv, Restart PROVE HInv'
<1>1. /\ offset' = NoOffsets /\ scan' = Starting /\ del' = NoDeletions /\ life' = Life
      /\ tool' = tool /\ content' = content /\ half' = half /\ moved' = moved
      /\ backups' = backups /\ written' = written /\ past' = past
  BY DEF Restart, disk
<1>2. DiskOK /\ LinesSaved /\ TakenOut
  BY DEF HInv
<1>3. DiskOK'
  BY <1>1, <1>2 DEF DiskOK, Separate
<1>4. ScanOK' /\ Noticed' /\ DelsOK' /\ \A d \in Handlers : del'[d] = NoDeletion
  <2>1. (/\ ToolsAssumption /\ DiskOK /\ offset = NoOffsets /\ scan = Starting
          /\ del = NoDeletions /\ life = Life
          => ScanOK /\ Noticed /\ DelsOK /\ \A d \in Handlers : del[d] = NoDeletion)'
    BY FreshTray, PTL
  <2> QED
    BY <1>1, <1>3, <2>1
<1>5. LinesSaved'
  BY <1>1, <1>2, <1>4, NoDeletionForm DEF LinesSaved, Saved
<1>6. TakenOut'
  BY <1>1, <1>2, <1>4, NoDeletionForm, EmptyFile DEF TakenOut
<1>7. QED
  BY <1>3, <1>4, <1>5, <1>6 DEF HInv

\* A step that changes nothing.
LEMMA StutterKeeps == ASSUME HInv, UNCHANGED toolsVars PROVE HInv'
<1>1. /\ UNCHANGED <<disk, del, past>> /\ offset' = offset /\ scan' = scan /\ life' = life
      /\ tool' = tool /\ content' = content /\ half' = half /\ moved' = moved
      /\ written' = written /\ del' = del
  BY DEF toolsVars, monitor, disk
<1>2. ScanOK /\ Noticed
  BY DEF HInv
<1>3. Watched' = Watched /\ News' = News
  BY <1>1 DEF Watched, News
<1>4. ScanOK'
  <2>1. ScanType' = ScanType
    BY <1>3 DEF ScanType
  <2> QED
    BY <1>1, <1>2, <2>1 DEF ScanOK
<1>5. Noticed'
  <2>1. \A g : Size(g)' = Size(g) /\ \A i : Ahead(g, i)' <=> Ahead(g, i)
    BY <1>1 DEF Size, Ahead
  <2> QED
    BY <1>1, <1>2, <1>3, <2>1 DEF Noticed, NoticedIn
<1>6. QED
  BY <1>1, <1>4, <1>5, MonitorStep

\* A second passes.
LEMMA SecondKeeps == ASSUME HInv, NextSecond PROVE HInv'
<1>1. /\ offset' = offset /\ scan' = scan /\ life' = life /\ past' = past
      /\ tool' = tool /\ content' = content /\ half' = half /\ moved' = moved
      /\ backups' = backups /\ written' = written /\ del' = del
  BY DEF NextSecond, monitor
<1>2. DiskOK /\ DelsOK /\ LinesSaved /\ TakenOut /\ ScanOK /\ Noticed
  BY DEF HInv
<1>3. DiskOK' /\ DelsOK'
  <2>1. DiskOK'
    BY <1>1, <1>2 DEF DiskOK, Separate
  <2>2. DelsOK'
    BY <1>1, <1>2 DEF DelsOK
  <2> QED
    BY <2>1, <2>2
<1>4. LinesSaved' /\ TakenOut'
  BY <1>1, <1>2 DEF LinesSaved, Saved, TakenOut
<1>5. Watched' = Watched /\ News' = News
  BY <1>1 DEF Watched, News
<1>6. ScanOK'
  <2>1. ScanType' = ScanType
    BY <1>5 DEF ScanType
  <2> QED
    BY <1>1, <1>2, <2>1 DEF ScanOK
<1>7. Noticed'
  <2>1. \A g : Size(g)' = Size(g) /\ \A i : Ahead(g, i)' <=> Ahead(g, i)
    BY <1>1 DEF Size, Ahead
  <2> QED
    BY <1>1, <1>2, <1>5, <2>1 DEF Noticed, NoticedIn
<1>8. QED
  BY <1>3, <1>4, <1>6, <1>7 DEF HInv

\* The clock stays within its bound.
LEMMA ClockStays == ASSUME ToolsAssumption, NowOK, [ToolsNext]_toolsVars PROVE NowOK'
<1>1. CASE Writing
  <2>1. now' = now
    BY <1>1 DEF Writing, WriteLine, StartLine, FinishLine
  <2> QED
    BY <2>1 DEF NowOK
<1>2. CASE Monitoring
  <2>1. now' = now
    <3>1. CASE \E f \in Files : Stat(f)
      BY <3>1 DEF Stat, disk
    <3>2. CASE Tick \/ Read \/ ReadFails \/ WalkFails \/ Notify
      BY <3>2 DEF Tick, Read, ReadFails, WalkFails, Notify, disk
    <3> QED
      BY <1>2, <3>1, <3>2 DEF Monitoring
  <2> QED
    BY <2>1 DEF NowOK
<1>3. CASE Deleting
  <2>1. now' = now
    BY <1>3 DEF Deleting, ReadHistory, CopyHistory, CopyFails, Backup, Truncate, WriteKept, MoveFile,
                LeaveFile, Ends, DeletionFails, Fails, disk
  <2> QED
    BY <2>1 DEF NowOK
<1>4. CASE NextSecond
  BY <1>4 DEF NextSecond, NowOK, ToolsAssumption
<1>5. CASE Restart \/ UNCHANGED toolsVars
  BY <1>5 DEF Restart, toolsVars, disk, NowOK
<1>6. QED
  BY <1>1, <1>2, <1>3, <1>4, <1>5 DEF ToolsNext

\* The invariant is inductive.
LEMMA ToolsInductive == ASSUME ToolsAssumption, HInv, NowOK, [ToolsNext]_toolsVars PROVE HInv'
<1>1. CASE Writing
  <2>1. ASSUME NEW s \in Sessions, NEW f \in Files, WriteLine(f, s) PROVE HInv'
    BY <2>1, WritingKeeps
  <2>2. ASSUME NEW s \in Sessions, StartLine(s) PROVE HInv'
    BY <2>2, WritingKeeps, WatchedFiles
  <2>3. ASSUME NEW s \in Sessions, FinishLine(s) PROVE HInv'
    BY <2>3, FinishKeeps
  <2>4. QED
    BY <1>1, <2>1, <2>2, <2>3 DEF Writing
<1>2. CASE Monitoring
  BY <1>2, TickKeeps, StatKeeps, ReadKeeps, ReadFailsKeeps, WalkFailsKeeps, NotifyKeeps DEF Monitoring
<1>3. CASE Deleting
  <2> PICK d \in Handlers :
        \/ \E s \in Sessions : ReadHistory(d, s)
        \/ CopyHistory(d) \/ CopyFails(d) \/ Truncate(d) \/ WriteKept(d)
        \/ MoveFile(d) \/ LeaveFile(d) \/ DeletionFails(d)
    BY <1>3 DEF Deleting
  <2> QED
    BY ReadHistoryKeeps, CopyKeeps, TruncateKeeps, WriteKeptKeeps, EndKeeps, FailsKeeps
<1>4. CASE NextSecond \/ Restart
  BY <1>4, SecondKeeps, RestartKeeps
<1>5. CASE UNCHANGED toolsVars
  BY <1>5, StutterKeeps
<1>6. QED
  BY <1>1, <1>2, <1>3, <1>4, <1>5 DEF ToolsNext

LEMMA ToolsAlways == ToolsSpec => [](HInv /\ NowOK)
<1>1. ToolsInit => HInv /\ NowOK
  BY InitKeeps, ToolsAssumption DEF ToolsInit, NowOK, ToolsAssumption
<1>2. HInv /\ NowOK /\ [ToolsNext]_toolsVars => (HInv /\ NowOK)'
  BY ToolsInductive, ClockStays, ToolsAssumption
<1>3. QED
  BY <1>1, <1>2, PTL DEF ToolsSpec

\* The types of the files, of the monitor and of the deletions.
THEOREM ToolsTypeCorrect == ToolsSpec => []ToolsTypeOK
<1>1. HInv /\ NowOK => ToolsTypeOK
  BY InvTypes, ToolsAssumption
<1>2. QED
  BY <1>1, ToolsAlways, PTL

\* A request written in one go to a file that nobody rewrites or moves is shown, or
\* still ahead of the monitor, or went with a walk or a reading that failed after its
\* offset was noted; and what the baseline passed over is never shown.
THEOREM NoRequestSkipped == ToolsSpec => []RequestsAreNoticed
<1>1. HInv => RequestsAreNoticed
  BY InvNotices
<1>2. QED
  BY <1>1, ToolsAlways, PTL

\* Whatever deletions take out of the history is in the trash, but for lines written
\* while one was at work and for copies that one of the same second replaced; and a
\* session that one deletion alone took out has no line in the history.
THEOREM DeletionMoves == ToolsSpec => []DeletionIsAMove
<1>1. HInv => DeletionIsAMove
  BY InvMoves, ToolsAssumption
<1>2. QED
  BY <1>1, ToolsAlways, PTL
================================================================================
