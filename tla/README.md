# GatePilot in TLA+

GatePilot lets a person approve, from a browser or a phone, what an AI coding CLI (Codex, Claude,
or a custom tool) asks in a terminal. A Go server keeps devices, CLI sessions, approvals and
policies; a Go agent (`gatepilot`) runs the CLI on the user's machine, reports its prompts to the
server and writes the decision back into it; a second program (`gp`) and a desktop program do the
same locally, without the server.

This directory holds TLA+ modules translated from the Go code, TLC configurations that check them on
small instances, and proofs checked by TLAPS.

    tlc -workers 2 -config MCApprovalStore.cfg MCApprovalStore      # one run
    tlapm ApprovalStoreProofs.tla                                   # one module of proofs

`PROJECT.json` lists the runs, the source lines behind every definition (`map`), a mutation of the code
for each property that the run must notice (`mutants`), the hazards found in the code, and the theorems.

Paths below are relative to `src/`. "main.go" alone is `server/cmd/server/main.go`.

---------------------------------------------------------------------------------------------------

## 1. The system

### 1.1 Components

| Component | Code | State | Operations |
|---|---|---|---|
| Approval store | main.go 406-1290 (`memoryStore`) | maps of sessions, approvals, idempotency replays, rules, audit entries; one mutex | create/update session, create/decide/ack/supersede approval, add rule, disable device, two scans |
| Policy engine | main.go, `applyPolicy`, `policyRuleMatches` | the rules of a tenant | evaluated when an approval is created |
| Worker | main.go 1640-1680, `runWorkerOnce` | none | on a ticker: expire, retry, mark stale devices, push what it decided |
| Device, client and user registry | main.go 406-515, 643-761, 1079-1157, 1264-1290, 1464-1521 | users, activation codes, devices, tokens, grants, client instances | register, redeem, grant, revoke, heartbeat |
| HTTP handlers | main.go 1690-2400 | none | each takes one or two lock sections of the store and then pushes or broadcasts |
| Delivery hub | `server/cmd/server/ws.go` | connection per device, connections of clients | register, unregister, push, replay of pending deliveries, ack |
| Postgres store | `server/cmd/server/postgres_store.go` | tables | the store's interface in transactions |
| Migrations | `server/cmd/migrate` | table of applied files | apply SQL files in order |
| Local settings | `agent/cmd/agent/main.go` 1367-1780, 1980-2140, desktop | one JSON file, a copy in the runtime's memory, the Windows registry | login, logout, offline, page, menu, commands |
| Agent | `agent/cmd/agent/main.go` | one process per CLI | run a CLI, report its prompt, wait for a decision, write it, ack it |
| Approval queue | `agent/internal/localqueue/queue.go` | one JSON-lines file shared by the processes | enqueue, list, remove |
| gp | `agent/cmd/gp/main.go` | text buffer, pending flag | detect a prompt, ask the desktop, write the decision |
| Desktop | `agent/desktop/local_runtime.go` | one pending request, response channels | set pending, confirm, time out |
| Local history | `agent/cmd/agent/local_history.go`, gp, desktop | one JSON file | read, change and rewrite by three programs |
| AI tool monitor and history | `agent/cmd/agent/ai_tool_monitor.go`, `ai_tool_history.go` | offsets in the session files of Codex and Claude; a trash | scan for new requests, delete a session |
| Prompt rules | `agent/internal/adapter` | none | match texts |
| Web admin, mobile app, desktop frontend | `web-admin`, `mobile`, `agent/desktop/frontend` | none that matters here | call the HTTP interface |

### 1.2 How they interact

* The agent **posts** an approval (HTTP); the store creates it, and a policy may decide it in the same
  critical section. The agent then **dials** a WebSocket, says hello, and waits.
* A user, the policy or the expiry scan **decides**. The store hands back a delivery; the handler or the
  worker **pushes** it through the hub *after* the store's lock is released. The connection of a device
  that comes late gets the pending deliveries replayed.
* The agent writes the decision into the CLI and **acks**. The ack closes the approval and lowers the
  session's counter. Without an ack the worker sends again, up to a limit, then gives up.
* An agent that cannot report keeps the event in the **queue file**; any later agent process reports it.
* Locally, `gp` asks the **desktop** over a WebSocket and, if that fails, over HTTP. The desktop has one
  pending slot for all CLIs, opens a window per request, and answers through a channel.
* `gp` and agent runs write what happens into the **history file**; the tray and the desktop show it. The tray
  also reads, and on request rewrites, the **files of Codex and Claude**, which those tools append to.
* Tray, desktop and the agent's commands share the **settings file**, which says whether the user is logged in.

### 1.3 What is hard

Concurrency between the lock sections (push after unlock, hello against replay, two processes of one
device); transactions at READ COMMITTED that read before they lock; messages that are lost, repeated or
late; the ack that races the retry limit; the expiry that races a decision; a counter kept by six
operations; crashes at any step; programs that share files without locks and truncate before they write;
copies of a file that are older than the file; a slot and a channel of capacity one behind two timeouts of
ten minutes. `PROJECT.json` "hazards" names each at its line and the property that covers it.

### 1.4 What makes each component correct

* **Store**: the pending counter is exact; an approval is decided once and its decision never changes; an
  idempotency key names one approval; a repeated decision is told what is in force; the audit log tells the
  outcome; with the worker on, every approval comes to an end.
* **Policy**: no rule of another tenant, no automatic approval of a high risk, a manual rule prevails.
* **Delivery**: no decision falls between push and replay; what counts as delivered was written; a waiting
  agent whose approval is decided gets on; a decision goes to the CLI that asked.
* **Queue**: a queued event stays in the file until the server has it, unless a torn line or another process's
  rewriting caught it; what was removed stays out.
* **gp and desktop**: no goroutine blocks for ever on the response channel; the detector always comes back;
  a decision answers the prompt it was made for.
* **Registry**: a code makes one device; a device has one token until it is disabled and none after; what is
  disabled, used, retired or revoked stays so, under concurrent requests too.
* **Postgres store**: the promises of the in-memory store under concurrent transactions, and no deadlock.
* **Local history**: no record without its session; what was written undisturbed stays.
* **AI tools**: no order of appends, sizes noted and reads skips a request; what a deletion takes out is in the
  trash.
* **Settings**: a logout is not undone from an old copy; Windows starts the program if the file says so.

---------------------------------------------------------------------------------------------------

## 2. The modules

    ApprovalLifecycle                  the abstract life of an approval
        ^ implemented by  ApprovalStore (extends PolicyRules), DecisionDelivery, PostgresStore

    DeviceRegistry                     the store in memory, each operation atomic
        ^ implemented by  PostgresRegistry

    LocalQueue   LocalConfirmation   LocalHistory   AIToolHistory   LocalSettings

    ApprovalStoreProofs, PostgresStoreProofs, DecisionDeliveryProofs,
    RegistryProofs, LocalFilesProofs, LocalConfirmationProofs,
    LocalHistoryProofs, LocalSettingsProofs             theorems (TLAPS)
    MC*                                                 instances for TLC

Definitions whose comment begins with "Variant:" are not part of a specification. Each is what a plausible
mistake in the code would make of the definition after it; `PROJECT.json` "mutants" pairs them.

### ApprovalLifecycle (abstract)

What the platform promises of an approval: raised once, decided at most once, ended in one of three final
ways, decision and author constant in between. A worker's scan may move several approvals at once. It is
used with INSTANCE by three detailed modules, each with its own refinement mapping `Ledger`.

### PolicyRules and ApprovalStore

`memoryStore`. Each operation runs under one mutex, so each is one action; a call that returns an error is a
stuttering step.

| TLA+ | Go |
|---|---|
| `sessions`, `approvals`, `replays`, `policyRules`, `auditLogs` | the maps and slices of `memoryStore`; a key is present iff it is in the DOMAIN |
| `expired`, `ackDue` | time: `ExpiresAt` before now, last delivery older than the ack timeout |
| `CreateApproval` | `CreateApproval` with `applyPolicy` inside |
| `SubmitApprovalDecision`, `AckApprovalDecision`, `SupersedeApproval` | the same |
| `ExpireApprovals`, `RetryDeliveries` | the scans of `runWorkerOnce`, each under one lock, all due approvals at once |
| `SortsBefore`, `PolicyRuleMatches`, `PolicyDecisions` | the sort, the match and the loop of `applyPolicy` |

A delivery identifier (a random UUID) is the pair of approval and `deliveryNo`. Acks are tried with the
numbers 0 and 1: no approval ever draws a second identifier, which `DeliveryCoherent` checks. Rules with
equal priority and equal creation time may be tried in either order, since Go's map iteration and an unstable
sort decide; so `PolicyDecisions` is a set.

### DecisionDelivery

One device, its agent processes, the hub, the server goroutine of each connection, and the handlers and
worker that push. The store is reduced to the status, attempts and author of each approval (its own module
says what those operations do). What matters is what happens *between* the lock sections: `PushLookup` reads
the hub under its lock and `PushWrite` writes after it; `ServeHello`, `ServeConnected`, `ReplayPending` are
separate steps of the goroutine; a write to a process that has died may fail (then the writer unregisters the
connection) or be lost unnoticed. `connectAgent` reads one message and takes it for the answer to its hello
whatever it is; `waitForDelivery` takes the first delivery for its own. A later process may report a prompt
again (`RepeatRaise`, from the queue) and a user may repeat a submission (`ReplaySubmit`), both of which push
the decision again.

### PostgresStore

The approvals in PostgreSQL: the same operations as `ApprovalStore`, but each a transaction at READ COMMITTED. There
is an action for each statement that waits for a lock or whose result decides what happens next; writes to rows
the transaction holds happen with its commit. An operation that finds no row to work on, an error, the timeout
of the context and the death of the server end a transaction with no effect, at any step.

| TLA+ | Go |
|---|---|
| `CreateLocksSession`, `CreateInserts`, `CreateCommits` | `CreateApproval`: `FOR UPDATE` of the session, the unique index on the key, the policy and the counter |
| `SubmitReadsReplay`, `SubmitLocksApproval`, `SubmitCommits` | `SubmitApprovalDecision`: the replay record is read before the approval is locked |
| `AckReads`, `AckLocksApproval`, `AckCommits` | `AckApprovalDecision`: the join that locks the approval only, and may have read the delivery before |
| `ScanExpired`, `ScanOverdue`, `ExpireLocks`, `RetryLocks`, `ScanUpdatesSession` | the worker's scans, approval by approval in one transaction |

### DeviceRegistry and PostgresRegistry

`DeviceRegistry` is `memoryStore` again: activation codes, devices, tokens, client instances, grants and the
replies kept for idempotency keys, each operation one action. `PostgresRegistry` has the same in tables, with
sessions and output chunks, statement by statement; a handler that calls several operations (the check of the
token, the operation, the audit entry) takes them one after the other with nothing held in between.
`DeviceRegistry` doubles as the abstract specification: `ImplementsRegistry` maps active token rows to the
memory store's map from device to token (`TokenMap`), and revoked grants to absent ones (`GrantSet`).

### LocalQueue

The queue file as the set of events on readable lines, `torn` when the last line was cut short, `tmp` for the
file a rewrite prepares, and the file each process has open (`handle`), which a rename or a removal by another may
put in the queue's place or make nobody's. There is no lock, and any number of processes run at once, one for each CLI.

| TLA+ | Go |
|---|---|
| `OpenQueue`, `EnqueueApproval`, `EnqueueFails` | `Queue.EnqueueApproval`: open for appending, then the one `Write`, which may come to a part of the line if `DiskFills` |
| `RemoveRead`, `OpenTmp`, `WriteTmp` or `WriteBreaks`, `Replace` or `RemoveBoth` | `Queue.RemoveApproval`: list, create or empty the one `.tmp` file, write what is kept, rename it or remove both |
| `ListApprovals`, `PostQueued`, `PostQueuedFails`, `FlushDone` | `flushQueuedApprovals` |
| `Stop` | an error or the end of the process, anywhere |

Two processes that write one `.tmp` file leave any part of their lines in it (`Mixed`). The history variables say
which events were queued (`enqueued`), which of them a torn line or an overlap put at risk (`endangered`), which an
undisturbed rewriting removed (`removed`), and whose work no other's rewriting overlaps (`apart`).

### LocalConfirmation

The detector and handler goroutine of each CLI under `gp`, and the desktop. Prompts of a CLI are numbered; the
detector's buffer is the set of prompts whose text it still holds, because `IsPromptStillActive` looks at the
accumulated text. The desktop's slot, windows and response channels are modelled as they are: a window answers
whichever request is in the slot.

### LocalHistory

The JSON file of sessions, approvals and their output, decisions and replies. A run is a session with up to four
goroutines (main, output reader, approval handler, host for replies), each of which makes its updates in
order: `Load` reads the file, `Save` prunes the copy and truncates the file, `Write` writes the copy.
Processes die anywhere (`Dies`), a file truncated or written by two at once cannot be read
(`state`), and pruning happens with the configured retention or, when the settings cannot be read, the default
one (`strict`). The history variables `alone` and `kept` record which updates overlapped nothing.

### AIToolHistory

A tool that appends, in one or two pieces; the monitor with its offsets (`Tick`, `Stat`, `Read`, `ReadFails`,
`WalkFails`, `Notify`, `Restart`); and deletions (`ReadHistory`, `CopyHistory`, `CopyFails`, `Truncate`, `WriteKept`,
`MoveFile`, `LeaveFile`, `DeletionFails`). The offset is stored before the file is opened and read, so a reading that fails
(`ReadFails`) drops what lies between the old offset and the new for good, as a walk that fails drops what it found
(`WalkFails`); `life.lost` remembers both. A copy in the trash is named by the second: `backups` holds one set of lines for
each second of a clock that moves at will (`NextSecond`), and a second copy of one second replaces the first, or
empties it when it breaks off (`CopyFails`). `LeaveFile` is a deletion that ends without an error and leaves the session's
file: the agent skips a Claude session it cannot read, the desktop moves none of Claude's and ignores a failed scan of
Codex's. Every line has the same length, measured in halves, so that an offset can fall inside a line. `WithoutSession` is the loop that
filters the history (`ai_tool_history.go` 747 to 759). The specification's names begin with `Tools`, because one
module of proofs extends this module and `LocalQueue`.

### LocalSettings

The settings file, the runtime (tray or desktop) with its copy in memory, its handlers and menu, and the agent's
commands. Every change goes through `saveAgentLocalSettingsWithStartup`: `Compare`, `Truncate`, `Write`,
`Register` (the Windows registry, if "start on login" changed) and `Remember` (the runtime's copy). `Breaks` ends
an update anywhere.

---------------------------------------------------------------------------------------------------

## 3. The runs

Each run ends within five minutes with two TLC workers. The type invariants that no run lists (queue, history,
settings, and `DeviceRegistry`, which only runs as an abstract specification) are proved (section 5).

| Run (cfg) | Shows | Distinct states |
|---|---|---|
| `store` (MCApprovalStore) | `TypeOK`, `PendingCountExact`, `DeliveryCoherent`, `KeyNamesOneApproval`, `ReplayTellsTheDecision`, `AuditTellsTheOutcome`, refinement of ApprovalLifecycle | 482,004 |
| `policy` (MCPolicy) | `PolicyStaysInBounds`, `ManualRulePrevails`, liveness: `EveryApprovalSettles` | 222,720 |
| `delivery` (MCDelivery) | `TypeOK`, `NoDecisionLost`, `DeliveredWasWritten`, refinement of ApprovalLifecycle | 960,472 |
| `delivery_live` (MCDeliveryLive) | liveness: `DecidedAgentProceeds` | 707,251 |
| `postgres` (MCPostgres) | `TypeOK`, `PendingCountExact`, `KeyNamesOneApproval`, `RowsTellOneStory`, `ReplayTellsTheDecision`, `NoLockCycle`, refinement of ApprovalLifecycle | 446,831 |
| `registry` (MCRegistry) | `TypeOK`, `OneTokenUnlessDisabled`, `RacesLeaveOneRow`, `AuditTellsWhatHappened`, `NothingComesBack`, refinement of DeviceRegistry | 109,262 |
| `confirm` (MCConfirm) | `TypeOK`, `ResponseNeverBlocks`, liveness: `HandlerEnds` | 655,607 |
| `queue` (MCQueue) | `QueuedIsKept`, `RemovedStaysOut`, processes at once and in turn, short writes | 302,358 |
| `history` (MCHistory) | `HistoryClosed`, `UndisturbedIsKept` | 830,994 |
| `aitools` (MCAITools) | `ToolsTypeOK`, `RequestsAreNoticed`, `DeletionIsAMove` | 803,114 |
| `settings` (MCSettings) | `LogoutSticks`, `RegistrationFollowsTheFile` | 2,264,466 |
| `wrong_session` (MCWrongSession) | violation of `DecisionStaysInItsSession`: docs/10 says the agent checks approval and session before it writes | |

### 3.1 Bounds, and why they are enough

* **store**: two approvals, two sessions, two devices of two tenants, one key. Every pair of operations on one
  approval, on two of one session, on two of two sessions of one or two tenants occurs. `MaxAttempts = 2` has a
  retry below the limit and one at it. One decision type: the store treats all of them alike.
  `PendingCountExact` is proved for any numbers (section 5).
* **policy**: five rules chosen to tie in priority, to tie in creation time, to belong to two tenants, and to
  be manual, approving or rejecting; two requests, of low and of high risk; one approval, since a rule is
  evaluated for one approval at a time and the worker's scans treat each on its own. For `EveryApprovalSettles`
  there is one attempt below the limit and one at it.
* **delivery**: two processes, so the device has an old and a new connection; `MaxPushes = 2` pushes under way,
  so a push of the worker and one of a handler, or the pushes for both processes, interleave; repeated pushes
  (`RepeatRaise`, `ReplaySubmit`) are made while no other handler pushes. `MaxAttempts = 1` here: what more
  attempts do to an approval is the store's matter, and `delivery_live` has 2.
* **confirm**: two CLIs with two prompts each and two requests in all: the second request replaces the first in
  the slot, and both windows may be open. A CLI with two prompts shows what a late answer does to the next.
* **queue**: three events and two processes at once, each of which may be followed by others: one event in the file, one
  in a flush, one being appended; two appends, an append and a rewriting, and two rewritings meet at every step.
  Proved for any number of both.
* **postgres**: two handlers and the worker's scan, two approvals of two sessions, one key, a verdict of the policy
  or none. So two submissions, a submission and an ack, or two creations with one key meet each other and a scan
  that holds one approval and waits for another. More handlers only queue behind the same rows.
* **registry**: two handlers and two of everything that can be confused (devices, codes, clients, grants, keys) or
  three where the third is the new one (tokens). Seven requests reach a device with a code, a session, a grant and
  two requests that race; those are the longest stories the properties tell.
* **history**: two runs, with one of three plans: a terminal whose command prints and asks, or a managed run, beside
  a terminal that starts and ends; or two terminals that take a reply each. An update of one meets every step of an
  update of the other, and those of goroutines of one run each other. Proved for any runs and plans.
* **aitools**: two sessions, two lines (one deleted, one kept; one read, one skipped) and two instances in one
  (`BoundedSpec`): while the monitor, which changes no file, has not ticked yet, two deletions at once in one second or
  two; with the monitor awake, one deletion after the other in one second. A third line would add nothing an offset or a
  deletion tells apart from the second. Proved for any number of sessions, deletions, lines and seconds, without the bound.
* **settings**: one request, the three items of the menu and one command, two at a time; one account, since an
  account is gone or not. Proved for any number at a time.

Symmetry is used for runs without liveness properties only. `CHECK_DEADLOCK FALSE` stands where the system may stop:
when everything bounded has been used up, and in `settings` when a broken file keeps the runtime from starting and
every command from running.

### 3.2 Fairness

* `ApprovalStore!FairSpec`: weak fairness of the two scans and of the passing of time. The worker's ticker runs
  for ever, but only if `GATEPILOT_WORKER_INTERVAL_SECONDS` is set to a positive number (main.go:1646-1664), which it is
  not by default: without it there is no worker and `EveryApprovalSettles` says nothing. Users, agents and
  administrators owe nothing, so approvals end even if all of them are gone.
* `DecisionDelivery!FairSpec`: goroutines and processes that can take a step do (the Go scheduler and the OS
  grant this). Users, the clock behind the scans, crashes and losses owe nothing.
* `LocalConfirmation!FairSpec`: handlers that can run do, and their own ten minutes pass
  (`GiveUpWaiting`: the deadline on the WebSocket read, the timeout of the HTTP client). The user, the CLI and
  the desktop owe nothing: `HandlerEnds` holds if nobody ever clicks and the desktop hangs.

`DecidedAgentProceeds` is stated for processes that run one after the other. With two at once it does not hold: the
newer connection takes the hub's place and the decision for the older process is written into the newer, which is
the subject of `wrong_session`.

### 3.3 Disagreements between code and documents

`wrong_session` is a run of its own: a decision is written into whichever CLI of the device reads it first (agent
main.go:2904), although docs/10-agent-cli-integration.md:337 has the agent check delivery, approval and session before it
writes. `waitForDelivery` takes the first delivery for its own, and the hub addresses devices.

Six more statements of the documents are written down as properties that the code does not keep. No run lists them; put
into the cfg named in the place of its properties, TLC refutes each.

| Property (cfg) | The document | The code |
|---|---|---|
| `EventsAreKept` (MCQueue) | docs/08-security-reliability.md:102, approval events not reported are kept | queue.go:104: an event appended by one process while another rewrites the file is gone with the rename. With one process only: a short write (queue.go:74) leaves a line without an end, of which the next event becomes a part. `QueuedIsKept` bounds both losses |
| `HistoryIsBackedUp` (MCAITools) | desktop/frontend/src/App.tsx:342, the history is backed up before a deletion | ai_tool_history.go:803: of two copies in one second the second replaces the first. `DeletionIsAMove` bounds the loss |
| `FinalStatusStays` (MCRegistry) | docs/14-state-transition-table.md:133, a completed, failed or closed session is final | postgres_store.go:591 (and `memoryStore.UpdateSession`): the update has no condition on the status, so a report served late makes an ended session run again. `ended_at` stays, which is all that `NothingComesBack` says of a session |
| `LoggedOutStaysOut` (MCRegistry) | docs/14-state-transition-table.md:147-149, a heartbeat is for active clients, a logged-out one can only be revoked | postgres_store.go:1714 and 234, ws.go:246: a heartbeat of a connection opened before, or an update, makes a logged-out client active again |
| `WaitsWhileAnotherWaits` (MCApprovalStore) | docs/14-state-transition-table.md:123, a session keeps waiting while an approval waits | main.go:1014: the ack of one approval marks the session `running` whatever else is pending |
| `DecisionMeetsItsPrompt` (MCConfirm) | docs/10-agent-cli-integration.md:328, a decision whose prompt is gone is not written | `gp` main.go:348 and adapter.go:127-133: the check looks at accumulated text and accepts any that matches a prompt, so a prompt answered in the terminal still counts as active and the decision reaches the next one |

### 3.4 Known limits

What the models show or exempt, and no run is there to confirm. Each is a consequence of the lines named.

* **Other ways an ended session comes back** (main.go:897, 977, 1187, 1233): an approval created, decided, expired or
  retried after the end of its session sets the session's status to `waiting_approval` or `running`
  again, as a late report does (`FinalStatusStays` above).
* **A window answers another request** (local_runtime.go:531): its click goes to whichever request is in the slot, so
  after a replacement the decision for one CLI reaches the other. `LocalConfirmation` has it so; `HandlerEnds` and
  `ResponseNeverBlocks` are about who gets on, not about who gets which answer.
* **A terminal takes no replies after its first approval** (local_history.go:286, `gp` local_history.go:228): the
  updates of an approval (agent main.go:692-697 and 760-765, `gp` main.go:313-318 and 374-379) carry no control address
  and erase the one of the session's record; a reply is then refused (agent main.go:2644, desktop
  local_runtime.go:899). Managed runs repeat theirs.
* **A history that stays broken** (local_history.go:116): a process that ends between truncation and write leaves a
  file no update can read, and none replaces it. Nothing is recorded until somebody deletes the file.
* **Two updates of the history at once**: one is lost. `UndisturbedIsKept` bounds the loss to what was written at
  the time.
* **Requests the monitor loses** (ai_tool_monitor.go:110, 224): it stores a file's offset before it opens the file. If
  the open, the seek or the scan then fails (also for a line over 8 MiB), what lies before the offset is never read; if
  the walk fails, the events of the files before are dropped. A line half written when the size is noted is cut at the
  offset and not recognised. `RequestsAreNoticed` exempts these and nothing else, and speaks of files nobody rewrote or
  moved.
* **Lines appended** to the history between a deletion's copy and its rewriting are lost (ai_tool_history.go:766).
* **Session files that stay** after a deletion that succeeds: agent and desktop differ. The agent moves a Claude session's
  file unless it cannot read it (ai_tool_history.go:722); the desktop moves none of Claude's (local_runtime.go:1419-1434),
  and none of Codex's when it cannot list them (1409).
* **A logout by the command** (agent main.go:2005) does not reach the runtime: its menu works on the old copy
  and saves the account back, and so does a page that was opened before. `LogoutSticks` speaks of logouts through the runtime.
* **Two entries in the Windows registry**: agent and desktop have one each ("GatePilot Agent", "GatePilot
  Desktop") for one setting, so turning it off in one leaves the other's entry. And a registration that failed
  is not repaired by saving again, because the file already says so and nothing seems to have changed.
* **An unreadable settings file** keeps the runtime from starting and refuses every command.
* **A login with only `--device-id`** keeps the rest of an earlier login, its tenant among them (agent
  main.go:1449). `LocalSettings` has logins in full only.

---------------------------------------------------------------------------------------------------

## 4. What is not modelled, and why

* **Texts**: prompts, summaries, localisation, patterns as strings. A request carries which patterns it
  contains; a prompt is a number.
* **Time**: timestamps are reduced to "has passed". `CreatedAt` of rules keeps its order because the policy
  sorts by it.
* **Reads**: lists, queries and broadcasts to clients change nothing and nothing flows back.
* **The status of a session in Postgres** while approvals come and go: no statement decides by it.
* **Unreported session statuses**: docs/08 section 4.3 also wants the agent to keep deliveries not acked and
  session changes; the agent has no code for that, so there is nothing to model.
* **Authentication**: `ApprovalStore` lets an agent act whether or not its device is disabled, because the token
  check and the operation are separate lock sections. `PostgresRegistry` has the token check as a step of the
  handlers that make it. Users, passwords and login sessions are left out.
* **The detector in agent/cmd/agent/main.go 556-786** is like that of `gp` but not the same: it asks the desktop over HTTP
  only, and when that fails it opens a window of its own without a timeout (`fallbackLocalApprovalDecision`). No property
  speaks of it; `HandlerEnds` in particular does not. The fixed `Decision` option of `gp` skips the desktop and is left
  out.
* **The agent's tray as a desktop**: its menu items to approve and reject (agent/cmd/agent/main.go 1993-2001) answer the
  tray's own pending request; `LocalConfirmation` has the desktop program's slot and windows only.
* **Policy rules and push tokens in Postgres** are rows written and read by single statements.
* **The lists and details of AI tool sessions** parse files and change nothing.
* **Prompt rules, migrations, web admin, mobile app, desktop frontend, scripts** (`not_modelled` in `PROJECT.json`):
  text matching, a list of SQL files applied once, and clients of the interfaces modelled.

---------------------------------------------------------------------------------------------------

## 5. The proofs

TLAPS proves the following for every value of the constants that satisfies the modules' ASSUMEs (which TLC
evaluates for the instances).

* **ApprovalStoreProofs**
  * `TypeCorrect`: `Spec => []TypeOK`. The invariant is inductive together with the finiteness of the set of
    approvals, needed because `RetryDeliveries` uses a cardinality. One lemma per operation.
  * `PendingCountCorrect`: `Spec => []PendingCountExact`. Every operation either keeps each approval's
    liveness and session, and each counter (`PendingKept`), or ends one live approval and lowers its session's
    counter by one (`PendingReleased`); creation adds one to both; the retry scan lowers every counter by the
    number of deliveries it gives up, which are live. The guard "not below zero" in the code is never needed, and the
    proof shows it.

  What follows comes from one lemma, `StepMoves`: a step leaves an existing approval as it is, decides
  it (`Decides`), closes its delivery (`Closes`), sends it again (`Resends`) or takes it over (`Withdraws`).
  * `DeliveryIsCoherent`: `Spec => []DeliveryCoherent`. Each of the five moves keeps a coherent record coherent
    (`MovesCoherent`), and creation makes one, whatever the policy decides (`CreateCoherent`).
  * `RepliesTellTheDecision`: `Spec => []ReplayTellsTheDecision`. A decided approval keeps author, decision and
    delivery identifier through every move (`DecidedKept`), so a stored reply stays true; it rests on
    `DeliveryCoherent`.
  * `KeysNameOneApproval`: `Spec => []KeyNamesOneApproval`. No step changes the key or the session of an approval or
    the device of a session (`KeyKept`, `DeviceKept`), so the tenant of an approval is fixed and the lookup before
    creation is enough.
  * `AuditIsTrue`: `Spec => []AuditTellsTheOutcome`. Inductive with `DeliveryCoherent` and `Unlogged` (nothing is
    logged for an approval before it exists): only the expiry scan decides in the name of the system
    (`OthersDecide`) and a failed delivery never moves again, so neither scan logs an approval twice.
  * `ManualRulesPrevail` (an action property) and `PolicyWithinBounds` (`Spec => []PolicyStaysInBounds`): a decision
    that the loop reaches is the verdict of the rule it stopped at (`LoopStops`); that rule is of the approval's
    tenant, rules are only added (`RulesGrow`), and no move decides again what the policy decided (`MovesInBounds`).
  * `StoreImplementsLifecycle`: `Spec => ImplementsLifecycle`. The record of an approval is mapped by `View`; approvals
    that one operation moves together, such as all the expiry scan rejects, make one abstract step (`MovesTogether`).
    `DeliveryCoherent` supplies that a new approval is open or has a decision.
* **PostgresStoreProofs**, under `RowsDiffer` (the primary keys of approvals, sessions and idempotency keys are
  different things, so a lock on one is no lock on another). A transaction at READ COMMITTED decides by what it read
  before it waited for a lock, so no promise about the tables is inductive by itself. The invariant `IInv` is
  `TablesOK`, what the tables say between two statements, and `TransactionsOK`: for a transaction at each of its steps,
  what the locks it holds make certain (`Good`: the approval it is about to decide still waits, the key it will insert
  is still free, the rows a scan collected still qualify), and that no two hold the same row (`Exclusive`). A commit
  changes only rows its transaction holds, so it leaves what the others know intact (`CommitKeepsOthers`).
  * `TypeCorrect`, `KeysNameOneApproval`, `RepliesTellTheDecision`, and `RowsAreCoherent`
    (`Spec => []RowsTellOneStory`: approval, deliveries and audit entries agree row by row).
  * `PendingCountCorrect`: `Spec => []PendingCountExact`. Each commit changes the counter by as many approvals as
    it opens or closes, the scan for several at once (`CountsDown`).
  * `NoDeadlock`: `OneWorker => (Spec => []NoLockCycle)`, for one worker goroutine, which is what the server starts. Rows
    are ranked by the order in which the operations take them, and who waits for another holds a lower rank
    (`WaitsForNearer`); a scan takes many rows of one rank, which is why a second scan would break the argument.
  * `TransactionsImplementLifecycle`: `Spec => ImplementsLifecycle`. The commits are the abstract steps; statements that
    read or lock, and failures, are stutters.
* **DecisionDeliveryProofs**, for any number of processes, also several at a time.
  * `TypeCorrect`: `Spec => []TypeOK`.
  * `DeliveredDecisionsWereWritten`: `Spec => []DeliveredWasWritten`. An ack that says "written" names what its process
    wrote, and a process writes once (`AcksTellTheTruth`).
  * `NoDecisionIsLost`: `Spec => []NoDecisionLost`. Not inductive, because an agent that has not read the answer
    to its hello takes the next message for that answer, a decision among them. `AnswerComesFirst` says that
    the answer is on the wire before the goroutine replays anything, and `OnItsWay` extends the promise to agents
    that have not read it. A store step pushes what it decides (`StoreKeepsUnderWay`), a lookup finds the connection and a
    write to it is read (`PushOnItsWay`), the replay covers what was decided before the hello (`ServeOnItsWay`).
  * `ProtocolImplementsLifecycle`: `Spec => ImplementsLifecycle`. Only four kinds of step touch an approval
    (`ApprovalsAct`); `AuthorsDecide`, that an approval has an author once it is decided, makes a raised one new and a
    decided one decided.
* **LocalFilesProofs**, about `LocalQueue` and `AIToolHistory`
  * `TypeCorrect`: `Spec => []TypeOK`. The strengthening `TInv` adds that what a process holds was raised and that who has
    the rewritten file open finds one. Like the next two it assumes nothing of concurrency.
  * `QueueKeepsEvents`: `Spec => []QueuedIsKept`. The invariant `KInv` says that a rewriting no other overlapped is the only
    one, holds what is neither at risk nor received, and puts its own file in the queue's place (`Alone`); that one which
    another overlapped has put all that is queued at risk (`Overlapped`); and that an append none overlapped goes to the
    queue's file (`Untouched`). So a queued event is lost to a torn line or to an overlap, and to nothing else.
  * `RemovedStays`: `Spec => []RemovedStaysOut`. The invariant `RInv` says that no rewriting keeps (`KeptStayed`) or has
    written (`WrittenStayed`) what was removed, and that an event on its way to the queue is nowhere else (`OnItsWay`).
  * `ToolsTypeCorrect` (`ToolsSpec => []ToolsTypeOK`), `NoRequestSkipped` (`ToolsSpec => []RequestsAreNoticed`) and
    `DeletionMoves` (`ToolsSpec => []DeletionIsAMove`), under `ToolsAssumption` (the kinds of tool there are, and that no
    session is named like the history's file). They follow from one inductive invariant, `HInv`, which TLC found true on
    instances like that of `aitools` before it was proved. Lines are followed by their numbers:
    * `DiskOK`: no number twice in a file, none in two files, so that what one file loses is not taken for another's;
    * `DelsOK`: what a deletion has read is of the history and of no session's file;
    * `LinesSaved`: every number is in a file, in a copy of some second, exposed, or in a copy that was replaced, and
      between its copy and its rewriting a deletion finds both what it read and what is there in one of the last three
      (`Saved`); that is why truncating loses nothing more. It needs the second to be one there are copies for (`NowOK`);
    * `TakenOut`: two deletions are never both `apart`; one that is, and has rewritten the history, has left no line of
      its session, and no other deletion holds one that it could write back;
    * `ScanOK` and `Noticed`: of a file nobody rewrote or moved, the offset is not beyond the end, a request behind it is in
      the baseline, in the news or lost with a reading or a walk, and what the baseline passed over is not still to be read.

    The first version was not inductive: it allowed a monitor to be reading while it takes the baseline, when what it
    reads would be news and baseline at once. `Stat` never reads then, which `ScanOK` now says. About the
    filter, `KeptLines` says that it gives lines of the file, each once, and none of the session; under it, `Places`
    counts the positions kept, by the cardinality of those before them, with no recursion.
* **LocalConfirmationProofs**
  * `TypeCorrect` and `ResponsesNeverBlock`, from one inductive invariant: the state's shape, every buffered
    prompt was shown (`PromptsKnown`), the request in the slot has no answer yet (`SlotUnanswered`), channels of
    requests not made yet are empty (`FreshChannels`), and no channel holds two answers. `SlotUnanswered` is the
    reason: answering and emptying the slot happen in one critical section.

* **RegistryProofs**, about `PostgresRegistry` for any number of handlers and requests, and about `DeviceRegistry`. What
  a transaction read before counts at its commit only as far as the row it locked makes it so. `IInv` is again
  `TablesOK`, what the tables say between two statements, and `RequestsOK`: the code a request will use up is still
  unused and the device whose token it will replace still not disabled (`Good`), no two requests hold one row
  (`Exclusive`), and what an audit entry will tell has happened. Each step is one of fourteen moves of the tables
  (`TablesMove`, `EveryMove`); each move keeps `TablesOK` and takes back nothing final (`TablesStep`, `Grows`). A step
  disturbs only who holds the row it changes (`Undisturbed`, `RequestsStep`).
  * `TypeCorrect`, `OneRowEach` (`Spec => []RacesLeaveOneRow`) and `OneTokenEach` (`Spec => []OneTokenUnlessDisabled`). The
    two halves of the last need each other: a rotation retires the one active token there is, and is
    refused for a device that has none because it is disabled.
  * `AuditIsTrue`: `Spec => []AuditTellsWhatHappened`. The entry is written after the commit, so it is true because what
    it tells is final (`HappenedStays`).
  * `FinalStays`: `Spec => NothingComesBack`, from `Grows`. Of a session it says that `ended_at` stays; the status does not
    (3.3).
  * `TablesImplementRegistry`: `Spec => ImplementsRegistry`. Every move is an operation of `DeviceRegistry` on the mapped
    maps or leaves them alone; `TokenMapForm` says that the token a device is mapped to is its only active one, and a
    grant in force has a row of its own, so that revoking the row removes it (`RevokeRefines`).
  * The store in memory, in variables of its own (`Memory`): `MemoryTypeCorrect`, `TokensAreRight` (a device accepts a
    token exactly as long as it is not disabled, and no two the same), `RepliesAreRight` (an idempotency key names
    one client instance or code) and `DisabledDevicesStayOut`. The three invariants are inductive together: grants
    and tokens are for devices that exist, so a fresh device has neither. With the refinement they hold of the tables too.
* **LocalHistoryProofs**
  * `HistoryIsClosed`: `Spec => []HistoryClosed`. What is about to be written was pruned, and pruning closes
    it (`ClosedCopies`); a file two wrote at once is not readable.
  * `UndisturbedStays`: `Spec => []UndisturbedIsKept`. Who is alone is the only one with an update under way
    (`AloneIsAlone`) and has in its copy what it will have recorded (`AloneHasItsRecord`); so when it has written,
    there is no older copy, and every copy loaded later has the record (`KeptEverywhere`). `PromptsFirst`, that a
    handler is not at work while the output with its question is recorded, is there because
    the output's update hands the handler its work, which must not replace work it has.
* **LocalSettingsProofs**
  * `LogoutsStick`: `Spec => []LogoutSticks`. An account that is gone is named neither by memory and file nor by an
    update under way (`GoneEverywhere`), which is where it could come back from. A logout that was alone
    leaves no other update, and those that rest hold nothing (`Rested`).
  * `RegistrationIsRight`: `Spec => []RegistrationFollowsTheFile`. Who is alone finds the file as its own steps
    left it (`AloneKnowsTheFile`), so what it compared with is still what the registry says (`KeeperAgrees`).

Every invariant and action property that a passing run checks is proved, and so are the three refinements of
`ApprovalLifecycle` and the one of `DeviceRegistry`. The three liveness properties (`EveryApprovalSettles`,
`DecidedAgentProceeds`, `HandlerEnds`) are only model-checked: with ENABLED they are out of the prover's reach.
No module with a theorem reaches a RECURSIVE operator.

---------------------------------------------------------------------------------------------------

## 6. The plan

Order, most important behaviour first.

1. `ApprovalLifecycle`, `PolicyRules`, `ApprovalStore`, with proofs and the step simulation. **Done.**
2. `DecisionDelivery`: the protocol between server and agent, with proofs. **Done.**
3. `LocalConfirmation` and `LocalQueue`, with proofs. **Done.**
4. `PostgresStore`: the transactions on approvals, with proofs. **Done.**
5. `DeviceRegistry` and `PostgresRegistry`, with proofs. **Done.**
6. `LocalHistory`, `LocalSettings` and `AIToolHistory`, with proofs. **Done.**

What is left:

7. Users, login sessions and push tokens in the registry; the event streams of the desktop; the detector and tray of the
   agent itself.
