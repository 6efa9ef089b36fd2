--------------------------- MODULE PostgresRegistry ---------------------------
(***************************************************************************)
(* Devices, client instances, grants, sessions and output in PostgreSQL    *)
(* (postgresStore in src/server/cmd/server/postgres_store.go), with the    *)
(* handlers of main.go that call more than one operation of the store.     *)
(* A transaction that takes one lock and then only writes has two actions, *)
(* the statement that locks and the commit; an operation that is one       *)
(* statement has one.  A handler runs its operations one after the other,  *)
(* with nothing held in between.  Any statement may fail and the server    *)
(* may die: the request ends there, with what has been committed.          *)
(*                                                                         *)
(* The data left out are those DeviceRegistry leaves out.  Keys and codes  *)
(* belong to one tenant, and a key is always used with the same            *)
(* parameters: with others it is refused and nothing changes.              *)
(***************************************************************************)
EXTENDS Integers, FiniteSets, Functions

CONSTANTS
  Handlers,                         \* the goroutines that serve requests
  Devices, Tokens, Codes, Clients,  \* identifiers that may be drawn
  Grants, Sessions,
  Users, Permissions, Keys,
  Positions, Contents,              \* sequence numbers and contents of output chunks
  Reports,                          \* statuses agents report of a session
  MaxRequests                       \* requests ever served, a bound for TLC

ASSUME MaxRequestsAssumption == MaxRequests \in Nat

VARIABLES
  codes,    \* table device_activation_codes: code -> status
  devices,  \* table devices: id -> its status and, in no column, the code it came from
  tokens,   \* table device_tokens: token -> its device and status
  clients,  \* table client_instances: id -> status
  replays,  \* table http_idempotency_keys: <<scope, key>> -> the reply
  grants,   \* table device_grants: id -> what it grants, and whether it is revoked
  sessions, \* table sessions: id -> its device, status and whether ended_at is set
  chunks,   \* table output_chunks: <<session, sequence number>> -> content
  audit,    \* table audit_logs: <<action, resource>>
  reqs,     \* what each handler is doing
  left      \* requests that may still come

tables == <<codes, devices, tokens, clients, replays, grants, sessions, chunks, audit>>
vars == <<tables, reqs, left>>

Idle == [op |-> "none"]

Put(f, x, v) == [y \in DOMAIN f \cup {x} |-> IF y = x THEN v ELSE f[y]]

Init ==
  /\ codes = << >> /\ devices = << >> /\ tokens = << >> /\ clients = << >>
  /\ replays = << >> /\ grants = << >> /\ sessions = << >> /\ chunks = << >> /\ audit = {}
  /\ reqs = [p \in Handlers |-> Idle]
  /\ left = MaxRequests

--------------------------------------------------------------------------------
(* Requests and the rows they lock. *)

At(p, op) == reqs[p].op = op

\* A request holds at most one row.
Locked(row) == \E p \in Handlers : reqs[p].op # "none" /\ row = reqs[p].row

NoRow == "none"

Starts(p, request) ==
  /\ At(p, "none") /\ left > 0
  /\ left' = left - 1
  /\ reqs' = [reqs EXCEPT ![p] = request]

GoesOn(p, request) == reqs' = [reqs EXCEPT ![p] = request] /\ UNCHANGED left

Ends(p) == GoesOn(p, Idle)

Fails(p) == ~ At(p, "none") /\ Ends(p) /\ UNCHANGED tables

\* A request of one statement.
Serves(p) == At(p, "none") /\ left > 0 /\ left' = left - 1 /\ UNCHANGED reqs

\* The audit log is written after the commit, in a statement of its own.
Audits(p) ==
  /\ At(p, "audit")
  /\ audit' = audit \cup {reqs[p].entry}
  /\ Ends(p)
  /\ UNCHANGED <<codes, devices, tokens, clients, replays, grants, sessions, chunks>>

ToAudit(entry) == [op |-> "audit", row |-> NoRow, entry |-> entry]

--------------------------------------------------------------------------------
(* Client instances. *)

\* The reply kept for the key is read first; the row that keeps it has the key as
\* its primary key, so of two requests the later to write it fails.
RegisterReadsReplay(p, key) ==
  /\ <<"client", key>> \notin DOMAIN replays
  /\ Starts(p, [op |-> "register client", row |-> NoRow, key |-> key])
  /\ UNCHANGED tables

RegistersClient(p) ==
  /\ At(p, "register client")
  /\ <<"client", reqs[p].key>> \notin DOMAIN replays
  /\ \E c \in Clients \ DOMAIN clients :
       /\ clients' = Put(clients, c, "active")
       /\ replays' = Put(replays, <<"client", reqs[p].key>>, c)
  /\ Ends(p)
  /\ UNCHANGED <<codes, devices, tokens, grants, sessions, chunks, audit>>

SetClient(p, c, status) ==
  /\ c \in DOMAIN clients
  /\ clients' = [clients EXCEPT ![c] = status]
  /\ Serves(p)
  /\ UNCHANGED <<codes, devices, tokens, replays, grants, sessions, chunks, audit>>

UpdateClientInstance(p, c) == SetClient(p, c, "active")
LogoutClientInstance(p, c) == SetClient(p, c, "offline")
MarkClientInstanceSeen(p, c) == SetClient(p, c, "active")

--------------------------------------------------------------------------------
(* Activation and tokens. *)

ActivationReadsReplay(p, key) ==
  /\ <<"activation", key>> \notin DOMAIN replays
  /\ Starts(p, [op |-> "create code", row |-> NoRow, key |-> key])
  /\ UNCHANGED tables

CreatesCode(p) ==
  /\ At(p, "create code")
  /\ <<"activation", reqs[p].key>> \notin DOMAIN replays
  /\ \E c \in Codes \ DOMAIN codes :
       /\ codes' = Put(codes, c, "active")
       /\ replays' = Put(replays, <<"activation", reqs[p].key>>, c)
  /\ Ends(p)
  /\ UNCHANGED <<devices, tokens, clients, grants, sessions, chunks, audit>>

\* Variant: the code's row is read without FOR UPDATE.
AgentReadsCode(p, c) ==
  /\ c \in DOMAIN codes /\ codes[c] = "active"
  /\ Starts(p, [op |-> "register agent", row |-> NoRow, code |-> c])
  /\ UNCHANGED tables

\* SELECT ... FOR UPDATE: a code that is used up, or has expired, is refused.
AgentLocksCode(p, c) ==
  /\ c \in DOMAIN codes /\ codes[c] = "active" /\ ~ Locked(c)
  /\ Starts(p, [op |-> "register agent", row |-> c, code |-> c])
  /\ UNCHANGED tables

RegistersAgent(p) ==
  /\ At(p, "register agent")
  /\ \E d \in Devices \ DOMAIN devices, t \in Tokens \ DOMAIN tokens :
       /\ devices' = Put(devices, d, [status |-> "active", code |-> reqs[p].code])
       /\ tokens' = Put(tokens, t, [device |-> d, status |-> "active"])
  /\ codes' = [codes EXCEPT ![reqs[p].code] = "disabled"]
  /\ Ends(p)
  /\ UNCHANGED <<clients, replays, grants, sessions, chunks, audit>>

ActiveTokens(d) == { t \in DOMAIN tokens : tokens[t].device = d /\ tokens[t].status = "active" }

\* UPDATE device_tokens ... WHERE device_id = d AND status = 'active'.
Retired(d, status) ==
  [t \in DOMAIN tokens |-> IF t \in ActiveTokens(d) THEN [tokens[t] EXCEPT !.status = status]
                             ELSE tokens[t]]

\* UPDATE devices takes the lock of the row.
DisableLocksDevice(p, d) ==
  /\ d \in DOMAIN devices /\ ~ Locked(d)
  /\ Starts(p, [op |-> "disable", row |-> d])
  /\ UNCHANGED tables

Disables(p) ==
  /\ At(p, "disable")
  /\ LET d == reqs[p].row IN
       /\ devices' = [devices EXCEPT ![d].status = "disabled"]
       /\ tokens' = Retired(d, "revoked")
       /\ GoesOn(p, ToAudit(<<"device.disable", d>>))
  /\ UNCHANGED <<codes, clients, replays, grants, sessions, chunks, audit>>

\* Variant: the device is locked only after its status has been read.
RotateReadsDevice(p, d) ==
  /\ UNCHANGED tables
  /\ \/ /\ d \in DOMAIN devices /\ devices[d].status # "disabled"
        /\ Starts(p, [op |-> "read", row |-> NoRow, device |-> d])
     \/ /\ At(p, "read") /\ reqs[p].device = d /\ ~ Locked(d)
        /\ GoesOn(p, [op |-> "rotate", row |-> d])

\* SELECT ... FOR UPDATE: a disabled device is refused.
RotateLocksDevice(p, d) ==
  /\ d \in DOMAIN devices /\ devices[d].status # "disabled" /\ ~ Locked(d)
  /\ Starts(p, [op |-> "rotate", row |-> d])
  /\ UNCHANGED tables

Rotates(p) ==
  /\ At(p, "rotate")
  /\ LET d == reqs[p].row IN
       /\ \E t \in Tokens \ DOMAIN tokens :
            tokens' = Put(Retired(d, "rotated"), t, [device |-> d, status |-> "active"])
       /\ GoesOn(p, ToAudit(<<"device_token.rotate", d>>))
  /\ UNCHANGED <<codes, devices, clients, replays, grants, sessions, chunks, audit>>

\* Variant: the statement has no condition on the status.
MarkDeviceSeenAnyway(p, d) ==
  /\ d \in DOMAIN devices /\ ~ Locked(d)
  /\ devices' = [devices EXCEPT ![d].status = "active"]
  /\ Serves(p)
  /\ UNCHANGED <<codes, tokens, clients, replays, grants, sessions, chunks, audit>>

\* agent.hello, and agent.heartbeat with no look at the token: the UPDATE waits for
\* a lock on the row and then looks at the status again.
MarkDeviceSeen(p, d) ==
  /\ d \in DOMAIN devices /\ devices[d].status # "disabled" /\ ~ Locked(d)
  /\ devices' = [devices EXCEPT ![d].status = "active"]
  /\ Serves(p)
  /\ UNCHANGED <<codes, tokens, clients, replays, grants, sessions, chunks, audit>>

\* The worker's UPDATE of the devices that have been silent for long enough, here
\* row by row: nothing below tells one statement from several.
MarkStaleDevices ==
  /\ \E d \in DOMAIN devices, status \in {"suspect_offline", "offline"} :
       /\ ~ Locked(d)
       /\ devices[d].status \in {"active", "suspect_offline"} \ {status}
       /\ devices' = [devices EXCEPT ![d].status = status]
  /\ UNCHANGED <<codes, tokens, clients, replays, grants, sessions, chunks, audit, reqs, left>>

--------------------------------------------------------------------------------
(* Grants. *)

InForce(d, u, permission) ==
  { g \in DOMAIN grants : grants[g] = [device |-> d, user |-> u, permission |-> permission,
                                       revoked |-> FALSE] }

\* INSERT ... ON CONFLICT: a grant in force keeps its row.
CreateDeviceGrant(p, d, u, permission) ==
  /\ d \in DOMAIN devices /\ At(p, "none") /\ left > 0
  /\ \E g \in IF InForce(d, u, permission) # {} THEN InForce(d, u, permission)
                ELSE Grants \ DOMAIN grants :
       /\ grants' = Put(grants, g, [device |-> d, user |-> u, permission |-> permission,
                                    revoked |-> FALSE])
       /\ reqs' = [reqs EXCEPT ![p] = ToAudit(<<"device_grant.create", g>>)]
  /\ left' = left - 1
  /\ UNCHANGED <<codes, devices, tokens, clients, replays, sessions, chunks, audit>>

\* Variant: the audit log is written before the grant is revoked.
RevokeAuditsFirst(p, g) ==
  /\ g \in DOMAIN grants /\ At(p, "none") /\ left > 0
  /\ audit' = audit \cup {<<"device_grant.revoke", g>>}
  /\ Serves(p)
  /\ UNCHANGED <<codes, devices, tokens, clients, replays, grants, sessions, chunks>>

\* A grant that is revoked already stays so; its name never means a later grant.
RevokeDeviceGrant(p, g) ==
  /\ g \in DOMAIN grants
  /\ grants' = [grants EXCEPT ![g].revoked = TRUE]
  /\ Starts(p, ToAudit(<<"device_grant.revoke", g>>))
  /\ UNCHANGED <<codes, devices, tokens, clients, replays, sessions, chunks, audit>>

--------------------------------------------------------------------------------
(* What agents report over HTTP, after their token has been validated. *)

\* agentSessionsHandler, agentSessionUpdatesHandler and createOutputChunkHandler
\* begin alike: an active token of a device that is not disabled.
ValidateDeviceToken(p, t) ==
  /\ t \in DOMAIN tokens /\ tokens[t].status = "active"
  /\ devices[tokens[t].device].status # "disabled"
  /\ Starts(p, [op |-> "validated", row |-> NoRow, device |-> tokens[t].device])
  /\ UNCHANGED tables

\* CreateSession reads the device's status in one statement ...
CreateSessionReadsDevice(p) ==
  /\ At(p, "validated")
  /\ devices[reqs[p].device].status # "disabled"
  /\ GoesOn(p, [op |-> "create session", row |-> NoRow, device |-> reqs[p].device])
  /\ UNCHANGED tables

\* ... and inserts the session in another: the device may be disabled in between.
InsertsSession(p) ==
  /\ At(p, "create session")
  /\ \E s \in Sessions \ DOMAIN sessions :
       sessions' = Put(sessions, s, [device |-> reqs[p].device, status |-> "running",
                                     ended |-> FALSE])
  /\ Ends(p)
  /\ UNCHANGED <<codes, devices, tokens, clients, replays, grants, chunks, audit>>

Final == {"completed", "failed", "closed", "lost"}

\* Variants: only a session that was closed has ended; ended_at is overwritten by
\* every report.
UpdateSessionClosesOnly(p, s, report) ==
  /\ At(p, "validated") /\ s \in DOMAIN sessions /\ sessions[s].device = reqs[p].device
  /\ sessions' = [sessions EXCEPT ![s].status = report, ![s].ended = @ \/ report = "closed"]
  /\ Ends(p)
  /\ UNCHANGED <<codes, devices, tokens, clients, replays, grants, chunks, audit>>
UpdateSessionForgets(p, s, report) ==
  /\ At(p, "validated") /\ s \in DOMAIN sessions /\ sessions[s].device = reqs[p].device
  /\ sessions' = [sessions EXCEPT ![s].status = report, ![s].ended = report \in Final]
  /\ Ends(p)
  /\ UNCHANGED <<codes, devices, tokens, clients, replays, grants, chunks, audit>>

\* ended_at, once set, is kept; the status follows every report.
UpdateSession(p, s, report) ==
  /\ At(p, "validated") /\ s \in DOMAIN sessions /\ sessions[s].device = reqs[p].device
  /\ ~ Locked(s)
  /\ sessions' = [sessions EXCEPT ![s].status = report, ![s].ended = @ \/ report \in Final]
  /\ Ends(p)
  /\ UNCHANGED <<codes, devices, tokens, clients, replays, grants, chunks, audit>>

\* AppendOutputChunk locks the session.
AppendLocksSession(p, s, n, content) ==
  /\ At(p, "validated") /\ s \in DOMAIN sessions /\ sessions[s].device = reqs[p].device
  /\ ~ Locked(s)
  /\ GoesOn(p, [op |-> "append", row |-> s, position |-> n, content |-> content])
  /\ UNCHANGED tables

\* A sequence number that is taken is answered with its chunk, or refused for
\* another content.
AppendsChunk(p) ==
  /\ At(p, "append")
  /\ LET at == <<reqs[p].row, reqs[p].position>> IN
       chunks' = IF at \in DOMAIN chunks THEN chunks ELSE Put(chunks, at, reqs[p].content)
  /\ Ends(p)
  /\ UNCHANGED <<codes, devices, tokens, clients, replays, grants, sessions, audit>>

--------------------------------------------------------------------------------

ClientRequests(p) ==
  \/ \E key \in Keys : RegisterReadsReplay(p, key)
  \/ RegistersClient(p)
  \/ \E c \in Clients :
       \/ UpdateClientInstance(p, c)
       \/ LogoutClientInstance(p, c)
       \/ MarkClientInstanceSeen(p, c)

DeviceRequests(p) ==
  \/ \E key \in Keys : ActivationReadsReplay(p, key)
  \/ CreatesCode(p)
  \/ \E c \in Codes : AgentLocksCode(p, c)
  \/ RegistersAgent(p)
  \/ \E d \in Devices :
       DisableLocksDevice(p, d) \/ RotateLocksDevice(p, d) \/ MarkDeviceSeen(p, d)
  \/ Disables(p) \/ Rotates(p)

GrantRequests(p) ==
  \/ \E d \in Devices, u \in Users, permission \in Permissions :
       CreateDeviceGrant(p, d, u, permission)
  \/ \E g \in Grants : RevokeDeviceGrant(p, g)

AgentRequests(p) ==
  \/ \E t \in Tokens : ValidateDeviceToken(p, t)
  \/ CreateSessionReadsDevice(p) \/ InsertsSession(p)
  \/ \E s \in Sessions, report \in Reports : UpdateSession(p, s, report)
  \/ \E s \in Sessions, n \in Positions, content \in Contents : AppendLocksSession(p, s, n, content)
  \/ AppendsChunk(p)

Next ==
  \/ \E p \in Handlers :
       \/ ClientRequests(p) \/ DeviceRequests(p) \/ GrantRequests(p) \/ AgentRequests(p)
       \/ Audits(p) \/ Fails(p)
  \/ MarkStaleDevices

Spec == Init /\ [][Next]_vars

--------------------------------------------------------------------------------
(* Properties. *)

\* Every row has the columns the statements write and refers to rows that exist.
TypeOK ==
  /\ \A c \in DOMAIN codes : c \in Codes /\ codes[c] \in {"active", "disabled"}
  /\ \A d \in DOMAIN devices : d \in Devices /\ devices[d].code \in DOMAIN codes
  /\ \A t \in DOMAIN tokens :
       /\ tokens[t].device \in DOMAIN devices
       /\ tokens[t].status \in {"active", "rotated", "revoked"}
  /\ \A c \in DOMAIN clients : clients[c] \in {"active", "offline"}
  /\ \A g \in DOMAIN grants : g \in Grants /\ grants[g].device \in DOMAIN devices
  /\ \A s \in DOMAIN sessions :
       sessions[s].device \in DOMAIN devices /\ (sessions[s].status \in Final => sessions[s].ended)
  /\ \A at \in DOMAIN chunks : at[1] \in DOMAIN sessions /\ chunks[at] \in Contents
  /\ left \in 0..MaxRequests

\* Rotations, heartbeats and a disabling of one device, in any order and at the
\* same time, leave one active token to a device that is not disabled and none to
\* one that is.
OneTokenUnlessDisabled ==
  \A d \in DOMAIN devices :
    Cardinality(ActiveTokens(d)) = IF devices[d].status = "disabled" THEN 0 ELSE 1

\* Of two requests with one key, one code, or one grant to give, that run at the
\* same time, one leaves a row: a key made one thing, which its reply names, a code
\* one device, and a permission of a user on a device is in force once.
RacesLeaveOneRow ==
  /\ \A c \in DOMAIN codes : \E name \in DOMAIN replays : name[1] = "activation" /\ replays[name] = c
  /\ \A c \in DOMAIN clients : \E name \in DOMAIN replays : name[1] = "client" /\ replays[name] = c
  /\ \A d, e \in DOMAIN devices : devices[d].code = devices[e].code => d = e
  /\ \A g, h \in DOMAIN grants : grants[g] = grants[h] /\ ~ grants[g].revoked => g = h

\* The audit log, written after the fact and perhaps not at all, tells of nothing
\* that has not happened.
AuditTellsWhatHappened ==
  \A entry \in audit : LET x == entry[2] IN
    CASE entry[1] = "device.disable" -> devices[x].status = "disabled"
      [] entry[1] = "device_token.rotate" ->
           \E t \in DOMAIN tokens : tokens[t] = [device |-> x, status |-> "rotated"]
      [] entry[1] = "device_grant.create" -> x \in DOMAIN grants
      [] entry[1] = "device_grant.revoke" -> grants[x].revoked

\* No step takes back what the tables keep for good: that a device is disabled, a code
\* used, a token retired, a grant revoked, that ended_at of a session is set, and the
\* content of a chunk of output.  The status of a session is not among them.
NothingComesBack ==
  [][/\ \A d \in DOMAIN devices : devices[d].status = "disabled" => devices'[d].status = "disabled"
     /\ \A c \in DOMAIN codes : codes[c] = "disabled" => codes'[c] = "disabled"
     /\ \A t \in DOMAIN tokens : tokens[t].status # "active" => tokens'[t] = tokens[t]
     /\ \A g \in DOMAIN grants : grants[g].revoked => grants'[g] = grants[g]
     /\ \A s \in DOMAIN sessions : sessions[s].ended => sessions'[s].ended
     /\ \A at \in DOMAIN chunks : chunks'[at] = chunks[at]]_vars

\* The tables seen as the maps of the store in memory.
TheToken(d) == CHOOSE t \in ActiveTokens(d) : TRUE

CodeMap == [c \in DOMAIN codes |-> codes[c] = "disabled"]
DeviceMap == [d \in DOMAIN devices |-> devices[d].status]
TokenMap == [d \in { e \in DOMAIN devices : ActiveTokens(e) # {} } |-> TheToken(d)]
GrantSet == { <<grants[g].device, grants[g].user, grants[g].permission>> :
                g \in { h \in DOMAIN grants : ~ grants[h].revoked } }

Registry == INSTANCE DeviceRegistry WITH
  codes <- CodeMap, devices <- DeviceMap, tokens <- TokenMap, grants <- GrantSet

\* The transactions implement the operations of the store in memory, which are
\* atomic: the two stores the server can be started with keep the same registry.
ImplementsRegistry == Registry!Spec

--------------------------------------------------------------------------------
(* What the documents say and the code does not keep: TLC refutes each. *)

\* docs/14-state-transition-table.md:133: a session that was completed, failed or closed
\* keeps that status.  UpdateSession has no condition on the status, so a report of the
\* agent that comes late makes an ended session run again.
FinalStatusStays ==
  [][\A s \in DOMAIN sessions :
       sessions[s].status \in Final \ {"lost"} => sessions'[s].status = sessions[s].status]_vars

\* docs/14-state-transition-table.md:147-149: a client that was logged out stays so.
\* MarkClientInstanceSeen and UpdateClientInstance make it active whatever it was.
LoggedOutStaysOut ==
  [][\A c \in DOMAIN clients : clients[c] = "offline" => clients'[c] = "offline"]_vars
================================================================================
