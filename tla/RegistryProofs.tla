---------------------------- MODULE RegistryProofs ----------------------------
(***************************************************************************)
(* Theorems about PostgresRegistry and about DeviceRegistry, the store in  *)
(* memory that it implements, for any sets of handlers, identifiers, users *)
(* and keys and any number of requests.                                    *)
(*                                                                         *)
(* What a request read before is certain at its commit only as far as the  *)
(* row it locked makes it so: the code it will use up is still unused, the *)
(* device whose token it will replace is still not disabled (Good).  No    *)
(* two requests hold the same row (Exclusive), and every step keeps what   *)
(* is meant to be final (Grows), by which what an entry of the audit log   *)
(* tells of stays true while the entry waits to be written.                *)
(***************************************************************************)
EXTENDS PostgresRegistry, FiniteSetTheorems, TLAPS

--------------------------------------------------------------------------------
(* What the tables say. *)

DeviceStatus == {"active", "suspect_offline", "offline", "disabled"}

DeviceRow == [status : DeviceStatus, code : DOMAIN codes]
TokenRow == [device : DOMAIN devices, status : {"active", "rotated", "revoked"}]
GrantRow == [device : DOMAIN devices, user : Users, permission : Permissions, revoked : BOOLEAN]
SessionRow == [device : DOMAIN devices, status : Reports \cup {"running"}, ended : BOOLEAN]

CodesOK == \A c \in DOMAIN codes : c \in Codes /\ codes[c] \in {"active", "disabled"}

\* A device uses its code up.
DevicesOK ==
  /\ \A d \in DOMAIN devices :
       d \in Devices /\ devices[d] \in DeviceRow /\ codes[devices[d].code] = "disabled"
  /\ \A d, e \in DOMAIN devices : devices[d].code = devices[e].code => d = e

TokensOK ==
  /\ \A t \in DOMAIN tokens : tokens[t] \in TokenRow
  /\ \A d \in DOMAIN devices :
       IF devices[d].status = "disabled" THEN ActiveTokens(d) = {}
         ELSE \E t \in DOMAIN tokens : ActiveTokens(d) = {t}

ClientsOK == \A c \in DOMAIN clients : clients[c] \in {"active", "offline"}

\* What was made for a key is the reply kept for it.
Answers(scope, made) ==
  \A c \in made : \E name \in DOMAIN replays : name[1] = scope /\ replays[name] = c

GrantsOK ==
  /\ grants = [g \in DOMAIN grants |-> grants[g]]
  /\ \A g \in DOMAIN grants : g \in Grants /\ grants[g] \in GrantRow
  /\ \A g, h \in DOMAIN grants : grants[g] = grants[h] /\ ~ grants[g].revoked => g = h

SessionsOK ==
  \A s \in DOMAIN sessions :
    sessions[s] \in SessionRow /\ (sessions[s].status \in Final => sessions[s].ended)

ChunksOK == \A at \in DOMAIN chunks : at[1] \in DOMAIN sessions /\ chunks[at] \in Contents

\* What an entry of the audit log tells.
Happened(entry) ==
  \/ \E d \in DOMAIN devices : entry = <<"device.disable", d>> /\ devices[d].status = "disabled"
  \/ \E t \in DOMAIN tokens :
       entry = <<"device_token.rotate", tokens[t].device>> /\ tokens[t].status = "rotated"
  \/ \E g \in DOMAIN grants : entry = <<"device_grant.create", g>>
  \/ \E g \in DOMAIN grants : entry = <<"device_grant.revoke", g>> /\ grants[g].revoked

AuditOK == \A entry \in audit : Happened(entry)

TablesOK ==
  /\ CodesOK /\ DevicesOK /\ TokensOK /\ ClientsOK
  /\ Answers("activation", DOMAIN codes) /\ Answers("client", DOMAIN clients)
  /\ GrantsOK /\ SessionsOK /\ ChunksOK /\ AuditOK

--------------------------------------------------------------------------------
(* What the requests know. *)

Good(r) ==
  \/ r = Idle
  \/ r \in [op : {"register client", "create code"}, row : {NoRow}, key : Keys]
  \/ /\ r \in [op : {"register agent"}, row : DOMAIN codes, code : DOMAIN codes]
     /\ r.row = r.code /\ codes[r.code] = "active"
  \/ r \in [op : {"disable"}, row : DOMAIN devices]
  \/ r \in [op : {"rotate"}, row : DOMAIN devices] /\ devices[r.row].status # "disabled"
  \/ r \in [op : {"validated", "create session"}, row : {NoRow}, device : DOMAIN devices]
  \/ r \in [op : {"append"}, row : DOMAIN sessions, position : Positions, content : Contents]
  \/ r.op = "audit" /\ r = ToAudit(r.entry) /\ Happened(r.entry)

\* The row a request holds.
Claims(r) == IF r.op \in {"register agent", "disable", "rotate", "append"} THEN {r.row} ELSE {}

Exclusive == \A p, q \in Handlers : p # q => Claims(reqs[p]) \cap Claims(reqs[q]) = {}

RequestsOK ==
  /\ DOMAIN reqs = Handlers
  /\ \A p \in Handlers : Good(reqs[p])
  /\ Exclusive

IInv == TablesOK /\ RequestsOK /\ left \in 0..MaxRequests

--------------------------------------------------------------------------------
(* What steps do to the tables. *)

\* What is meant to be final stays.
Grows ==
  /\ \A c \in DOMAIN codes : c \in DOMAIN codes' /\ (codes[c] = "disabled" => codes'[c] = "disabled")
  /\ \A d \in DOMAIN devices :
       /\ d \in DOMAIN devices'
       /\ devices[d].status = "disabled" => devices'[d].status = "disabled"
  /\ \A t \in DOMAIN tokens :
       /\ t \in DOMAIN tokens' /\ tokens'[t].device = tokens[t].device
       /\ tokens[t].status # "active" => tokens'[t] = tokens[t]
  /\ \A c \in DOMAIN clients : c \in DOMAIN clients'
  /\ \A name \in DOMAIN replays : name \in DOMAIN replays' /\ replays'[name] = replays[name]
  /\ \A g \in DOMAIN grants : g \in DOMAIN grants' /\ (grants[g].revoked => grants'[g] = grants[g])
  /\ \A s \in DOMAIN sessions : s \in DOMAIN sessions' /\ (sessions[s].ended => sessions'[s].ended)
  /\ \A at \in DOMAIN chunks : at \in DOMAIN chunks' /\ chunks'[at] = chunks[at]

\* A row comes for a key that has none.
Answered(scope, key, c) ==
  /\ key \in Keys /\ <<scope, key>> \notin DOMAIN replays
  /\ replays' = Put(replays, <<scope, key>>, c)

MakesClient(key, c) ==
  /\ Answered("client", key, c)
  /\ c \in Clients \ DOMAIN clients /\ clients' = Put(clients, c, "active")
  /\ UNCHANGED <<codes, devices, tokens, grants, sessions, chunks, audit>>

SetsClient(c, status) ==
  /\ c \in DOMAIN clients /\ status \in {"active", "offline"}
  /\ clients' = [clients EXCEPT ![c] = status]
  /\ UNCHANGED <<codes, devices, tokens, replays, grants, sessions, chunks, audit>>

MakesCode(key, c) ==
  /\ Answered("activation", key, c)
  /\ c \in Codes \ DOMAIN codes /\ codes' = Put(codes, c, "active")
  /\ UNCHANGED <<devices, tokens, clients, grants, sessions, chunks, audit>>

MakesAgent(c, d, t) ==
  /\ c \in DOMAIN codes /\ codes[c] = "active" /\ codes' = [codes EXCEPT ![c] = "disabled"]
  /\ d \in Devices \ DOMAIN devices
  /\ devices' = Put(devices, d, [status |-> "active", code |-> c])
  /\ t \in Tokens \ DOMAIN tokens
  /\ tokens' = Put(tokens, t, [device |-> d, status |-> "active"])
  /\ UNCHANGED <<clients, replays, grants, sessions, chunks, audit>>

DisablesDevice(d) ==
  /\ d \in DOMAIN devices
  /\ devices' = [devices EXCEPT ![d].status = "disabled"]
  /\ tokens' = Retired(d, "revoked")
  /\ UNCHANGED <<codes, clients, replays, grants, sessions, chunks, audit>>

RotatesToken(d, t) ==
  /\ d \in DOMAIN devices /\ devices[d].status # "disabled"
  /\ t \in Tokens \ DOMAIN tokens
  /\ tokens' = Put(Retired(d, "rotated"), t, [device |-> d, status |-> "active"])
  /\ UNCHANGED <<codes, devices, clients, replays, grants, sessions, chunks, audit>>

SetsStatus(d, status) ==
  /\ d \in DOMAIN devices
  /\ \/ status = "active" /\ devices[d].status # "disabled"
     \/ status \in {"suspect_offline", "offline"}
        /\ devices[d].status \in {"active", "suspect_offline"} \ {status}
  /\ devices' = [devices EXCEPT ![d].status = status]
  /\ UNCHANGED <<codes, tokens, clients, replays, grants, sessions, chunks, audit>>

MakesGrant(g, d, u, permission) ==
  /\ d \in DOMAIN devices /\ u \in Users /\ permission \in Permissions
  /\ g \in Grants \ DOMAIN grants /\ InForce(d, u, permission) = {}
  /\ grants' = Put(grants, g, [device |-> d, user |-> u, permission |-> permission,
                               revoked |-> FALSE])
  /\ UNCHANGED <<codes, devices, tokens, clients, replays, sessions, chunks, audit>>

RevokesGrant(g) ==
  /\ g \in DOMAIN grants
  /\ grants' = [grants EXCEPT ![g].revoked = TRUE]
  /\ UNCHANGED <<codes, devices, tokens, clients, replays, sessions, chunks, audit>>

MakesSession(s, d) ==
  /\ s \in Sessions \ DOMAIN sessions /\ d \in DOMAIN devices
  /\ sessions' = Put(sessions, s, [device |-> d, status |-> "running", ended |-> FALSE])
  /\ UNCHANGED <<codes, devices, tokens, clients, replays, grants, chunks, audit>>

ReportsSession(s, report) ==
  /\ s \in DOMAIN sessions /\ report \in Reports
  /\ sessions' = [sessions EXCEPT ![s].status = report, ![s].ended = @ \/ report \in Final]
  /\ UNCHANGED <<codes, devices, tokens, clients, replays, grants, chunks, audit>>

MakesChunk(s, n, content) ==
  /\ s \in DOMAIN sessions /\ content \in Contents /\ <<s, n>> \notin DOMAIN chunks
  /\ chunks' = Put(chunks, <<s, n>>, content)
  /\ UNCHANGED <<codes, devices, tokens, clients, replays, grants, sessions, audit>>

TellsAudit(entry) ==
  /\ Happened(entry)
  /\ audit' = audit \cup {entry}
  /\ UNCHANGED <<codes, devices, tokens, clients, replays, grants, sessions, chunks>>

TablesMove ==
  \/ UNCHANGED tables
  \/ \E key \in Keys, c \in Clients : MakesClient(key, c)
  \/ \E c \in Clients, status \in {"active", "offline"} : SetsClient(c, status)
  \/ \E key \in Keys, c \in Codes : MakesCode(key, c)
  \/ \E c \in Codes, d \in Devices, t \in Tokens : MakesAgent(c, d, t)
  \/ \E d \in Devices : DisablesDevice(d)
  \/ \E d \in Devices, t \in Tokens : RotatesToken(d, t)
  \/ \E d \in Devices, status \in DeviceStatus : SetsStatus(d, status)
  \/ \E g \in Grants, d \in Devices, u \in Users, permission \in Permissions :
       MakesGrant(g, d, u, permission)
  \/ \E g \in Grants : RevokesGrant(g)
  \/ \E s \in Sessions, d \in Devices : MakesSession(s, d)
  \/ \E s \in DOMAIN sessions, report \in Reports : ReportsSession(s, report)
  \/ \E s \in DOMAIN sessions, n \in Positions, content \in Contents : MakesChunk(s, n, content)
  \/ \E entry : TellsAudit(entry)

--------------------------------------------------------------------------------
(* Lemmas about the tables. *)

\* What an entry tells stays true.
LEMMA HappenedStays ==
  ASSUME Grows, NEW entry, Happened(entry)
  PROVE  Happened(entry)'
<1>1. ASSUME NEW d \in DOMAIN devices, entry = <<"device.disable", d>>, devices[d].status = "disabled"
      PROVE  Happened(entry)'
  <2>1. d \in DOMAIN devices' /\ devices'[d].status = "disabled"
    BY <1>1 DEF Grows
  <2>2. QED
    BY <1>1, <2>1 DEF Happened
<1>2. ASSUME NEW t \in DOMAIN tokens, entry = <<"device_token.rotate", tokens[t].device>>,
             tokens[t].status = "rotated"
      PROVE  Happened(entry)'
  <2>1. t \in DOMAIN tokens' /\ tokens'[t] = tokens[t]
    BY <1>2 DEF Grows
  <2>2. QED
    BY <1>2, <2>1 DEF Happened
<1>3. ASSUME NEW g \in DOMAIN grants, entry = <<"device_grant.create", g>>
      PROVE  Happened(entry)'
  <2>1. g \in DOMAIN grants'
    BY DEF Grows
  <2>2. QED
    BY <1>3, <2>1 DEF Happened
<1>4. ASSUME NEW g \in DOMAIN grants, entry = <<"device_grant.revoke", g>>, grants[g].revoked
      PROVE  Happened(entry)'
  <2>1. g \in DOMAIN grants' /\ grants'[g] = grants[g]
    BY <1>4 DEF Grows
  <2>2. QED
    BY <1>4, <2>1 DEF Happened
<1>5. QED
  BY <1>1, <1>2, <1>3, <1>4 DEF Happened

\* A row that stays is as good as before.
LEMMA RowsStay ==
  ASSUME Grows
  PROVE  /\ \A row \in DeviceRow : row \in DeviceRow'
         /\ \A row \in TokenRow : row \in TokenRow'
         /\ \A row \in GrantRow : row \in GrantRow'
         /\ \A row \in SessionRow : row \in SessionRow'
<1>1. DOMAIN codes \subseteq DOMAIN codes' /\ DOMAIN devices \subseteq DOMAIN devices'
  BY DEF Grows
<1>2. QED
  BY <1>1 DEF DeviceRow, TokenRow, GrantRow, SessionRow

\* What a step does to one table leaves alone what is said of the others.
LEMMA TheOthersStay ==
  ASSUME TablesOK, Grows
  PROVE  /\ UNCHANGED codes => CodesOK'
         /\ UNCHANGED devices => DevicesOK'
         /\ UNCHANGED <<devices, tokens>> => TokensOK'
         /\ UNCHANGED clients => ClientsOK'
         /\ DOMAIN codes' = DOMAIN codes => Answers("activation", DOMAIN codes)'
         /\ DOMAIN clients' = DOMAIN clients => Answers("client", DOMAIN clients)'
         /\ UNCHANGED grants => GrantsOK'
         /\ UNCHANGED sessions => SessionsOK'
         /\ UNCHANGED chunks => ChunksOK'
         /\ UNCHANGED audit => AuditOK'
<1>1. UNCHANGED codes => CodesOK'
  BY DEF TablesOK, CodesOK
<1>2. ASSUME UNCHANGED devices PROVE DevicesOK'
  <2>1. \A d \in DOMAIN devices : devices[d] \in DeviceRow' /\ codes'[devices[d].code] = "disabled"
    <3>1. \A d \in DOMAIN devices : devices[d] \in DeviceRow /\ codes[devices[d].code] = "disabled"
      BY DEF TablesOK, DevicesOK
    <3>2. \A row \in DeviceRow : row.code \in DOMAIN codes
      BY DEF DeviceRow
    <3>3. QED
      BY <3>1, <3>2, RowsStay DEF Grows
  <2>2. QED
    BY <1>2, <2>1 DEF TablesOK, DevicesOK
<1>3. ASSUME UNCHANGED <<devices, tokens>> PROVE TokensOK'
  <2>1. \A d : ActiveTokens(d)' = ActiveTokens(d)
    BY <1>3 DEF ActiveTokens
  <2>2. QED
    BY <1>3, <2>1, RowsStay DEF TablesOK, TokensOK
<1>4. UNCHANGED clients => ClientsOK'
  BY DEF TablesOK, ClientsOK
<1>5. DOMAIN codes' = DOMAIN codes => Answers("activation", DOMAIN codes)'
  BY DEF TablesOK, Answers, Grows
<1>6. DOMAIN clients' = DOMAIN clients => Answers("client", DOMAIN clients)'
  BY DEF TablesOK, Answers, Grows
<1>7. UNCHANGED grants => GrantsOK'
  BY RowsStay DEF TablesOK, GrantsOK
<1>8. UNCHANGED sessions => SessionsOK'
  BY RowsStay DEF TablesOK, SessionsOK
<1>9. UNCHANGED chunks => ChunksOK'
  BY DEF TablesOK, ChunksOK, Grows
<1>10. UNCHANGED audit => AuditOK'
  BY HappenedStays DEF TablesOK, AuditOK
<1>11. QED
  BY <1>1, <1>2, <1>3, <1>4, <1>5, <1>6, <1>7, <1>8, <1>9, <1>10

--------------------------------------------------------------------------------
(* Each move keeps what is said of the tables, and what is final. *)

\* A reply is kept for what was made, and every earlier reply.
LEMMA AnsweredForm ==
  ASSUME NEW scope, NEW key, NEW c, NEW made, Answered(scope, key, c), Answers(scope, made)
  PROVE  /\ \A name \in DOMAIN replays :
              name \in DOMAIN replays' /\ replays'[name] = replays[name]
         /\ \A x \in made \cup {c} : \E name \in DOMAIN replays' :
              name[1] = scope /\ replays'[name] = x
<1> DEFINE new == <<scope, key>>
<1>1. new \notin DOMAIN replays /\ replays' = Put(replays, new, c) /\ new[1] = scope
  BY DEF Answered
<1> HIDE DEF new
<1>2. /\ DOMAIN replays' = DOMAIN replays \cup {new} /\ replays'[new] = c
      /\ \A name \in DOMAIN replays : replays'[name] = replays[name]
  BY <1>1 DEF Put
<1>3. QED
  BY <1>1, <1>2 DEF Answers

LEMMA MakesClientStep ==
  ASSUME TablesOK, NEW key \in Keys, NEW c \in Clients, MakesClient(key, c)
  PROVE  TablesOK' /\ Grows
<1>1. Answered("client", key, c) /\ Answers("client", DOMAIN clients)
  BY DEF MakesClient, TablesOK
<1>2. UNCHANGED <<codes, devices, tokens, grants, sessions, chunks, audit>>
  BY DEF MakesClient
<1>3. /\ DOMAIN clients' = DOMAIN clients \cup {c} /\ clients'[c] = "active"
      /\ \A y \in DOMAIN clients : clients'[y] = clients[y]
  BY DEF MakesClient, Put
<1>4. Grows
  BY <1>1, <1>2, <1>3, AnsweredForm DEF Grows
<1>5. ClientsOK'
  BY <1>3 DEF TablesOK, ClientsOK
<1>6. Answers("client", DOMAIN clients)'
  BY <1>1, <1>3, AnsweredForm DEF Answers
<1>7. QED
  BY <1>2, <1>4, <1>5, <1>6, TheOthersStay DEF TablesOK

LEMMA SetsClientStep ==
  ASSUME TablesOK, NEW c, NEW status, SetsClient(c, status)
  PROVE  TablesOK' /\ Grows
<1>1. UNCHANGED <<codes, devices, tokens, replays, grants, sessions, chunks, audit>>
  BY DEF SetsClient
<1>2. /\ DOMAIN clients' = DOMAIN clients
      /\ \A y \in DOMAIN clients : clients'[y] \in {clients[y], status}
      /\ status \in {"active", "offline"}
  BY DEF SetsClient
<1>3. Grows
  BY <1>1, <1>2 DEF Grows
<1>4. ClientsOK'
  BY <1>2 DEF TablesOK, ClientsOK
<1>5. QED
  BY <1>1, <1>2, <1>3, <1>4, TheOthersStay DEF TablesOK

LEMMA MakesCodeStep ==
  ASSUME TablesOK, NEW key \in Keys, NEW c \in Codes, MakesCode(key, c)
  PROVE  TablesOK' /\ Grows
<1>1. Answered("activation", key, c) /\ Answers("activation", DOMAIN codes)
  BY DEF MakesCode, TablesOK
<1>2. UNCHANGED <<devices, tokens, clients, grants, sessions, chunks, audit>>
  BY DEF MakesCode
<1>3. /\ DOMAIN codes' = DOMAIN codes \cup {c} /\ codes'[c] = "active"
      /\ \A y \in DOMAIN codes : codes'[y] = codes[y]
  BY DEF MakesCode, Put
<1>4. Grows
  BY <1>1, <1>2, <1>3, AnsweredForm DEF Grows
<1>5. CodesOK'
  BY <1>3 DEF TablesOK, CodesOK
<1>6. Answers("activation", DOMAIN codes)'
  BY <1>1, <1>3, AnsweredForm DEF Answers
<1>7. QED
  BY <1>2, <1>4, <1>5, <1>6, TheOthersStay DEF TablesOK

\* The code was unused, so no other device came from it; the device is new, so it has no
\* token but its first.
LEMMA MakesAgentStep ==
  ASSUME TablesOK, NEW c, NEW d, NEW t, MakesAgent(c, d, t)
  PROVE  TablesOK' /\ Grows
<1> DEFINE row == [status |-> "active", code |-> c]
           token == [device |-> d, status |-> "active"]
<1>1. /\ UNCHANGED <<clients, replays, grants, sessions, chunks, audit>>
      /\ c \in DOMAIN codes /\ codes[c] = "active"
      /\ d \in Devices \ DOMAIN devices /\ t \in Tokens \ DOMAIN tokens
  BY DEF MakesAgent
<1>2. /\ DOMAIN codes' = DOMAIN codes /\ codes'[c] = "disabled"
      /\ \A y \in DOMAIN codes : y # c => codes'[y] = codes[y]
  BY DEF MakesAgent
<1>3. row.status = "active" /\ row.code = c /\ token.device = d /\ token.status = "active"
  OBVIOUS
<1>4. row \in DeviceRow'
  BY <1>1, <1>2 DEF DeviceRow, DeviceStatus
<1>5. devices' = Put(devices, d, row) /\ tokens' = Put(tokens, t, token)
  BY DEF MakesAgent
<1> HIDE DEF row, token
<1>6. /\ DOMAIN devices' = DOMAIN devices \cup {d} /\ devices'[d] = row
      /\ \A y \in DOMAIN devices : devices'[y] = devices[y]
  BY <1>1, <1>5 DEF Put
<1>7. /\ DOMAIN tokens' = DOMAIN tokens \cup {t} /\ tokens'[t] = token
      /\ \A y \in DOMAIN tokens : tokens'[y] = tokens[y]
  BY <1>1, <1>5 DEF Put
<1>8. Grows
  BY <1>1, <1>2, <1>6, <1>7 DEF Grows
<1>9. CodesOK'
  BY <1>2 DEF TablesOK, CodesOK
<1>10. DevicesOK'
  <2>1. \A e \in DOMAIN devices :
          /\ e \in Devices /\ devices'[e] \in DeviceRow'
          /\ devices'[e].code # c /\ codes'[devices'[e].code] = "disabled"
    <3>1. ASSUME NEW e \in DOMAIN devices
          PROVE  /\ e \in Devices /\ devices[e] \in DeviceRow /\ devices[e].code \in DOMAIN codes
                 /\ codes[devices[e].code] = "disabled"
      BY DEF TablesOK, DevicesOK, DeviceRow
    <3>2. QED
      BY <1>1, <1>2, <1>6, <1>8, <3>1, RowsStay
  <2>2. d \in Devices /\ devices'[d] \in DeviceRow' /\ codes'[devices'[d].code] = "disabled"
    BY <1>1, <1>2, <1>3, <1>4, <1>6
  <2>3. \A e, f \in DOMAIN devices' : devices'[e].code = devices'[f].code => e = f
    BY <1>3, <1>6, <2>1 DEF TablesOK, DevicesOK
  <2>4. QED
    BY <1>6, <2>1, <2>2, <2>3 DEF DevicesOK
<1>11. TokensOK'
  <2>1. token \in TokenRow'
    BY <1>6 DEF token, TokenRow
  <2>2. \A y \in DOMAIN tokens : tokens[y] \in TokenRow /\ tokens[y].device \in DOMAIN devices
    BY DEF TablesOK, TokensOK, TokenRow
  <2>3. \A y \in DOMAIN tokens' : tokens'[y] \in TokenRow'
    BY <1>7, <1>8, <2>1, <2>2, RowsStay
  <2>4. ActiveTokens(d)' = {t}
    BY <1>1, <1>3, <1>7, <2>2 DEF ActiveTokens
  <2>5. \A e \in DOMAIN devices : ActiveTokens(e)' = ActiveTokens(e)
    BY <1>1, <1>3, <1>7 DEF ActiveTokens
  <2>6. ASSUME NEW e \in DOMAIN devices'
        PROVE  IF devices'[e].status = "disabled" THEN ActiveTokens(e)' = {}
                 ELSE \E y \in DOMAIN tokens' : ActiveTokens(e)' = {y}
    <3>1. CASE e = d
      BY <1>3, <1>6, <1>7, <2>4, <3>1
    <3>2. CASE e \in DOMAIN devices
      BY <1>6, <1>7, <2>5, <3>2 DEF TablesOK, TokensOK
    <3>3. QED
      BY <1>6, <3>1, <3>2
  <2>7. QED
    BY <2>3, <2>6 DEF TokensOK
<1>12. QED
  BY <1>1, <1>2, <1>8, <1>9, <1>10, <1>11, TheOthersStay DEF TablesOK

\* The active tokens of the device are retired, and no other.
LEMMA RetiredForm ==
  ASSUME TablesOK, NEW d, NEW status \in {"rotated", "revoked"}
  PROVE  /\ DOMAIN Retired(d, status) = DOMAIN tokens
         /\ \A t \in DOMAIN tokens :
              /\ Retired(d, status)[t] \in TokenRow
              /\ Retired(d, status)[t].device = tokens[t].device
              /\ t \in ActiveTokens(d) => Retired(d, status)[t].status = status
              /\ t \notin ActiveTokens(d) => Retired(d, status)[t] = tokens[t]
<1>1. DOMAIN Retired(d, status) = DOMAIN tokens
  BY DEF Retired
<1>2. ASSUME NEW t \in DOMAIN tokens
      PROVE  /\ Retired(d, status)[t] \in TokenRow
             /\ Retired(d, status)[t].device = tokens[t].device
             /\ t \in ActiveTokens(d) => Retired(d, status)[t].status = status
             /\ t \notin ActiveTokens(d) => Retired(d, status)[t] = tokens[t]
  <2>1. tokens[t] \in TokenRow
    BY DEF TablesOK, TokensOK
  <2>2. PICK row : row = tokens[t]
    OBVIOUS
  <2>3. /\ [row EXCEPT !.status = status] \in TokenRow
        /\ [row EXCEPT !.status = status].device = row.device
        /\ [row EXCEPT !.status = status].status = status
    BY <2>1, <2>2 DEF TokenRow
  <2>4. Retired(d, status)[t] = IF t \in ActiveTokens(d) THEN [row EXCEPT !.status = status] ELSE row
    BY <2>2 DEF Retired
  <2>5. QED
    BY <2>1, <2>2, <2>3, <2>4
<1>3. QED
  BY <1>1, <1>2

\* A token is active for its device only.
LEMMA ActiveForm ==
  ASSUME NEW t, NEW d
  PROVE  t \in ActiveTokens(d) <=>
           t \in DOMAIN tokens /\ tokens[t].device = d /\ tokens[t].status = "active"
BY DEF ActiveTokens

LEMMA DisablesDeviceStep ==
  ASSUME TablesOK, NEW d, DisablesDevice(d)
  PROVE  TablesOK' /\ Grows
<1>1. /\ UNCHANGED <<codes, clients, replays, grants, sessions, chunks, audit>>
      /\ d \in DOMAIN devices /\ tokens' = Retired(d, "revoked")
  BY DEF DisablesDevice
<1>2. /\ DOMAIN devices' = DOMAIN devices
      /\ \A e \in DOMAIN devices : e # d => devices'[e] = devices[e]
      /\ devices'[d] \in DeviceRow /\ devices'[d].status = "disabled"
      /\ devices'[d].code = devices[d].code
  <2>1. devices' = [devices EXCEPT ![d].status = "disabled"] /\ devices[d] \in DeviceRow
    BY DEF DisablesDevice, TablesOK, DevicesOK
  <2>2. QED
    BY <1>1, <2>1 DEF DeviceRow, DeviceStatus
<1>3. /\ DOMAIN tokens' = DOMAIN tokens
      /\ \A t \in DOMAIN tokens :
           /\ tokens'[t] \in TokenRow /\ tokens'[t].device = tokens[t].device
           /\ t \in ActiveTokens(d) => tokens'[t].status = "revoked"
           /\ t \notin ActiveTokens(d) => tokens'[t] = tokens[t]
  BY <1>1, RetiredForm
<1>4. Grows
  BY <1>1, <1>2, <1>3, ActiveForm DEF Grows
<1>5. DevicesOK'
  <2>1. \A e \in DOMAIN devices : devices'[e] \in DeviceRow' /\ devices'[e].code = devices[e].code
    BY <1>2, <1>4, RowsStay DEF TablesOK, DevicesOK
  <2>2. QED
    BY <1>1, <1>2, <2>1 DEF TablesOK, DevicesOK
<1>6. TokensOK'
  <2>1. \A t \in DOMAIN tokens' : tokens'[t] \in TokenRow'
    BY <1>3, <1>4, RowsStay
  <2>2. ActiveTokens(d)' = {}
    BY <1>3 DEF ActiveTokens
  <2>3. \A e \in DOMAIN devices : e # d => ActiveTokens(e)' = ActiveTokens(e)
    BY <1>3 DEF ActiveTokens
  <2>4. QED
    BY <1>2, <1>3, <2>1, <2>2, <2>3 DEF TablesOK, TokensOK
<1>7. QED
  BY <1>1, <1>4, <1>5, <1>6, TheOthersStay DEF TablesOK

LEMMA RotatesTokenStep ==
  ASSUME TablesOK, NEW d, NEW t, RotatesToken(d, t)
  PROVE  TablesOK' /\ Grows
<1> DEFINE new == [device |-> d, status |-> "active"]
<1>1. /\ UNCHANGED <<codes, devices, clients, replays, grants, sessions, chunks, audit>>
      /\ d \in DOMAIN devices /\ devices[d].status # "disabled"
      /\ t \in Tokens \ DOMAIN tokens
  BY DEF RotatesToken
<1>2. new \in TokenRow /\ new.device = d /\ new.status = "active"
  BY <1>1 DEF TokenRow
<1>3. tokens' = Put(Retired(d, "rotated"), t, new)
  BY DEF RotatesToken
<1> HIDE DEF new
<1>4. /\ DOMAIN tokens' = DOMAIN tokens \cup {t} /\ tokens'[t] = new
      /\ \A y \in DOMAIN tokens :
           /\ tokens'[y] \in TokenRow /\ tokens'[y].device = tokens[y].device
           /\ y \in ActiveTokens(d) => tokens'[y].status = "rotated"
           /\ y \notin ActiveTokens(d) => tokens'[y] = tokens[y]
  <2>1. PICK old : old = Retired(d, "rotated")
    OBVIOUS
  <2>2. DOMAIN old = DOMAIN tokens /\ tokens' = Put(old, t, new)
    BY <1>3, <2>1, RetiredForm
  <2>3. /\ DOMAIN tokens' = DOMAIN tokens \cup {t} /\ tokens'[t] = new
        /\ \A y \in DOMAIN tokens : tokens'[y] = old[y]
    BY <1>1, <2>2 DEF Put
  <2>4. QED
    BY <2>1, <2>3, RetiredForm
<1>5. Grows
  BY <1>1, <1>4, ActiveForm DEF Grows
<1>6. TokensOK'
  <2>1. \A y \in DOMAIN tokens' : tokens'[y] \in TokenRow'
    BY <1>2, <1>4, <1>5, RowsStay
  <2>2. ActiveTokens(d)' = {t}
    BY <1>1, <1>2, <1>4 DEF ActiveTokens
  <2>3. \A e \in DOMAIN devices : e # d => ActiveTokens(e)' = ActiveTokens(e)
    BY <1>1, <1>2, <1>4 DEF ActiveTokens
  <2>4. QED
    BY <1>1, <1>4, <2>1, <2>2, <2>3 DEF TablesOK, TokensOK
<1>7. QED
  BY <1>1, <1>5, <1>6, TheOthersStay DEF TablesOK

LEMMA SetsStatusStep ==
  ASSUME TablesOK, NEW d, NEW status, SetsStatus(d, status)
  PROVE  TablesOK' /\ Grows
<1>1. /\ UNCHANGED <<codes, tokens, clients, replays, grants, sessions, chunks, audit>>
      /\ d \in DOMAIN devices /\ devices[d].status # "disabled"
      /\ status \in {"active", "suspect_offline", "offline"}
  BY DEF SetsStatus
<1>2. /\ DOMAIN devices' = DOMAIN devices
      /\ \A e \in DOMAIN devices : e # d => devices'[e] = devices[e]
      /\ devices'[d] \in DeviceRow /\ devices'[d].status = status
      /\ devices'[d].code = devices[d].code
  <2>1. devices' = [devices EXCEPT ![d].status = status] /\ devices[d] \in DeviceRow
    BY <1>1 DEF SetsStatus, TablesOK, DevicesOK
  <2>2. QED
    BY <1>1, <2>1 DEF DeviceRow, DeviceStatus
<1>3. Grows
  BY <1>1, <1>2 DEF Grows
<1>4. DevicesOK'
  <2>1. \A e \in DOMAIN devices : devices'[e] \in DeviceRow' /\ devices'[e].code = devices[e].code
    BY <1>2, <1>3, RowsStay DEF TablesOK, DevicesOK
  <2>2. QED
    BY <1>1, <1>2, <2>1 DEF TablesOK, DevicesOK
<1>5. TokensOK'
  <2>1. \A e \in DOMAIN devices :
          /\ ActiveTokens(e)' = ActiveTokens(e)
          /\ devices'[e].status = "disabled" <=> devices[e].status = "disabled"
    BY <1>1, <1>2 DEF ActiveTokens
  <2>2. \A t \in DOMAIN tokens' : tokens'[t] \in TokenRow'
    BY <1>1, <1>3, RowsStay DEF TablesOK, TokensOK
  <2>3. QED
    BY <1>1, <1>2, <2>1, <2>2 DEF TablesOK, TokensOK
<1>6. QED
  BY <1>1, <1>3, <1>4, <1>5, TheOthersStay DEF TablesOK

LEMMA MakesGrantStep ==
  ASSUME TablesOK, NEW g, NEW d, NEW u, NEW permission, MakesGrant(g, d, u, permission)
  PROVE  TablesOK' /\ Grows
<1> DEFINE new == [device |-> d, user |-> u, permission |-> permission, revoked |-> FALSE]
<1>1. /\ UNCHANGED <<codes, devices, tokens, clients, replays, sessions, chunks, audit>>
      /\ g \in Grants \ DOMAIN grants
  BY DEF MakesGrant
<1>2. new \in GrantRow /\ ~ new.revoked
  BY DEF MakesGrant, GrantRow
<1>3. /\ grants' = Put(grants, g, new)
      /\ \A h \in DOMAIN grants : grants[h] # new
  BY DEF MakesGrant, InForce
<1> HIDE DEF new
<1>4. /\ DOMAIN grants' = DOMAIN grants \cup {g} /\ grants'[g] = new
      /\ \A h \in DOMAIN grants : grants'[h] = grants[h]
  BY <1>1, <1>3 DEF Put
<1>5. Grows
  BY <1>1, <1>4 DEF Grows
<1>6. GrantsOK'
  <2>1. \A h \in DOMAIN grants' : h \in Grants /\ grants'[h] \in GrantRow'
    BY <1>1, <1>2, <1>4, <1>5, RowsStay DEF TablesOK, GrantsOK
  <2>2. \A h, k \in DOMAIN grants' : grants'[h] = grants'[k] /\ ~ grants'[h].revoked => h = k
    BY <1>3, <1>4 DEF TablesOK, GrantsOK
  <2>3. grants' = [h \in DOMAIN grants' |-> grants'[h]]
    BY <1>3 DEF Put
  <2>4. QED
    BY <2>1, <2>2, <2>3 DEF GrantsOK
<1>7. QED
  BY <1>1, <1>5, <1>6, TheOthersStay DEF TablesOK

LEMMA RevokesGrantStep ==
  ASSUME TablesOK, NEW g, RevokesGrant(g)
  PROVE  TablesOK' /\ Grows
<1>1. /\ UNCHANGED <<codes, devices, tokens, clients, replays, sessions, chunks, audit>>
      /\ g \in DOMAIN grants
  BY DEF RevokesGrant
<1>2. /\ DOMAIN grants' = DOMAIN grants
      /\ \A h \in DOMAIN grants : h # g => grants'[h] = grants[h]
      /\ grants'[g] \in GrantRow /\ grants'[g].revoked
      /\ grants[g].revoked => grants'[g] = grants[g]
  <2>1. PICK row : row = grants[g]
    OBVIOUS
  <2>2. row \in GrantRow
    BY <1>1, <2>1 DEF TablesOK, GrantsOK
  <2>3. PICK new : new = [row EXCEPT !.revoked = TRUE]
    OBVIOUS
  <2>4. new \in GrantRow /\ new.revoked = TRUE
    BY <2>2, <2>3 DEF GrantRow
  <2>5. row.revoked => new = row
    BY <2>2, <2>3 DEF GrantRow
  <2>6. grants' = [grants EXCEPT ![g] = new]
    BY <2>1, <2>3 DEF RevokesGrant
  <2>7. QED
    BY <1>1, <2>1, <2>4, <2>5, <2>6
<1>3. Grows
  BY <1>1, <1>2 DEF Grows
<1>4. GrantsOK'
  <2>1. \A h \in DOMAIN grants' : h \in Grants /\ grants'[h] \in GrantRow'
    BY <1>2, <1>3, RowsStay DEF TablesOK, GrantsOK
  <2>2. \A h, k \in DOMAIN grants' : grants'[h] = grants'[k] /\ ~ grants'[h].revoked => h = k
    BY <1>2 DEF TablesOK, GrantsOK
  <2>3. grants' = [h \in DOMAIN grants' |-> grants'[h]]
    BY DEF RevokesGrant
  <2>4. QED
    BY <2>1, <2>2, <2>3 DEF GrantsOK
<1>5. QED
  BY <1>1, <1>3, <1>4, TheOthersStay DEF TablesOK

LEMMA MakesSessionStep ==
  ASSUME TablesOK, NEW s, NEW d, MakesSession(s, d)
  PROVE  TablesOK' /\ Grows
<1> DEFINE new == [device |-> d, status |-> "running", ended |-> FALSE]
<1>1. /\ UNCHANGED <<codes, devices, tokens, clients, replays, grants, chunks, audit>>
      /\ s \in Sessions \ DOMAIN sessions
  BY DEF MakesSession
<1>2. new \in SessionRow /\ new.status \notin Final
  BY DEF MakesSession, SessionRow, Final
<1>3. sessions' = Put(sessions, s, new)
  BY DEF MakesSession
<1> HIDE DEF new
<1>4. /\ DOMAIN sessions' = DOMAIN sessions \cup {s} /\ sessions'[s] = new
      /\ \A r \in DOMAIN sessions : sessions'[r] = sessions[r]
  BY <1>1, <1>3 DEF Put
<1>5. Grows
  BY <1>1, <1>4 DEF Grows
<1>6. SessionsOK'
  BY <1>2, <1>4, <1>5, RowsStay DEF TablesOK, SessionsOK
<1>7. ChunksOK'
  BY <1>1, <1>4 DEF TablesOK, ChunksOK
<1>8. QED
  BY <1>1, <1>5, <1>6, <1>7, TheOthersStay DEF TablesOK

LEMMA ReportsSessionStep ==
  ASSUME TablesOK, NEW s, NEW report, ReportsSession(s, report)
  PROVE  TablesOK' /\ Grows
<1>1. /\ UNCHANGED <<codes, devices, tokens, clients, replays, grants, chunks, audit>>
      /\ s \in DOMAIN sessions
  BY DEF ReportsSession
<1>2. /\ DOMAIN sessions' = DOMAIN sessions
      /\ \A r \in DOMAIN sessions : r # s => sessions'[r] = sessions[r]
      /\ sessions'[s] \in SessionRow
      /\ sessions'[s].status \in Final => sessions'[s].ended
      /\ sessions[s].ended => sessions'[s].ended
  <2>1. PICK row : row = sessions[s]
    OBVIOUS
  <2>2. row \in SessionRow
    BY <1>1, <2>1 DEF TablesOK, SessionsOK
  <2>3. PICK over \in BOOLEAN : over = (row.ended \/ report \in Final)
    OBVIOUS
  <2>4. PICK new : new = [row EXCEPT !.status = report, !.ended = over]
    OBVIOUS
  <2>5. new \in SessionRow /\ new.status = report /\ new.ended = over
    BY <2>2, <2>3, <2>4 DEF SessionRow, ReportsSession
  <2>6. sessions' = [sessions EXCEPT ![s] = new]
    BY <1>1, <2>1, <2>3, <2>4 DEF ReportsSession
  <2>7. QED
    BY <1>1, <2>1, <2>3, <2>5, <2>6
<1>3. Grows
  BY <1>1, <1>2 DEF Grows
<1>4. SessionsOK'
  BY <1>2, <1>3, RowsStay DEF TablesOK, SessionsOK
<1>5. QED
  BY <1>1, <1>3, <1>4, TheOthersStay DEF TablesOK

LEMMA MakesChunkStep ==
  ASSUME TablesOK, NEW s, NEW n, NEW content, MakesChunk(s, n, content)
  PROVE  TablesOK' /\ Grows
<1> DEFINE at == <<s, n>>
<1>1. /\ UNCHANGED <<codes, devices, tokens, clients, replays, grants, sessions, audit>>
      /\ at \notin DOMAIN chunks /\ at[1] \in DOMAIN sessions /\ content \in Contents
      /\ chunks' = Put(chunks, at, content)
  BY DEF MakesChunk
<1> HIDE DEF at
<1>2. /\ DOMAIN chunks' = DOMAIN chunks \cup {at} /\ chunks'[at] = content
      /\ \A y \in DOMAIN chunks : chunks'[y] = chunks[y]
  BY <1>1 DEF Put
<1>3. Grows
  BY <1>1, <1>2 DEF Grows
<1>4. ChunksOK'
  BY <1>1, <1>2 DEF TablesOK, ChunksOK
<1>5. QED
  BY <1>1, <1>3, <1>4, TheOthersStay DEF TablesOK

LEMMA TellsAuditStep ==
  ASSUME TablesOK, NEW entry, TellsAudit(entry)
  PROVE  TablesOK' /\ Grows
<1>1. /\ UNCHANGED <<codes, devices, tokens, clients, replays, grants, sessions, chunks>>
      /\ Happened(entry) /\ audit' = audit \cup {entry}
  BY DEF TellsAudit
<1>2. Grows
  BY <1>1 DEF Grows
<1>3. AuditOK'
  BY <1>1, <1>2, HappenedStays DEF TablesOK, AuditOK
<1>4. QED
  BY <1>1, <1>2, <1>3, TheOthersStay DEF TablesOK

LEMMA TablesStep ==
  ASSUME TablesOK, TablesMove
  PROVE  TablesOK' /\ Grows
<1>1. CASE UNCHANGED tables
  <2>1. UNCHANGED <<codes, devices, tokens, clients, replays, grants, sessions, chunks, audit>>
    BY <1>1 DEF tables
  <2>2. Grows
    BY <2>1 DEF Grows
  <2>3. QED
    BY <2>1, <2>2, TheOthersStay DEF TablesOK
<1>2. QED
  BY <1>1, MakesClientStep, SetsClientStep, MakesCodeStep, MakesAgentStep, DisablesDeviceStep,
     RotatesTokenStep, SetsStatusStep, MakesGrantStep, RevokesGrantStep, MakesSessionStep,
     ReportsSessionStep, MakesChunkStep, TellsAuditStep
  DEF TablesMove

--------------------------------------------------------------------------------
(* What the requests do. *)

LEMMA RequestForms ==
  ASSUME NEW r, Good(r)
  PROVE  /\ r.op \in {"register client", "create code"} => r.key \in Keys
         /\ r.op = "register agent" =>
              r.row = r.code /\ r.code \in DOMAIN codes /\ codes[r.code] = "active"
         /\ r.op = "disable" => r.row \in DOMAIN devices
         /\ r.op = "rotate" => r.row \in DOMAIN devices /\ devices[r.row].status # "disabled"
         /\ r.op \in {"validated", "create session"} => r.device \in DOMAIN devices
         /\ r.op = "append" =>
              r.row \in DOMAIN sessions /\ r.position \in Positions /\ r.content \in Contents
         /\ r.op = "audit" => Happened(r.entry)
         /\ r.op \in {"none", "register client", "create code", "register agent", "disable",
                      "rotate", "validated", "create session", "append", "audit"}
<1>1. \A ops, rows, keys : r \in [op : ops, row : rows, key : keys] => r.op \in ops /\ r.key \in keys
  OBVIOUS
<1>2. \A ops, rows, cs : r \in [op : ops, row : rows, code : cs] => r.op \in ops /\ r.code \in cs
  OBVIOUS
<1>3. \A ops, rows : r \in [op : ops, row : rows] => r.op \in ops /\ r.row \in rows
  OBVIOUS
<1>4. \A ops, rows, ds : r \in [op : ops, row : rows, device : ds] => r.op \in ops /\ r.device \in ds
  OBVIOUS
<1>5. \A ops, rows, ns, cs : r \in [op : ops, row : rows, position : ns, content : cs] =>
        r.op \in ops /\ r.row \in rows /\ r.position \in ns /\ r.content \in cs
  OBVIOUS
<1>6. r = Idle => r.op = "none"
  BY DEF Idle
<1>7. QED
  BY <1>1, <1>2, <1>3, <1>4, <1>5, <1>6 DEF Good

LEMMA ClientMoves ==
  ASSUME IInv, NEW p \in Handlers, ClientRequests(p)
  PROVE  TablesMove
<1> USE DEF TablesMove
<1>1. ASSUME NEW key \in Keys, RegisterReadsReplay(p, key) PROVE TablesMove
  BY <1>1 DEF RegisterReadsReplay
<1>2. ASSUME RegistersClient(p) PROVE TablesMove
  <2>1. reqs[p].key \in Keys
    BY <1>2, RequestForms DEF IInv, RequestsOK, RegistersClient, At
  <2>2. PICK c \in Clients : MakesClient(reqs[p].key, c)
    BY <1>2, <2>1 DEF RegistersClient, MakesClient, Answered
  <2>3. QED
    BY <2>1, <2>2
<1>3. ASSUME NEW c \in Clients, NEW status \in {"active", "offline"}, SetClient(p, c, status)
      PROVE  TablesMove
  <2>1. SetsClient(c, status)
    BY <1>3 DEF SetClient, SetsClient
  <2>2. QED
    BY <2>1
<1>4. QED
  BY <1>1, <1>2, <1>3
  DEF ClientRequests, UpdateClientInstance, LogoutClientInstance, MarkClientInstanceSeen

LEMMA DeviceMoves ==
  ASSUME IInv, NEW p \in Handlers, DeviceRequests(p)
  PROVE  TablesMove
<1> USE DEF TablesMove
<1>1. ASSUME NEW key \in Keys, ActivationReadsReplay(p, key) PROVE TablesMove
  BY <1>1 DEF ActivationReadsReplay
<1>2. ASSUME CreatesCode(p) PROVE TablesMove
  <2>1. reqs[p].key \in Keys
    BY <1>2, RequestForms DEF IInv, RequestsOK, CreatesCode, At
  <2>2. PICK c \in Codes : MakesCode(reqs[p].key, c)
    BY <1>2, <2>1 DEF CreatesCode, MakesCode, Answered
  <2>3. QED
    BY <2>1, <2>2
<1>3. ASSUME NEW c \in Codes, AgentLocksCode(p, c) PROVE TablesMove
  BY <1>3 DEF AgentLocksCode
<1>4. ASSUME RegistersAgent(p) PROVE TablesMove
  <2>1. reqs[p].code \in DOMAIN codes /\ codes[reqs[p].code] = "active"
    BY <1>4, RequestForms DEF IInv, RequestsOK, RegistersAgent, At
  <2>2. reqs[p].code \in Codes
    BY <2>1 DEF IInv, TablesOK, CodesOK
  <2>3. PICK d \in Devices, t \in Tokens : MakesAgent(reqs[p].code, d, t)
    BY <1>4, <2>1 DEF RegistersAgent, MakesAgent
  <2>4. QED
    BY <2>2, <2>3
<1>5. ASSUME NEW d \in Devices, DisableLocksDevice(p, d) \/ RotateLocksDevice(p, d)
      PROVE  TablesMove
  BY <1>5 DEF DisableLocksDevice, RotateLocksDevice
<1>6. ASSUME NEW d \in Devices, MarkDeviceSeen(p, d) PROVE TablesMove
  <2>1. SetsStatus(d, "active")
    BY <1>6 DEF MarkDeviceSeen, SetsStatus
  <2>2. QED
    BY <2>1 DEF DeviceStatus
<1>7. ASSUME Disables(p) PROVE TablesMove
  <2>1. reqs[p].row \in DOMAIN devices
    BY <1>7, RequestForms DEF IInv, RequestsOK, Disables, At
  <2>2. reqs[p].row \in Devices
    BY <2>1 DEF IInv, TablesOK, DevicesOK
  <2>3. DisablesDevice(reqs[p].row)
    BY <1>7, <2>1 DEF Disables, DisablesDevice
  <2>4. QED
    BY <2>2, <2>3
<1>8. ASSUME Rotates(p) PROVE TablesMove
  <2>1. reqs[p].row \in DOMAIN devices /\ devices[reqs[p].row].status # "disabled"
    BY <1>8, RequestForms DEF IInv, RequestsOK, Rotates, At
  <2>2. reqs[p].row \in Devices
    BY <2>1 DEF IInv, TablesOK, DevicesOK
  <2>3. PICK t \in Tokens : RotatesToken(reqs[p].row, t)
    BY <1>8, <2>1 DEF Rotates, RotatesToken
  <2>4. QED
    BY <2>2, <2>3
<1>9. QED
  BY <1>1, <1>2, <1>3, <1>4, <1>5, <1>6, <1>7, <1>8 DEF DeviceRequests

\* A grant in force keeps its row; otherwise no row has what the new one has.
LEMMA GrantMoves ==
  ASSUME IInv, NEW p \in Handlers, GrantRequests(p)
  PROVE  TablesMove
<1> USE DEF TablesMove
<1>1. ASSUME NEW d \in Devices, NEW u \in Users, NEW permission \in Permissions,
             CreateDeviceGrant(p, d, u, permission)
      PROVE  TablesMove
  <2> DEFINE row == [device |-> d, user |-> u, permission |-> permission, revoked |-> FALSE]
  <2>1. /\ UNCHANGED <<codes, devices, tokens, clients, replays, sessions, chunks, audit>>
        /\ d \in DOMAIN devices
    BY <1>1 DEF CreateDeviceGrant
  <2>2. CASE InForce(d, u, permission) = {}
    <3>1. PICK g \in Grants : MakesGrant(g, d, u, permission)
      BY <1>1, <2>2 DEF CreateDeviceGrant, MakesGrant
    <3>2. QED
      BY <3>1
  <2>3. CASE InForce(d, u, permission) # {}
    <3>1. PICK g \in InForce(d, u, permission) : grants' = Put(grants, g, row)
      BY <1>1, <2>3 DEF CreateDeviceGrant
    <3>2. g \in DOMAIN grants /\ grants[g] = row
      BY <3>1 DEF InForce
    <3> HIDE DEF row
    <3>3. grants = [y \in DOMAIN grants |-> grants[y]]
      BY DEF IInv, TablesOK, GrantsOK
    <3>4. UNCHANGED grants
      BY <3>1, <3>2, <3>3 DEF Put
    <3>5. QED
      BY <2>1, <3>4 DEF tables
  <2>4. QED
    BY <2>2, <2>3
<1>2. ASSUME NEW g \in Grants, RevokeDeviceGrant(p, g) PROVE TablesMove
  <2>1. RevokesGrant(g)
    BY <1>2 DEF RevokeDeviceGrant, RevokesGrant
  <2>2. QED
    BY <2>1
<1>3. QED
  BY <1>1, <1>2 DEF GrantRequests

LEMMA AgentMoves ==
  ASSUME IInv, NEW p \in Handlers, AgentRequests(p)
  PROVE  TablesMove
<1> USE DEF TablesMove
<1>1. ASSUME NEW t \in Tokens, ValidateDeviceToken(p, t) PROVE TablesMove
  BY <1>1 DEF ValidateDeviceToken
<1>2. ASSUME CreateSessionReadsDevice(p) PROVE TablesMove
  BY <1>2 DEF CreateSessionReadsDevice
<1>3. ASSUME InsertsSession(p) PROVE TablesMove
  <2>1. reqs[p].device \in DOMAIN devices
    BY <1>3, RequestForms DEF IInv, RequestsOK, InsertsSession, At
  <2>2. reqs[p].device \in Devices
    BY <2>1 DEF IInv, TablesOK, DevicesOK
  <2>3. PICK s \in Sessions : MakesSession(s, reqs[p].device)
    BY <1>3, <2>1 DEF InsertsSession, MakesSession
  <2>4. QED
    BY <2>2, <2>3
<1>4. ASSUME NEW s \in Sessions, NEW report \in Reports, UpdateSession(p, s, report)
      PROVE  TablesMove
  <2>1. s \in DOMAIN sessions /\ ReportsSession(s, report)
    BY <1>4 DEF UpdateSession, ReportsSession
  <2>2. QED
    BY <2>1
<1>5. ASSUME NEW s \in Sessions, NEW n \in Positions, NEW content \in Contents,
             AppendLocksSession(p, s, n, content)
      PROVE  TablesMove
  BY <1>5 DEF AppendLocksSession
<1>6. ASSUME AppendsChunk(p) PROVE TablesMove
  <2>1. /\ reqs[p].row \in DOMAIN sessions
        /\ reqs[p].position \in Positions /\ reqs[p].content \in Contents
    BY <1>6, RequestForms DEF IInv, RequestsOK, AppendsChunk, At
  <2>2. CASE <<reqs[p].row, reqs[p].position>> \in DOMAIN chunks
    BY <1>6, <2>2 DEF AppendsChunk, tables
  <2>3. CASE <<reqs[p].row, reqs[p].position>> \notin DOMAIN chunks
    <3>1. MakesChunk(reqs[p].row, reqs[p].position, reqs[p].content)
      BY <1>6, <2>1, <2>3 DEF AppendsChunk, MakesChunk
    <3>2. QED
      BY <2>1, <3>1
  <2>4. QED
    BY <2>2, <2>3
<1>7. QED
  BY <1>1, <1>2, <1>3, <1>4, <1>5, <1>6 DEF AgentRequests

\* Every step moves the tables in one of these ways, or not at all.
LEMMA EveryMove ==
  ASSUME IInv, [Next]_vars
  PROVE  TablesMove
<1>1. ASSUME NEW p \in Handlers, Audits(p) PROVE TablesMove
  <2>1. Happened(reqs[p].entry)
    BY <1>1, RequestForms DEF IInv, RequestsOK, Audits, At
  <2>2. TellsAudit(reqs[p].entry)
    BY <1>1, <2>1 DEF Audits, TellsAudit
  <2>3. QED
    BY <2>2 DEF TablesMove
<1>2. ASSUME NEW p \in Handlers, Fails(p) PROVE TablesMove
  BY <1>2 DEF Fails, TablesMove
<1>3. ASSUME MarkStaleDevices PROVE TablesMove
  <2>1. PICK d \in DOMAIN devices, status \in {"suspect_offline", "offline"} : SetsStatus(d, status)
    BY <1>3 DEF MarkStaleDevices, SetsStatus
  <2>2. d \in Devices
    BY DEF IInv, TablesOK, DevicesOK
  <2>3. QED
    BY <2>1, <2>2 DEF TablesMove, DeviceStatus
<1>4. CASE UNCHANGED vars
  BY <1>4 DEF vars, TablesMove
<1>5. QED
  BY <1>1, <1>2, <1>3, <1>4, ClientMoves, DeviceMoves, GrantMoves, AgentMoves DEF Next

--------------------------------------------------------------------------------
(* What the requests know stays right. *)

\* What a request relies on changes only by the one that holds the row.
Undisturbed(held) ==
  /\ \A c \in DOMAIN codes : codes'[c] = codes[c] \/ c \in held
  /\ \A d \in DOMAIN devices :
       devices'[d].status = "disabled" => devices[d].status = "disabled" \/ d \in held

\* A handler goes on with the request r.
Takes(p, r) ==
  /\ reqs' = [reqs EXCEPT ![p] = r]
  /\ Good(r)'
  /\ \A row \in Claims(r) : ~ Locked(row)
  /\ Undisturbed(Claims(reqs[p]))

RequestsMove ==
  \/ UNCHANGED reqs /\ Undisturbed({})
  \/ \E p \in Handlers : \E r : Takes(p, r)

LEMMA GoodStays ==
  ASSUME Grows, NEW r, Good(r), NEW held, Undisturbed(held), Claims(r) \cap held = {}
  PROVE  Good(r)'
<1>1. /\ DOMAIN codes \subseteq DOMAIN codes' /\ DOMAIN devices \subseteq DOMAIN devices'
      /\ DOMAIN sessions \subseteq DOMAIN sessions'
  BY DEF Grows
<1>2. ASSUME r \in [op : {"register agent"}, row : DOMAIN codes, code : DOMAIN codes],
             r.row = r.code, codes[r.code] = "active"
      PROVE  Good(r)'
  <2>1. r \in [op : {"register agent"}, row : DOMAIN codes', code : DOMAIN codes']
    BY <1>1, <1>2
  <2>2. r.code \notin held /\ r.code \in DOMAIN codes
    BY <1>2 DEF Claims
  <2>3. codes'[r.code] = "active"
    BY <1>2, <2>2 DEF Undisturbed
  <2>4. QED
    BY <1>2, <2>1, <2>3 DEF Good
<1>3. ASSUME r \in [op : {"rotate"}, row : DOMAIN devices], devices[r.row].status # "disabled"
      PROVE  Good(r)'
  <2>1. r \in [op : {"rotate"}, row : DOMAIN devices']
    BY <1>1, <1>3
  <2>2. r.row \notin held /\ r.row \in DOMAIN devices
    BY <1>3 DEF Claims
  <2>3. devices'[r.row].status # "disabled"
    BY <1>3, <2>2 DEF Undisturbed
  <2>4. QED
    BY <2>1, <2>3 DEF Good
<1>4. ASSUME r \in [op : {"disable"}, row : DOMAIN devices]
      PROVE  Good(r)'
  BY <1>1, <1>4 DEF Good
<1>5. ASSUME r \in [op : {"validated", "create session"}, row : {NoRow}, device : DOMAIN devices]
      PROVE  Good(r)'
  BY <1>1, <1>5 DEF Good
<1>6. ASSUME r \in [op : {"append"}, row : DOMAIN sessions, position : Positions, content : Contents]
      PROVE  Good(r)'
  BY <1>1, <1>6 DEF Good
<1>7. ASSUME r.op = "audit", r = ToAudit(r.entry), Happened(r.entry)
      PROVE  Good(r)'
  <2>1. Happened(r.entry)'
    BY <1>7, HappenedStays
  <2>2. QED
    BY <1>7, <2>1 DEF Good
<1>8. ASSUME r = Idle \/ r \in [op : {"register client", "create code"}, row : {NoRow}, key : Keys]
      PROVE  Good(r)'
  BY <1>8 DEF Good
<1>9. QED
  BY <1>2, <1>3, <1>4, <1>5, <1>6, <1>7, <1>8 DEF Good

LEMMA RequestsStep ==
  ASSUME IInv, Grows, RequestsMove
  PROVE  RequestsOK'
<1>1. CASE UNCHANGED reqs /\ Undisturbed({})
  <2>1. \A p \in Handlers : Good(reqs[p])'
    <3>1. ASSUME NEW p \in Handlers, NEW r, r = reqs[p] PROVE Good(r)'
      BY <1>1, <3>1, GoodStays DEF IInv, RequestsOK
    <3>2. QED
      BY <1>1, <3>1 DEF Good
  <2>2. QED
    BY <1>1, <2>1 DEF IInv, RequestsOK, Exclusive, Claims
<1>2. ASSUME NEW p \in Handlers, NEW r, Takes(p, r) PROVE RequestsOK'
  <2>1. DOMAIN reqs' = Handlers /\ reqs'[p] = r /\ \A q \in Handlers : q # p => reqs'[q] = reqs[q]
    BY <1>2 DEF Takes, IInv, RequestsOK
  <2>2. \A q \in Handlers : Good(reqs[q])'
    <3>1. ASSUME NEW q \in Handlers, NEW s, s = reqs'[q] PROVE Good(s)'
      <4>1. CASE q = p
        BY <1>2, <2>1, <3>1, <4>1 DEF Takes
      <4>2. CASE q # p
        <5>1. s = reqs[q] /\ Good(s)
          BY <2>1, <3>1, <4>2 DEF IInv, RequestsOK
        <5>2. Claims(s) \cap Claims(reqs[p]) = {}
          BY <4>2, <5>1 DEF IInv, RequestsOK, Exclusive
        <5>3. QED
          BY <1>2, <5>1, <5>2, GoodStays DEF Takes
      <4>3. QED
        BY <4>1, <4>2
    <3>2. QED
      BY <3>1 DEF Good
  <2>3. \A q \in Handlers : Claims(r) \cap Claims(reqs[q]) = {}
    BY <1>2 DEF Takes, Locked, Claims
  <2>4. Exclusive'
    <3>1. \A q \in Handlers : Claims(reqs[q])' = Claims(reqs'[q])
      BY DEF Claims
    <3>2. QED
      BY <2>1, <2>3, <3>1 DEF IInv, RequestsOK, Exclusive
  <2>5. QED
    BY <2>1, <2>2, <2>4 DEF RequestsOK
<1>3. QED
  BY <1>1, <1>2 DEF RequestsMove

\* A statement that only reads, or locks, leaves all of it.
LEMMA ReadingStep ==
  ASSUME UNCHANGED tables, NEW p \in Handlers, NEW r, reqs' = [reqs EXCEPT ![p] = r],
         Good(r), \A row \in Claims(r) : ~ Locked(row)
  PROVE  RequestsMove
<1>1. Grows /\ Undisturbed({}) /\ Undisturbed(Claims(reqs[p]))
  BY DEF Grows, Undisturbed, tables
<1>2. Good(r)'
  BY <1>1, GoodStays
<1>3. QED
  BY <1>1, <1>2 DEF RequestsMove, Takes

\* A statement that ends the request leaves nothing to know.
LEMMA EndStep ==
  ASSUME NEW p \in Handlers, Ends(p), Undisturbed(Claims(reqs[p]))
  PROVE  RequestsMove
<1>1. PICK r : r = Idle
  OBVIOUS
<1>2. Good(r)' /\ Claims(r) = {}
  BY <1>1 DEF Good, Claims, Idle
<1>3. Takes(p, r)
  BY <1>1, <1>2 DEF Takes, Ends, GoesOn
<1>4. QED
  BY <1>3 DEF RequestsMove

\* A commit whose audit entry is still to be written.
LEMMA AuditStep ==
  ASSUME NEW p \in Handlers, NEW entry, reqs' = [reqs EXCEPT ![p] = ToAudit(entry)],
         Happened(entry)', Undisturbed(Claims(reqs[p]))
  PROVE  RequestsMove
<1>1. PICK r : r = ToAudit(entry)
  OBVIOUS
<1>2. r.op = "audit" /\ r.entry = entry
  BY <1>1 DEF ToAudit
<1>3. Good(r)' /\ Claims(r) = {}
  BY <1>1, <1>2 DEF Good, Claims
<1>4. QED
  BY <1>1, <1>3 DEF Takes, RequestsMove

LEMMA ClientRequestsMove ==
  ASSUME IInv, NEW p \in Handlers, ClientRequests(p)
  PROVE  RequestsMove
<1>1. ASSUME NEW key \in Keys, RegisterReadsReplay(p, key) PROVE RequestsMove
  <2>1. PICK r : r = [op |-> "register client", row |-> NoRow, key |-> key]
    OBVIOUS
  <2>2. Good(r) /\ Claims(r) = {}
    BY <2>1 DEF Good, Claims
  <2>3. QED
    BY <1>1, <2>1, <2>2, ReadingStep DEF RegisterReadsReplay, Starts
<1>2. ASSUME RegistersClient(p) PROVE RequestsMove
  BY <1>2, EndStep DEF RegistersClient, Undisturbed
<1>3. ASSUME NEW c, NEW status, SetClient(p, c, status) PROVE RequestsMove
  BY <1>3 DEF SetClient, Serves, Undisturbed, RequestsMove
<1>4. QED
  BY <1>1, <1>2, <1>3
  DEF ClientRequests, UpdateClientInstance, LogoutClientInstance, MarkClientInstanceSeen

LEMMA DeviceRequestsMove ==
  ASSUME IInv, NEW p \in Handlers, DeviceRequests(p)
  PROVE  RequestsMove
<1>1. ASSUME NEW key \in Keys, ActivationReadsReplay(p, key) PROVE RequestsMove
  <2>1. PICK r : r = [op |-> "create code", row |-> NoRow, key |-> key]
    OBVIOUS
  <2>2. Good(r) /\ Claims(r) = {}
    BY <2>1 DEF Good, Claims
  <2>3. QED
    BY <1>1, <2>1, <2>2, ReadingStep DEF ActivationReadsReplay, Starts
<1>2. ASSUME CreatesCode(p) PROVE RequestsMove
  <2>1. Undisturbed(Claims(reqs[p]))
    BY <1>2 DEF CreatesCode, Put, Undisturbed
  <2>2. QED
    BY <1>2, <2>1, EndStep DEF CreatesCode
<1>3. ASSUME NEW c \in Codes, AgentLocksCode(p, c) PROVE RequestsMove
  <2>1. PICK r : r = [op |-> "register agent", row |-> c, code |-> c]
    OBVIOUS
  <2>2. Good(r) /\ Claims(r) = {c}
    BY <1>3, <2>1 DEF AgentLocksCode, Good, Claims
  <2>3. QED
    BY <1>3, <2>1, <2>2, ReadingStep DEF AgentLocksCode, Starts
<1>4. ASSUME RegistersAgent(p) PROVE RequestsMove
  <2>1. reqs[p].row = reqs[p].code /\ reqs[p].code \in Claims(reqs[p])
    BY <1>4, RequestForms DEF IInv, RequestsOK, RegistersAgent, At, Claims
  <2>2. \A c \in DOMAIN codes : codes'[c] = codes[c] \/ c \in Claims(reqs[p])
    BY <1>4, <2>1 DEF RegistersAgent
  <2>3. \A d \in DOMAIN devices : devices'[d] = devices[d]
    BY <1>4 DEF RegistersAgent, Put
  <2>4. QED
    BY <1>4, <2>2, <2>3, EndStep DEF RegistersAgent, Undisturbed
<1>5. ASSUME NEW d \in Devices, DisableLocksDevice(p, d) PROVE RequestsMove
  <2>1. PICK r : r = [op |-> "disable", row |-> d]
    OBVIOUS
  <2>2. Good(r) /\ Claims(r) = {d}
    BY <1>5, <2>1 DEF DisableLocksDevice, Good, Claims
  <2>3. QED
    BY <1>5, <2>1, <2>2, ReadingStep DEF DisableLocksDevice, Starts
<1>6. ASSUME NEW d \in Devices, RotateLocksDevice(p, d) PROVE RequestsMove
  <2>1. PICK r : r = [op |-> "rotate", row |-> d]
    OBVIOUS
  <2>2. Good(r) /\ Claims(r) = {d}
    BY <1>6, <2>1 DEF RotateLocksDevice, Good, Claims
  <2>3. QED
    BY <1>6, <2>1, <2>2, ReadingStep DEF RotateLocksDevice, Starts
<1>7. ASSUME NEW d \in Devices, MarkDeviceSeen(p, d) PROVE RequestsMove
  <2>1. UNCHANGED <<codes, reqs>>
    BY <1>7 DEF MarkDeviceSeen, Serves
  <2>2. ASSUME NEW e \in DOMAIN devices, devices'[e].status = "disabled"
        PROVE  devices[e].status = "disabled"
    <3>1. devices[d] \in DeviceRow
      BY <1>7 DEF MarkDeviceSeen, IInv, TablesOK, DevicesOK
    <3>2. devices' = [devices EXCEPT ![d] = [devices[d] EXCEPT !.status = "active"]]
      BY <1>7 DEF MarkDeviceSeen
    <3>3. [devices[d] EXCEPT !.status = "active"].status = "active"
      BY <3>1 DEF DeviceRow
    <3>4. QED
      BY <2>2, <3>2, <3>3
  <2>3. QED
    BY <2>1, <2>2 DEF Undisturbed, RequestsMove
<1>8. ASSUME Disables(p) PROVE RequestsMove
  <2>1. PICK d : d = reqs[p].row
    OBVIOUS
  <2>2. d \in DOMAIN devices /\ d \in Claims(reqs[p])
    BY <1>8, <2>1, RequestForms DEF IInv, RequestsOK, Disables, At, Claims
  <2>3. /\ devices' = [devices EXCEPT ![d].status = "disabled"]
        /\ reqs' = [reqs EXCEPT ![p] = ToAudit(<<"device.disable", d>>)]
        /\ UNCHANGED codes
    BY <1>8, <2>1 DEF Disables, GoesOn
  <2>4. Undisturbed(Claims(reqs[p]))
    BY <2>2, <2>3 DEF Undisturbed
  <2>5. devices[d] \in DeviceRow
    BY <2>2 DEF IInv, TablesOK, DevicesOK
  <2>6. d \in DOMAIN devices' /\ devices'[d].status = "disabled"
    BY <2>2, <2>3, <2>5 DEF DeviceRow
  <2>7. Happened(<<"device.disable", d>>)'
    BY <2>6 DEF Happened
  <2>8. QED
    BY <2>3, <2>4, <2>7, AuditStep
<1>9. ASSUME Rotates(p) PROVE RequestsMove
  <2>1. PICK d : d = reqs[p].row
    OBVIOUS
  <2>2. d \in DOMAIN devices /\ devices[d].status # "disabled"
    BY <1>9, <2>1, RequestForms DEF IInv, RequestsOK, Rotates, At
  <2>3. PICK t \in Tokens \ DOMAIN tokens :
          tokens' = Put(Retired(d, "rotated"), t, [device |-> d, status |-> "active"])
    BY <1>9, <2>1 DEF Rotates
  <2>4. /\ UNCHANGED <<codes, devices>>
        /\ reqs' = [reqs EXCEPT ![p] = ToAudit(<<"device_token.rotate", d>>)]
    BY <1>9, <2>1 DEF Rotates, GoesOn
  <2>5. PICK old \in DOMAIN tokens : old \in ActiveTokens(d)
    BY <2>2 DEF IInv, TablesOK, TokensOK
  <2>6. /\ old \in DOMAIN Retired(d, "rotated")
        /\ Retired(d, "rotated")[old].device = d /\ Retired(d, "rotated")[old].status = "rotated"
    BY <2>5, RetiredForm, ActiveForm DEF IInv
  <2>7. old \in DOMAIN tokens' /\ tokens'[old].device = d /\ tokens'[old].status = "rotated"
    BY <2>3, <2>6 DEF Put
  <2>8. Happened(<<"device_token.rotate", d>>)'
    BY <2>7 DEF Happened
  <2>9. QED
    BY <2>4, <2>8, AuditStep DEF Undisturbed
<1>10. QED
  BY <1>1, <1>2, <1>3, <1>4, <1>5, <1>6, <1>7, <1>8, <1>9 DEF DeviceRequests

LEMMA GrantRequestsMove ==
  ASSUME IInv, NEW p \in Handlers, GrantRequests(p)
  PROVE  RequestsMove
<1>1. ASSUME NEW d \in Devices, NEW u \in Users, NEW permission \in Permissions,
             CreateDeviceGrant(p, d, u, permission)
      PROVE  RequestsMove
  <2>1. PICK g : /\ g \in DOMAIN grants'
                 /\ reqs' = [reqs EXCEPT ![p] = ToAudit(<<"device_grant.create", g>>)]
    BY <1>1 DEF CreateDeviceGrant, Put
  <2>2. Happened(<<"device_grant.create", g>>)'
    BY <2>1 DEF Happened
  <2>3. Undisturbed(Claims(reqs[p]))
    BY <1>1 DEF CreateDeviceGrant, Undisturbed
  <2>4. QED
    BY <2>1, <2>2, <2>3, AuditStep
<1>2. ASSUME NEW g \in Grants, RevokeDeviceGrant(p, g) PROVE RequestsMove
  <2>1. /\ g \in DOMAIN grants /\ grants' = [grants EXCEPT ![g].revoked = TRUE]
        /\ reqs' = [reqs EXCEPT ![p] = ToAudit(<<"device_grant.revoke", g>>)]
    BY <1>2 DEF RevokeDeviceGrant, Starts
  <2>2. grants[g] \in GrantRow
    BY <2>1 DEF IInv, TablesOK, GrantsOK
  <2>3. g \in DOMAIN grants' /\ grants'[g].revoked
    BY <2>1, <2>2 DEF GrantRow
  <2>4. Happened(<<"device_grant.revoke", g>>)'
    BY <2>3 DEF Happened
  <2>5. Undisturbed(Claims(reqs[p]))
    BY <1>2 DEF RevokeDeviceGrant, Undisturbed
  <2>6. QED
    BY <2>1, <2>4, <2>5, AuditStep
<1>3. QED
  BY <1>1, <1>2 DEF GrantRequests

LEMMA AgentRequestsMove ==
  ASSUME IInv, NEW p \in Handlers, AgentRequests(p)
  PROVE  RequestsMove
<1>1. ASSUME NEW t \in Tokens, ValidateDeviceToken(p, t) PROVE RequestsMove
  <2>1. PICK r : r = [op |-> "validated", row |-> NoRow, device |-> tokens[t].device]
    OBVIOUS
  <2>2. tokens[t].device \in DOMAIN devices
    BY <1>1 DEF ValidateDeviceToken, IInv, TablesOK, TokensOK, TokenRow
  <2>3. Good(r) /\ Claims(r) = {}
    BY <2>1, <2>2 DEF Good, Claims
  <2>4. QED
    BY <1>1, <2>1, <2>3, ReadingStep DEF ValidateDeviceToken, Starts
<1>2. ASSUME CreateSessionReadsDevice(p) PROVE RequestsMove
  <2>1. PICK r : r = [op |-> "create session", row |-> NoRow, device |-> reqs[p].device]
    OBVIOUS
  <2>2. reqs[p].device \in DOMAIN devices
    BY <1>2, RequestForms DEF IInv, RequestsOK, CreateSessionReadsDevice, At
  <2>3. Good(r) /\ Claims(r) = {}
    BY <2>1, <2>2 DEF Good, Claims
  <2>4. QED
    BY <1>2, <2>1, <2>3, ReadingStep DEF CreateSessionReadsDevice, GoesOn
<1>3. ASSUME InsertsSession(p) PROVE RequestsMove
  BY <1>3, EndStep DEF InsertsSession, Undisturbed
<1>4. ASSUME NEW s \in Sessions, NEW report \in Reports, UpdateSession(p, s, report)
      PROVE  RequestsMove
  BY <1>4, EndStep DEF UpdateSession, Undisturbed
<1>5. ASSUME NEW s \in Sessions, NEW n \in Positions, NEW content \in Contents,
             AppendLocksSession(p, s, n, content)
      PROVE  RequestsMove
  <2>1. PICK r : r = [op |-> "append", row |-> s, position |-> n, content |-> content]
    OBVIOUS
  <2>2. Good(r) /\ Claims(r) = {s}
    BY <1>5, <2>1 DEF AppendLocksSession, Good, Claims
  <2>3. QED
    BY <1>5, <2>1, <2>2, ReadingStep DEF AppendLocksSession, GoesOn
<1>6. ASSUME AppendsChunk(p) PROVE RequestsMove
  BY <1>6, EndStep DEF AppendsChunk, Undisturbed
<1>7. QED
  BY <1>1, <1>2, <1>3, <1>4, <1>5, <1>6 DEF AgentRequests

LEMMA EveryRequestMove ==
  ASSUME IInv, [Next]_vars
  PROVE  RequestsMove
<1>1. ASSUME NEW p \in Handlers, Audits(p) PROVE RequestsMove
  BY <1>1, EndStep DEF Audits, Undisturbed
<1>2. ASSUME NEW p \in Handlers, Fails(p) PROVE RequestsMove
  BY <1>2, EndStep DEF Fails, tables, Undisturbed
<1>3. ASSUME MarkStaleDevices PROVE RequestsMove
  <2>1. UNCHANGED <<codes, reqs>>
    BY <1>3 DEF MarkStaleDevices
  <2>2. PICK d \in DOMAIN devices, status \in {"suspect_offline", "offline"} :
          devices' = [devices EXCEPT ![d].status = status]
    BY <1>3 DEF MarkStaleDevices
  <2>3. ASSUME NEW e \in DOMAIN devices, devices'[e].status = "disabled"
        PROVE  devices[e].status = "disabled"
    <3>1. devices[d] \in DeviceRow
      BY DEF IInv, TablesOK, DevicesOK
    <3>2. [devices[d] EXCEPT !.status = status].status = status
      BY <3>1 DEF DeviceRow
    <3>3. QED
      BY <2>2, <2>3, <3>2
  <2>4. QED
    BY <2>1, <2>3 DEF Undisturbed, RequestsMove
<1>4. CASE UNCHANGED vars
  BY <1>4 DEF vars, tables, Undisturbed, RequestsMove
<1>5. QED
  BY <1>1, <1>2, <1>3, <1>4, ClientRequestsMove, DeviceRequestsMove, GrantRequestsMove,
     AgentRequestsMove
  DEF Next

--------------------------------------------------------------------------------
(* The invariant. *)

LEMMA InvariantInitially == Init => IInv
<1> SUFFICES ASSUME Init PROVE IInv
  OBVIOUS
<1>1. /\ DOMAIN codes = {} /\ DOMAIN devices = {} /\ DOMAIN tokens = {} /\ DOMAIN clients = {}
      /\ DOMAIN replays = {} /\ DOMAIN grants = {} /\ DOMAIN sessions = {} /\ DOMAIN chunks = {}
      /\ audit = {}
  BY DEF Init
<1>2. grants = [g \in DOMAIN grants |-> grants[g]]
  BY DEF Init
<1>3. TablesOK
  BY <1>1, <1>2 DEF TablesOK, CodesOK, DevicesOK, TokensOK, ClientsOK, Answers, GrantsOK, SessionsOK,
     ChunksOK, AuditOK
<1>4. RequestsOK
  BY DEF Init, RequestsOK, Good, Exclusive, Claims, Idle
<1>5. left \in 0..MaxRequests
  BY MaxRequestsAssumption DEF Init
<1>6. QED
  BY <1>3, <1>4, <1>5 DEF IInv

LEMMA BudgetStep ==
  ASSUME left \in 0..MaxRequests, [Next]_vars
  PROVE  left' \in 0..MaxRequests
<1> DEFINE Spends == left' = left \/ (left > 0 /\ left' = left - 1)
<1>1. ASSUME NEW p \in Handlers, ClientRequests(p) PROVE Spends
  BY <1>1 DEF ClientRequests, RegisterReadsReplay, RegistersClient, UpdateClientInstance,
     LogoutClientInstance, MarkClientInstanceSeen, SetClient, Starts, Ends, GoesOn, Serves
<1>2. ASSUME NEW p \in Handlers, DeviceRequests(p) PROVE Spends
  BY <1>2 DEF DeviceRequests, ActivationReadsReplay, CreatesCode, AgentLocksCode, RegistersAgent,
     DisableLocksDevice, RotateLocksDevice, MarkDeviceSeen, Disables, Rotates, Starts, Ends, GoesOn,
     Serves
<1>3. ASSUME NEW p \in Handlers, GrantRequests(p) PROVE Spends
  BY <1>3 DEF GrantRequests, CreateDeviceGrant, RevokeDeviceGrant, Starts
<1>4. ASSUME NEW p \in Handlers, AgentRequests(p) PROVE Spends
  BY <1>4 DEF AgentRequests, ValidateDeviceToken, CreateSessionReadsDevice, InsertsSession,
     UpdateSession, AppendLocksSession, AppendsChunk, Starts, Ends, GoesOn
<1>5. ASSUME NEW p \in Handlers, Audits(p) \/ Fails(p) PROVE Spends
  BY <1>5 DEF Audits, Fails, Ends, GoesOn
<1>6. Spends
  BY <1>1, <1>2, <1>3, <1>4, <1>5 DEF Next, MarkStaleDevices, vars
<1>7. QED
  BY <1>6, MaxRequestsAssumption

LEMMA InvariantStays == IInv /\ [Next]_vars => IInv' /\ Grows
<1> SUFFICES ASSUME IInv, [Next]_vars PROVE IInv' /\ Grows
  OBVIOUS
<1>1. TablesOK' /\ Grows
  BY EveryMove, TablesStep DEF IInv
<1>2. RequestsOK'
  BY <1>1, EveryRequestMove, RequestsStep
<1>3. left' \in 0..MaxRequests
  BY BudgetStep DEF IInv
<1>4. QED
  BY <1>1, <1>2, <1>3 DEF IInv

LEMMA Invariant == Spec => []IInv
BY InvariantInitially, InvariantStays, PTL DEF Spec

--------------------------------------------------------------------------------
(* What follows from it. *)

\* Every row has the columns the statements write and refers to rows that exist.
THEOREM TypeCorrect == Spec => []TypeOK
<1>1. IInv => TypeOK
  BY DEF IInv, TablesOK, CodesOK, DevicesOK, TokensOK, ClientsOK, GrantsOK, SessionsOK, ChunksOK,
     DeviceRow, TokenRow, GrantRow, SessionRow, TypeOK
<1>2. QED
  BY Invariant, <1>1, PTL

\* However rotations, heartbeats, silences and a disabling come together, a device accepts one
\* token until it is disabled, and none from then on.
THEOREM OneTokenEach == Spec => []OneTokenUnlessDisabled
<1>1. IInv => OneTokenUnlessDisabled
  <2> SUFFICES ASSUME IInv, NEW d \in DOMAIN devices
               PROVE  Cardinality(ActiveTokens(d)) = IF devices[d].status = "disabled" THEN 0 ELSE 1
    BY DEF OneTokenUnlessDisabled
  <2>1. CASE devices[d].status = "disabled"
    <3>1. ActiveTokens(d) = {}
      BY <2>1 DEF IInv, TablesOK, TokensOK
    <3>2. QED
      BY <2>1, <3>1, FS_EmptySet
  <2>2. CASE devices[d].status # "disabled"
    <3>1. PICK t : ActiveTokens(d) = {t}
      BY <2>2 DEF IInv, TablesOK, TokensOK
    <3>2. QED
      BY <2>2, <3>1, FS_Singleton
  <2>3. QED
    BY <2>1, <2>2
<1>2. QED
  BY Invariant, <1>1, PTL

\* Of the requests that race with one key, one code or one grant, one leaves a row.
THEOREM OneRowEach == Spec => []RacesLeaveOneRow
<1>1. IInv => RacesLeaveOneRow
  BY DEF IInv, TablesOK, DevicesOK, GrantsOK, Answers, RacesLeaveOneRow
<1>2. QED
  BY Invariant, <1>1, PTL

\* The audit log tells of nothing that has not happened.
THEOREM AuditIsTrue == Spec => []AuditTellsWhatHappened
<1>1. IInv => AuditTellsWhatHappened
  <2> SUFFICES ASSUME IInv, NEW entry \in audit
               PROVE  CASE entry[1] = "device.disable" -> devices[entry[2]].status = "disabled"
                        [] entry[1] = "device_token.rotate" ->
                             \E t \in DOMAIN tokens :
                               tokens[t] = [device |-> entry[2], status |-> "rotated"]
                        [] entry[1] = "device_grant.create" -> entry[2] \in DOMAIN grants
                        [] entry[1] = "device_grant.revoke" -> grants[entry[2]].revoked
    BY DEF AuditTellsWhatHappened
  <2>1. Happened(entry)
    BY DEF IInv, TablesOK, AuditOK
  <2>2. CASE \E d \in DOMAIN devices :
               entry = <<"device.disable", d>> /\ devices[d].status = "disabled"
    BY <2>2
  <2>3. ASSUME NEW t \in DOMAIN tokens, entry = <<"device_token.rotate", tokens[t].device>>,
               tokens[t].status = "rotated"
        PROVE  /\ entry[1] = "device_token.rotate"
               /\ tokens[t] = [device |-> entry[2], status |-> "rotated"]
    BY <2>3 DEF IInv, TablesOK, TokensOK, TokenRow
  <2>4. CASE \E g \in DOMAIN grants : entry = <<"device_grant.create", g>>
    BY <2>4
  <2>5. CASE \E g \in DOMAIN grants : entry = <<"device_grant.revoke", g>> /\ grants[g].revoked
    BY <2>5
  <2>6. QED
    BY <2>1, <2>2, <2>3, <2>4, <2>5 DEF Happened
<1>2. QED
  BY Invariant, <1>1, PTL

\* No step takes back what the tables keep for good: disabled, used, retired, revoked,
\* ended_at that is set, and chunks.
THEOREM FinalStays == Spec => NothingComesBack
<1>1. IInv /\ [Next]_vars =>
        [/\ \A d \in DOMAIN devices :
              devices[d].status = "disabled" => devices'[d].status = "disabled"
         /\ \A c \in DOMAIN codes : codes[c] = "disabled" => codes'[c] = "disabled"
         /\ \A t \in DOMAIN tokens : tokens[t].status # "active" => tokens'[t] = tokens[t]
         /\ \A g \in DOMAIN grants : grants[g].revoked => grants'[g] = grants[g]
         /\ \A s \in DOMAIN sessions : sessions[s].ended => sessions'[s].ended
         /\ \A at \in DOMAIN chunks : chunks'[at] = chunks[at]]_vars
  BY InvariantStays DEF Grows
<1>2. QED
  BY Invariant, <1>1, PTL DEF Spec, NothingComesBack

--------------------------------------------------------------------------------
(* The tables implement the maps of the store in memory. *)

LEMMA SameFunction ==
  ASSUME NEW f, NEW g, f = [x \in DOMAIN f |-> f[x]], g = [x \in DOMAIN g |-> g[x]],
         \A x : x \in DOMAIN f <=> x \in DOMAIN g, \A x \in DOMAIN f : f[x] = g[x]
  PROVE  f = g
OBVIOUS

\* A device that is not disabled is mapped to its one active token.
LEMMA TokenMapForm ==
  TokensOK =>
    /\ TokenMap = [d \in DOMAIN TokenMap |-> TokenMap[d]]
    /\ \A d : d \in DOMAIN TokenMap <=> d \in DOMAIN devices /\ devices[d].status # "disabled"
    /\ \A d \in DOMAIN TokenMap : ActiveTokens(d) = {TokenMap[d]}
<1> SUFFICES ASSUME TokensOK
             PROVE  /\ TokenMap = [d \in DOMAIN TokenMap |-> TokenMap[d]]
                    /\ \A d : d \in DOMAIN TokenMap <=>
                                d \in DOMAIN devices /\ devices[d].status # "disabled"
                    /\ \A d \in DOMAIN TokenMap : ActiveTokens(d) = {TokenMap[d]}
  OBVIOUS
<1>1. TokenMap = [d \in DOMAIN TokenMap |-> TokenMap[d]]
  BY DEF TokenMap
<1>2. \A d : d \in DOMAIN TokenMap <=> d \in DOMAIN devices /\ devices[d].status # "disabled"
  <2>1. \A d : d \in DOMAIN TokenMap <=> d \in DOMAIN devices /\ ActiveTokens(d) # {}
    BY DEF TokenMap
  <2>2. \A d \in DOMAIN devices : ActiveTokens(d) # {} <=> devices[d].status # "disabled"
    BY DEF TokensOK
  <2>3. QED
    BY <2>1, <2>2
<1>3. ASSUME NEW d \in DOMAIN TokenMap PROVE ActiveTokens(d) = {TokenMap[d]}
  <2>1. d \in DOMAIN devices /\ ActiveTokens(d) # {} /\ TokenMap[d] = TheToken(d)
    BY DEF TokenMap
  <2>2. PICK t : ActiveTokens(d) = {t}
    BY <2>1 DEF TokensOK
  <2>3. TheToken(d) = t
    BY <2>2 DEF TheToken
  <2>4. QED
    BY <2>1, <2>2, <2>3
<1>4. QED
  BY <1>1, <1>2, <1>3

LEMMA TokenMapFormNext ==
  TokensOK' =>
    /\ TokenMap' = [d \in DOMAIN TokenMap' |-> TokenMap'[d]]
    /\ \A d : d \in DOMAIN TokenMap' <=> d \in DOMAIN devices' /\ devices'[d].status # "disabled"
    /\ \A d \in DOMAIN TokenMap' : ActiveTokens(d)' = {TokenMap'[d]}
<1>1. TokensOK' =>
    (/\ TokenMap = [d \in DOMAIN TokenMap |-> TokenMap[d]]
     /\ \A d : d \in DOMAIN TokenMap <=> d \in DOMAIN devices /\ devices[d].status # "disabled"
     /\ \A d \in DOMAIN TokenMap : ActiveTokens(d) = {TokenMap[d]})'
  BY TokenMapForm, PTL
<1>2. QED
  BY <1>1

\* A token that is drawn is accepted by no device.
LEMMA FreshToken ==
  ASSUME TokensOK, NEW t \in Tokens \ DOMAIN tokens
  PROVE  t \in Tokens \ Registry!Range(TokenMap)
<1>1. \A d \in DOMAIN TokenMap : TokenMap[d] \in DOMAIN tokens
  BY TokenMapForm, ActiveForm
<1>2. QED
  BY <1>1 DEF Registry!Range

LEMMA StatusMapForm ==
  /\ DOMAIN DeviceMap = DOMAIN devices /\ DeviceMap = [d \in DOMAIN DeviceMap |-> DeviceMap[d]]
  /\ \A d \in DOMAIN devices : DeviceMap[d] = devices[d].status
  /\ DOMAIN DeviceMap' = DOMAIN devices' /\ DeviceMap' = [d \in DOMAIN DeviceMap' |-> DeviceMap'[d]]
  /\ \A d \in DOMAIN devices' : DeviceMap'[d] = devices'[d].status
BY DEF DeviceMap

LEMMA MapsStay ==
  /\ UNCHANGED codes => UNCHANGED CodeMap
  /\ UNCHANGED devices => UNCHANGED DeviceMap
  /\ UNCHANGED <<devices, tokens>> => UNCHANGED TokenMap
  /\ UNCHANGED grants => UNCHANGED GrantSet
BY DEF CodeMap, DeviceMap, TokenMap, TheToken, ActiveTokens, GrantSet

LEMMA ClientRefines ==
  ASSUME NEW key \in Keys, NEW c \in Clients, MakesClient(key, c)
  PROVE  Registry!Next
<1>1. UNCHANGED <<CodeMap, DeviceMap, TokenMap, GrantSet>>
  BY MapsStay DEF MakesClient
<1>2. Registry!RegisterClientInstance(key, c)
  BY <1>1 DEF MakesClient, Answered, Put, Registry!RegisterClientInstance, Registry!Put
<1>3. QED
  BY <1>2 DEF Registry!Next

LEMMA ClientStatusRefines ==
  ASSUME NEW c \in Clients, NEW status, SetsClient(c, status)
  PROVE  Registry!Next
<1>1. UNCHANGED <<CodeMap, DeviceMap, TokenMap, GrantSet>>
  BY MapsStay DEF SetsClient
<1>2. Registry!SetClient(c, status) /\ status \in {"active", "offline"}
  BY <1>1 DEF SetsClient, Registry!SetClient
<1>3. QED
  BY <1>2 DEF Registry!Next, Registry!UpdateClientInstance, Registry!LogoutClientInstance

LEMMA CodeRefines ==
  ASSUME NEW key \in Keys, NEW c \in Codes, MakesCode(key, c)
  PROVE  Registry!Next
<1>1. UNCHANGED <<DeviceMap, TokenMap, GrantSet>>
  BY MapsStay DEF MakesCode
<1>2. c \notin DOMAIN CodeMap /\ CodeMap' = Registry!Put(CodeMap, c, FALSE)
  <2>1. c \notin DOMAIN codes /\ codes' = Put(codes, c, "active")
    BY DEF MakesCode
  <2>2. /\ DOMAIN codes' = DOMAIN codes \cup {c} /\ codes'[c] = "active"
        /\ \A y \in DOMAIN codes : codes'[y] = codes[y]
    BY <2>1 DEF Put
  <2>3. QED
    BY <2>1, <2>2 DEF CodeMap, Registry!Put
<1>3. Registry!CreateActivationCode(key, c)
  BY <1>1, <1>2 DEF MakesCode, Answered, Put, Registry!CreateActivationCode, Registry!Put
<1>4. QED
  BY <1>3 DEF Registry!Next

LEMMA AgentRefines ==
  ASSUME TablesOK, TablesOK', NEW c \in Codes, NEW d \in Devices, NEW t \in Tokens,
         MakesAgent(c, d, t)
  PROVE  Registry!Next
<1> DEFINE row == [status |-> "active", code |-> c]
           token == [device |-> d, status |-> "active"]
<1>1. /\ UNCHANGED <<clients, replays, grants>>
      /\ c \in DOMAIN codes /\ codes[c] = "active" /\ codes' = [codes EXCEPT ![c] = "disabled"]
      /\ d \notin DOMAIN devices /\ t \notin DOMAIN tokens
  BY DEF MakesAgent
<1>2. row.status = "active" /\ token.device = d /\ token.status = "active"
  OBVIOUS
<1>3. devices' = Put(devices, d, row) /\ tokens' = Put(tokens, t, token)
  BY DEF MakesAgent
<1> HIDE DEF row, token
<1>4. /\ DOMAIN devices' = DOMAIN devices \cup {d} /\ devices'[d].status = "active"
      /\ \A y \in DOMAIN devices : devices'[y] = devices[y]
  BY <1>1, <1>2, <1>3 DEF Put
<1>5. /\ DOMAIN tokens' = DOMAIN tokens \cup {t} /\ tokens'[t] = token
      /\ \A y \in DOMAIN tokens : tokens'[y] = tokens[y]
  BY <1>1, <1>3 DEF Put
<1>6. CodeMap' = [CodeMap EXCEPT ![c] = TRUE] /\ c \in DOMAIN CodeMap /\ ~ CodeMap[c]
  BY <1>1 DEF CodeMap
<1>7. DeviceMap' = Registry!Put(DeviceMap, d, "active") /\ d \notin DOMAIN DeviceMap
  <2>1. PICK f : f = Registry!Put(DeviceMap, d, "active")
    OBVIOUS
  <2>2. /\ f = [x \in DOMAIN f |-> f[x]] /\ DOMAIN f = DOMAIN DeviceMap \cup {d}
        /\ f[d] = "active" /\ \A x \in DOMAIN DeviceMap : x # d => f[x] = DeviceMap[x]
    BY <2>1 DEF Registry!Put
  <2>3. \A x \in DOMAIN f : f[x] = DeviceMap'[x]
    BY <1>1, <1>4, <2>2, StatusMapForm
  <2>4. QED
    BY <1>1, <1>4, <2>1, <2>2, <2>3, StatusMapForm, SameFunction
<1>8. TokenMap' = Registry!Put(TokenMap, d, t)
  <2>1. PICK f : f = Registry!Put(TokenMap, d, t)
    OBVIOUS
  <2>2. /\ f = [x \in DOMAIN f |-> f[x]] /\ DOMAIN f = DOMAIN TokenMap \cup {d}
        /\ f[d] = t /\ \A x \in DOMAIN TokenMap : x # d => f[x] = TokenMap[x]
    BY <2>1 DEF Registry!Put
  <2>3. \A x : x \in DOMAIN f <=> x \in DOMAIN TokenMap'
    BY <1>4, <2>2, TokenMapForm, TokenMapFormNext DEF TablesOK
  <2>4. d \notin DOMAIN TokenMap
    BY <1>1, TokenMapForm DEF TablesOK
  <2>5. t \in ActiveTokens(d)'
    BY <1>2, <1>5 DEF ActiveTokens
  <2>6. ASSUME NEW e \in DOMAIN TokenMap PROVE TokenMap[e] \in ActiveTokens(e)'
    <3>1. TokenMap[e] \in ActiveTokens(e)
      BY TokenMapForm DEF TablesOK
    <3>2. QED
      BY <1>5, <3>1 DEF ActiveTokens
  <2>7. \A x \in DOMAIN f : f[x] = TokenMap'[x]
    BY <2>2, <2>3, <2>4, <2>5, <2>6, TokenMapFormNext DEF TablesOK
  <2>8. QED
    BY <2>1, <2>2, <2>3, <2>7, TokenMapFormNext, SameFunction DEF TablesOK
<1>9. t \in Tokens \ Registry!Range(TokenMap)
  BY <1>1, FreshToken DEF TablesOK
<1>10. UNCHANGED GrantSet
  BY <1>1, MapsStay
<1>11. Registry!RegisterAgent(c, d, t)
  BY <1>1, <1>6, <1>7, <1>8, <1>9, <1>10 DEF Registry!RegisterAgent
<1>12. QED
  BY <1>11 DEF Registry!Next

\* The statuses of two states that differ in that of one device.
LEMMA OneStatusChanges ==
  ASSUME NEW d \in DOMAIN devices, NEW status, TablesOK,
         devices' = [devices EXCEPT ![d].status = status]
  PROVE  DeviceMap' = [DeviceMap EXCEPT ![d] = status]
<1>1. devices[d] \in DeviceRow
  BY DEF TablesOK, DevicesOK
<1>2. PICK row : row = [devices[d] EXCEPT !.status = status]
  OBVIOUS
<1>3. row.status = status
  BY <1>1, <1>2 DEF DeviceRow
<1>4. devices' = [devices EXCEPT ![d] = row]
  BY <1>2
<1>5. PICK f : f = [DeviceMap EXCEPT ![d] = status]
  OBVIOUS
<1>6. /\ f = [x \in DOMAIN f |-> f[x]] /\ DOMAIN f = DOMAIN devices
      /\ f[d] = status /\ \A x \in DOMAIN devices : x # d => f[x] = devices[x].status
  BY <1>5, StatusMapForm
<1>7. \A x \in DOMAIN f : f[x] = DeviceMap'[x]
  BY <1>3, <1>4, <1>6, StatusMapForm
<1>8. QED
  BY <1>4, <1>5, <1>6, <1>7, StatusMapForm, SameFunction

LEMMA DisableRefines ==
  ASSUME TablesOK, TablesOK', NEW d \in Devices, DisablesDevice(d)
  PROVE  Registry!Next
<1>1. /\ UNCHANGED <<codes, clients, replays, grants>>
      /\ d \in DOMAIN devices /\ devices' = [devices EXCEPT ![d].status = "disabled"]
      /\ tokens' = Retired(d, "revoked")
  BY DEF DisablesDevice
<1>2. DeviceMap' = [DeviceMap EXCEPT ![d] = "disabled"] /\ d \in DOMAIN DeviceMap
  BY <1>1, OneStatusChanges, StatusMapForm
<1>3. /\ DOMAIN devices' = DOMAIN devices /\ devices'[d].status = "disabled"
      /\ \A e \in DOMAIN devices : e # d => devices'[e] = devices[e]
  <2>1. devices[d] \in DeviceRow
    BY <1>1 DEF TablesOK, DevicesOK
  <2>2. QED
    BY <1>1, <2>1 DEF DeviceRow
<1>4. TokenMap' = Registry!Restrict(TokenMap, DOMAIN TokenMap \ {d})
  <2>1. PICK f : f = Registry!Restrict(TokenMap, DOMAIN TokenMap \ {d})
    OBVIOUS
  <2>2. /\ f = [x \in DOMAIN f |-> f[x]] /\ DOMAIN f = DOMAIN TokenMap \ {d}
        /\ \A x \in DOMAIN f : f[x] = TokenMap[x]
    BY <2>1 DEF Registry!Restrict
  <2>3. \A x : x \in DOMAIN f <=> x \in DOMAIN TokenMap'
    BY <1>3, <2>2, TokenMapForm, TokenMapFormNext DEF TablesOK
  <2>4. ASSUME NEW e \in DOMAIN f PROVE TokenMap[e] \in ActiveTokens(e)'
    <3>1. TokenMap[e] \in ActiveTokens(e) /\ e # d
      BY <2>2, TokenMapForm DEF TablesOK
    <3>2. TokenMap[e] \in DOMAIN tokens /\ TokenMap[e] \notin ActiveTokens(d)
      BY <3>1, ActiveForm
    <3>3. TokenMap[e] \in DOMAIN tokens' /\ tokens'[TokenMap[e]] = tokens[TokenMap[e]]
      BY <1>1, <3>2, RetiredForm
    <3>4. QED
      BY <3>1, <3>3 DEF ActiveTokens
  <2>5. \A x \in DOMAIN f : f[x] = TokenMap'[x]
    BY <2>2, <2>3, <2>4, TokenMapFormNext DEF TablesOK
  <2>6. QED
    BY <2>1, <2>2, <2>3, <2>5, TokenMapFormNext, SameFunction DEF TablesOK
<1>5. UNCHANGED <<CodeMap, GrantSet>>
  BY <1>1, MapsStay
<1>6. Registry!DisableDevice(d)
  BY <1>1, <1>2, <1>4, <1>5 DEF Registry!DisableDevice
<1>7. QED
  BY <1>6 DEF Registry!Next

LEMMA RotateRefines ==
  ASSUME TablesOK, TablesOK', NEW d \in Devices, NEW t \in Tokens, RotatesToken(d, t)
  PROVE  Registry!Next
<1> DEFINE new == [device |-> d, status |-> "active"]
<1>1. /\ UNCHANGED <<codes, devices, clients, replays, grants>>
      /\ d \in DOMAIN devices /\ devices[d].status # "disabled" /\ t \notin DOMAIN tokens
      /\ tokens' = Put(Retired(d, "rotated"), t, new) /\ new.device = d /\ new.status = "active"
  BY DEF RotatesToken
<1> HIDE DEF new
<1>2. /\ DOMAIN tokens' = DOMAIN tokens \cup {t} /\ tokens'[t] = new
      /\ \A y \in DOMAIN tokens : y \notin ActiveTokens(d) => tokens'[y] = tokens[y]
  <2>1. PICK old : old = Retired(d, "rotated")
    OBVIOUS
  <2>2. /\ DOMAIN tokens' = DOMAIN old \cup {t} /\ tokens'[t] = new
        /\ \A y \in DOMAIN old : y # t => tokens'[y] = old[y]
    BY <1>1, <2>1 DEF Put
  <2>3. /\ DOMAIN old = DOMAIN tokens
        /\ \A y \in DOMAIN tokens : y \notin ActiveTokens(d) => old[y] = tokens[y]
    BY <2>1, RetiredForm
  <2>4. QED
    BY <1>1, <2>2, <2>3
<1>3. TokenMap' = Registry!Put(TokenMap, d, t)
  <2>1. PICK f : f = Registry!Put(TokenMap, d, t)
    OBVIOUS
  <2>2. /\ f = [x \in DOMAIN f |-> f[x]] /\ DOMAIN f = DOMAIN TokenMap \cup {d}
        /\ f[d] = t /\ \A x \in DOMAIN TokenMap : x # d => f[x] = TokenMap[x]
    BY <2>1 DEF Registry!Put
  <2>3. \A x : x \in DOMAIN f <=> x \in DOMAIN TokenMap'
    BY <1>1, <2>2, TokenMapForm, TokenMapFormNext DEF TablesOK
  <2>4. t \in ActiveTokens(d)'
    BY <1>1, <1>2 DEF ActiveTokens
  <2>5. ASSUME NEW e \in DOMAIN TokenMap, e # d PROVE TokenMap[e] \in ActiveTokens(e)'
    <3>1. TokenMap[e] \in ActiveTokens(e)
      BY TokenMapForm DEF TablesOK
    <3>2. TokenMap[e] \in DOMAIN tokens /\ TokenMap[e] \notin ActiveTokens(d)
      BY <2>5, <3>1, ActiveForm
    <3>3. QED
      BY <1>2, <3>1, <3>2 DEF ActiveTokens
  <2>6. \A x \in DOMAIN f : f[x] = TokenMap'[x]
    BY <2>2, <2>3, <2>4, <2>5, TokenMapFormNext DEF TablesOK
  <2>7. QED
    BY <2>1, <2>2, <2>3, <2>6, TokenMapFormNext, SameFunction DEF TablesOK
<1>4. t \in Tokens \ Registry!Range(TokenMap)
  BY <1>1, FreshToken DEF TablesOK
<1>5. UNCHANGED <<CodeMap, DeviceMap, GrantSet>> /\ d \in DOMAIN DeviceMap /\ DeviceMap[d] # "disabled"
  BY <1>1, MapsStay, StatusMapForm
<1>6. Registry!RotateDeviceToken(d, t)
  BY <1>1, <1>3, <1>4, <1>5 DEF Registry!RotateDeviceToken
<1>7. QED
  BY <1>6 DEF Registry!Next

\* A device heard of, or found silent: the token it accepts stays.
LEMMA StatusRefines ==
  ASSUME TablesOK, TablesOK', NEW d \in Devices, NEW status, SetsStatus(d, status)
  PROVE  Registry!Next
<1>1. /\ UNCHANGED <<codes, tokens, clients, replays, grants>>
      /\ d \in DOMAIN devices /\ devices' = [devices EXCEPT ![d].status = status]
      /\ devices[d].status # "disabled" /\ status # "disabled"
  BY DEF SetsStatus
<1>2. /\ DeviceMap' = [DeviceMap EXCEPT ![d] = status] /\ d \in DOMAIN DeviceMap
      /\ DeviceMap[d] = devices[d].status
  BY <1>1, OneStatusChanges, StatusMapForm
<1>3. \A e : e \in DOMAIN TokenMap <=> e \in DOMAIN TokenMap'
  <2>1. DeviceMap'[d] = status
    BY <1>2
  <2>2. \A e \in DOMAIN devices : devices'[e].status = "disabled" <=> devices[e].status = "disabled"
    BY <1>1, <2>1, StatusMapForm
  <2>3. QED
    BY <1>1, <2>2, TokenMapForm, TokenMapFormNext DEF TablesOK
<1>4. UNCHANGED TokenMap
  <2>1. \A e : ActiveTokens(e)' = ActiveTokens(e)
    BY <1>1 DEF ActiveTokens
  <2>2. \A e \in DOMAIN TokenMap : TokenMap[e] = TokenMap'[e]
    BY <1>3, <2>1, TokenMapForm, TokenMapFormNext DEF TablesOK
  <2>3. QED
    BY <1>3, <2>2, TokenMapForm, TokenMapFormNext, SameFunction DEF TablesOK
<1>5. UNCHANGED <<CodeMap, GrantSet>>
  BY <1>1, MapsStay
<1>6. CASE status = "active"
  <2>1. Registry!MarkDeviceSeen(d)
    BY <1>1, <1>2, <1>4, <1>5, <1>6 DEF Registry!MarkDeviceSeen
  <2>2. QED
    BY <2>1 DEF Registry!Next
<1>7. CASE status # "active"
  <2>1. /\ status \in {"suspect_offline", "offline"}
        /\ DeviceMap[d] \in {"active", "suspect_offline"} \ {status}
    BY <1>2, <1>7 DEF SetsStatus
  <2>2. PICK stale : stale = [DeviceMap EXCEPT ![d] = status]
    OBVIOUS
  <2>3. \A e \in DOMAIN DeviceMap :
          DeviceMap[e] \in {"active", "suspect_offline", "offline", "disabled"}
    BY StatusMapForm DEF TablesOK, DevicesOK, DeviceRow, DeviceStatus
  <2>4. stale \in [DOMAIN DeviceMap -> {"active", "suspect_offline", "offline", "disabled"}]
    BY <2>1, <2>2, <2>3, StatusMapForm
  <2>5. ASSUME NEW e \in DOMAIN DeviceMap PROVE stale[e] \in Registry!Staler(DeviceMap[e])
    <3>1. CASE e = d
      BY <1>2, <2>1, <2>2, <3>1 DEF Registry!Staler
    <3>2. CASE e # d
      BY <2>2, <2>3, <3>2 DEF Registry!Staler
    <3>3. QED
      BY <3>1, <3>2
  <2>6. Registry!MarkStaleDevices
    BY <1>1, <1>2, <1>4, <1>5, <2>2, <2>4, <2>5 DEF Registry!MarkStaleDevices
  <2>7. QED
    BY <2>6 DEF Registry!Next
<1>8. QED
  BY <1>6, <1>7

LEMMA GrantRefines ==
  ASSUME TablesOK, NEW g, NEW d \in Devices, NEW u \in Users, NEW permission \in Permissions,
         MakesGrant(g, d, u, permission)
  PROVE  Registry!Next
<1> DEFINE new == [device |-> d, user |-> u, permission |-> permission, revoked |-> FALSE]
<1>1. /\ UNCHANGED <<codes, devices, tokens, clients, replays>>
      /\ d \in DOMAIN devices /\ g \notin DOMAIN grants /\ grants' = Put(grants, g, new)
  BY DEF MakesGrant
<1>2. new.device = d /\ new.user = u /\ new.permission = permission /\ ~ new.revoked
  OBVIOUS
<1> HIDE DEF new
<1>3. /\ DOMAIN grants' = DOMAIN grants \cup {g} /\ grants'[g] = new
      /\ \A h \in DOMAIN grants : grants'[h] = grants[h]
  BY <1>1 DEF Put
<1>4. GrantSet' = GrantSet \cup {<<d, u, permission>>}
  BY <1>2, <1>3 DEF GrantSet
<1>5. UNCHANGED <<CodeMap, DeviceMap, TokenMap>> /\ d \in DOMAIN DeviceMap
  BY <1>1, MapsStay, StatusMapForm
<1>6. Registry!CreateDeviceGrant(d, u, permission)
  BY <1>1, <1>4, <1>5 DEF Registry!CreateDeviceGrant
<1>7. QED
  BY <1>6 DEF Registry!Next

\* A grant in force has a row of its own, so revoking that row takes the grant away.
LEMMA RevokeRefines ==
  ASSUME TablesOK, NEW g, RevokesGrant(g)
  PROVE  Registry!Next \/ UNCHANGED Registry!vars
<1>1. /\ UNCHANGED <<codes, devices, tokens, clients, replays>>
      /\ g \in DOMAIN grants /\ grants' = [grants EXCEPT ![g].revoked = TRUE]
  BY DEF RevokesGrant
<1>2. UNCHANGED <<CodeMap, DeviceMap, TokenMap>>
  BY <1>1, MapsStay
<1>3. PICK row \in GrantRow : row = grants[g]
  BY <1>1 DEF TablesOK, GrantsOK
<1>4. PICK new : new = [row EXCEPT !.revoked = TRUE]
  OBVIOUS
<1>5. new.revoked /\ (row.revoked => new = row)
  BY <1>3, <1>4 DEF GrantRow
<1>6. /\ DOMAIN grants' = DOMAIN grants /\ grants'[g] = new
      /\ \A h \in DOMAIN grants : h # g => grants'[h] = grants[h]
  BY <1>1, <1>3, <1>4
<1>7. CASE row.revoked
  <2>1. GrantSet' = GrantSet
    BY <1>3, <1>5, <1>6, <1>7 DEF GrantSet
  <2>2. QED
    BY <1>1, <1>2, <2>1 DEF Registry!vars
<1>8. CASE ~ row.revoked
  <2>1. PICK grant : grant = <<row.device, row.user, row.permission>>
    OBVIOUS
  <2>2. grant \in GrantSet
    BY <1>1, <1>3, <1>8, <2>1 DEF GrantSet
  <2>3. ASSUME NEW h \in DOMAIN grants, h # g, ~ grants[h].revoked
        PROVE  <<grants[h].device, grants[h].user, grants[h].permission>> # grant
    <3>1. PICK other \in GrantRow : other = grants[h]
      BY DEF TablesOK, GrantsOK
    <3>2. other # row /\ ~ other.revoked
      BY <1>1, <1>3, <2>3, <3>1 DEF TablesOK, GrantsOK
    <3>3. \/ other.device # row.device \/ other.user # row.user
          \/ other.permission # row.permission
      BY <1>3, <1>8, <3>1, <3>2 DEF GrantRow
    <3>4. QED
      BY <2>1, <3>1, <3>3
  <2>4. GrantSet' = GrantSet \ {grant}
    BY <1>1, <1>3, <1>5, <1>6, <1>8, <2>1, <2>3 DEF GrantSet
  <2>5. Registry!RevokeDeviceGrant(grant)
    BY <1>1, <1>2, <2>2, <2>4 DEF Registry!RevokeDeviceGrant
  <2>6. QED
    BY <2>2, <2>5 DEF Registry!Next
<1>9. QED
  BY <1>7, <1>8

LEMMA MoveRefines ==
  ASSUME TablesOK, TablesOK', TablesMove
  PROVE  Registry!Next \/ UNCHANGED Registry!vars
<1>1. ASSUME UNCHANGED <<codes, devices, tokens, clients, replays, grants>>
      PROVE  UNCHANGED Registry!vars
  BY <1>1, MapsStay DEF Registry!vars
<1>2. ASSUME \/ UNCHANGED tables
             \/ \E s \in Sessions, d \in Devices : MakesSession(s, d)
             \/ \E s \in DOMAIN sessions, report \in Reports : ReportsSession(s, report)
             \/ \E s \in DOMAIN sessions, n \in Positions, content \in Contents :
                  MakesChunk(s, n, content)
             \/ \E entry : TellsAudit(entry)
      PROVE  UNCHANGED Registry!vars
  <2>1. UNCHANGED <<codes, devices, tokens, clients, replays, grants>>
    BY <1>2 DEF tables, MakesSession, ReportsSession, MakesChunk, TellsAudit
  <2>2. QED
    BY <1>1, <2>1
<1>3. QED
  BY <1>2, ClientRefines, ClientStatusRefines, CodeRefines, AgentRefines, DisableRefines,
     RotateRefines, StatusRefines, GrantRefines, RevokeRefines
  DEF TablesMove

\* The two stores the server can be started with keep the same registry: every commit of the
\* transactions is an operation of the store in memory, or leaves its maps alone.
THEOREM TablesImplementRegistry == Spec => ImplementsRegistry
<1>1. Init => Registry!Init
  <2> SUFFICES ASSUME Init PROVE Registry!Init
    OBVIOUS
  <2>1. CodeMap = << >> /\ DeviceMap = << >> /\ TokenMap = << >> /\ GrantSet = {}
    BY DEF Init, CodeMap, DeviceMap, TokenMap, GrantSet
  <2>2. QED
    BY <2>1 DEF Init, Registry!Init
<1>2. IInv /\ [Next]_vars => [Registry!Next]_(Registry!vars)
  <2> SUFFICES ASSUME IInv, [Next]_vars PROVE Registry!Next \/ UNCHANGED Registry!vars
    OBVIOUS
  <2>1. TablesMove /\ TablesOK
    BY EveryMove DEF IInv
  <2>2. TablesOK'
    BY <2>1, TablesStep
  <2>3. QED
    BY <2>1, <2>2, MoveRefines
<1>3. QED
  BY <1>1, <1>2, Invariant, PTL DEF Spec, ImplementsRegistry, Registry!Spec

--------------------------------------------------------------------------------
(* The store in memory, in variables of its own: any behaviour of DeviceRegistry, whether or
   not it is the image of one of the tables. *)

VARIABLES memCodes, memDevices, memTokens, memClients, memGrants, memReplays

Memory == INSTANCE DeviceRegistry WITH
  codes <- memCodes, devices <- memDevices, tokens <- memTokens, clients <- memClients,
  grants <- memGrants, replays <- memReplays

\* Every part of what is claimed of the maps, taken together, is inductive.
MemoryOK == Memory!TypeOK /\ Memory!TokensFollowStatus /\ Memory!RepliesNameWhatWasMade

-------------------------------------------------------------------------------
(* Lemmas about the maps. *)

\* A token that no device accepts is in no entry.
LEMMA UnusedToken ==
  ASSUME NEW t \in Tokens \ Memory!Range(memTokens)
  PROVE  \A d \in DOMAIN memTokens : memTokens[d] # t
BY DEF Memory!Range

\* Silence never makes a device accept what it did not.
LEMMA StalerForm ==
  ASSUME NEW status \in DeviceStatus, NEW stale \in Memory!Staler(status)
  PROVE  stale \in DeviceStatus /\ (stale = "disabled" <=> status = "disabled")
BY DEF Memory!Staler, DeviceStatus

-------------------------------------------------------------------------------
(* Clients and codes: devices and tokens stay as they are. *)

LEMMA RegisterClientInstanceStep ==
  ASSUME MemoryOK, NEW key \in Keys, NEW c \in Clients, Memory!RegisterClientInstance(key, c)
  PROVE  MemoryOK'
<1> DEFINE x == <<"client", key>>
<1>1. /\ x \notin DOMAIN memReplays /\ c \notin DOMAIN memClients
      /\ memClients' = Memory!Put(memClients, c, "active") /\ memReplays' = Memory!Put(memReplays, x, c)
      /\ UNCHANGED <<memCodes, memDevices, memTokens, memGrants>>
  BY DEF Memory!RegisterClientInstance
<1>2. /\ DOMAIN memClients' = DOMAIN memClients \cup {c} /\ memClients'[c] = "active"
      /\ \A y \in DOMAIN memClients : memClients'[y] = memClients[y]
      /\ DOMAIN memReplays' = DOMAIN memReplays \cup {x} /\ memReplays'[x] = c
      /\ \A y \in DOMAIN memReplays : memReplays'[y] = memReplays[y]
  <2>1. /\ DOMAIN memClients' = DOMAIN memClients \cup {c} /\ memClients'[c] = "active"
        /\ \A y \in DOMAIN memClients : memClients'[y] = memClients[y]
    BY <1>1 DEF Memory!Put
  <2>2. /\ DOMAIN memReplays' = DOMAIN memReplays \cup {x} /\ memReplays'[x] = c
        /\ \A y \in DOMAIN memReplays : memReplays'[y] = memReplays[y]
    <3> HIDE DEF x
    <3>1. QED
      BY <1>1 DEF Memory!Put
  <2>3. QED
    BY <2>1, <2>2
<1>3. x \in {"client", "activation"} \X Keys /\ x[1] = "client"
  OBVIOUS
<1>4. Memory!TypeOK'
  <2>1. /\ DOMAIN memClients' \subseteq Clients
        /\ DOMAIN memReplays' \subseteq {"client", "activation"} \X Keys
    BY <1>2, <1>3 DEF MemoryOK, Memory!TypeOK
  <2>2. \A y \in DOMAIN memClients' : memClients'[y] \in {"active", "offline"}
    BY <1>2 DEF MemoryOK, Memory!TypeOK
  <2>3. QED
    BY <1>1, <2>1, <2>2 DEF MemoryOK, Memory!TypeOK
<1>5. Memory!TokensFollowStatus'
  BY <1>1 DEF MemoryOK, Memory!TokensFollowStatus
<1>6. Memory!RepliesNameWhatWasMade'
  <2>1. \A y \in DOMAIN memReplays' :
          memReplays'[y] \in IF y[1] = "client" THEN DOMAIN memClients' ELSE DOMAIN memCodes'
    BY <1>1, <1>2, <1>3 DEF MemoryOK, Memory!RepliesNameWhatWasMade
  <2>2. \A d \in DOMAIN memCodes' : \E k \in Keys :
          <<"activation", k>> \in DOMAIN memReplays' /\ memReplays'[<<"activation", k>>] = d
    <3> SUFFICES ASSUME NEW d \in DOMAIN memCodes
                 PROVE  \E k \in Keys : <<"activation", k>> \in DOMAIN memReplays'
                                      /\ memReplays'[<<"activation", k>>] = d
      BY <1>1
    <3>1. PICK k \in Keys : <<"activation", k>> \in DOMAIN memReplays
                           /\ memReplays[<<"activation", k>>] = d
      BY DEF MemoryOK, Memory!RepliesNameWhatWasMade
    <3>2. <<"activation", k>> \in DOMAIN memReplays' /\ memReplays'[<<"activation", k>>] = d
      BY <1>2, <3>1
    <3>3. QED
      BY <3>2
  <2>3. \A d \in DOMAIN memClients' : \E k \in Keys :
          <<"client", k>> \in DOMAIN memReplays' /\ memReplays'[<<"client", k>>] = d
    <3> SUFFICES ASSUME NEW d \in DOMAIN memClients'
                 PROVE  \E k \in Keys : <<"client", k>> \in DOMAIN memReplays'
                                      /\ memReplays'[<<"client", k>>] = d
      OBVIOUS
    <3>1. CASE d = c
      <4>1. <<"client", key>> \in DOMAIN memReplays' /\ memReplays'[<<"client", key>>] = d
        BY <1>2, <3>1
      <4>2. QED
        BY <4>1
    <3>2. CASE d # c
      <4>1. d \in DOMAIN memClients
        BY <1>2, <3>2
      <4>2. PICK k \in Keys : <<"client", k>> \in DOMAIN memReplays /\ memReplays[<<"client", k>>] = d
        BY <4>1 DEF MemoryOK, Memory!RepliesNameWhatWasMade
      <4>3. <<"client", k>> \in DOMAIN memReplays' /\ memReplays'[<<"client", k>>] = d
        BY <1>2, <4>2
      <4>4. QED
        BY <4>3
    <3>3. QED
      BY <3>1, <3>2
  <2>4. \A y, z \in DOMAIN memReplays' : y[1] = z[1] /\ memReplays'[y] = memReplays'[z] => y = z
    BY <1>1, <1>2, <1>3 DEF MemoryOK, Memory!RepliesNameWhatWasMade
  <2>5. QED
    BY <2>1, <2>2, <2>3, <2>4 DEF Memory!RepliesNameWhatWasMade
<1>7. QED
  BY <1>4, <1>5, <1>6 DEF MemoryOK

LEMMA CreateActivationCodeStep ==
  ASSUME MemoryOK, NEW key \in Keys, NEW c \in Codes, Memory!CreateActivationCode(key, c)
  PROVE  MemoryOK'
<1> DEFINE x == <<"activation", key>>
<1>1. /\ x \notin DOMAIN memReplays /\ c \notin DOMAIN memCodes
      /\ memCodes' = Memory!Put(memCodes, c, FALSE) /\ memReplays' = Memory!Put(memReplays, x, c)
      /\ UNCHANGED <<memClients, memDevices, memTokens, memGrants>>
  BY DEF Memory!CreateActivationCode
<1>2. /\ DOMAIN memCodes' = DOMAIN memCodes \cup {c} /\ memCodes'[c] = FALSE
      /\ \A y \in DOMAIN memCodes : memCodes'[y] = memCodes[y]
      /\ DOMAIN memReplays' = DOMAIN memReplays \cup {x} /\ memReplays'[x] = c
      /\ \A y \in DOMAIN memReplays : memReplays'[y] = memReplays[y]
  <2>1. /\ DOMAIN memCodes' = DOMAIN memCodes \cup {c} /\ memCodes'[c] = FALSE
        /\ \A y \in DOMAIN memCodes : memCodes'[y] = memCodes[y]
    BY <1>1 DEF Memory!Put
  <2>2. /\ DOMAIN memReplays' = DOMAIN memReplays \cup {x} /\ memReplays'[x] = c
        /\ \A y \in DOMAIN memReplays : memReplays'[y] = memReplays[y]
    <3> HIDE DEF x
    <3>1. QED
      BY <1>1 DEF Memory!Put
  <2>3. QED
    BY <2>1, <2>2
<1>3. x \in {"client", "activation"} \X Keys /\ x[1] = "activation"
  OBVIOUS
<1>4. Memory!TypeOK'
  <2>1. /\ DOMAIN memCodes' \subseteq Codes
        /\ DOMAIN memReplays' \subseteq {"client", "activation"} \X Keys
    BY <1>2, <1>3 DEF MemoryOK, Memory!TypeOK
  <2>2. \A y \in DOMAIN memCodes' : memCodes'[y] \in BOOLEAN
    BY <1>2 DEF MemoryOK, Memory!TypeOK
  <2>3. QED
    BY <1>1, <2>1, <2>2 DEF MemoryOK, Memory!TypeOK
<1>5. Memory!TokensFollowStatus'
  BY <1>1 DEF MemoryOK, Memory!TokensFollowStatus
<1>6. Memory!RepliesNameWhatWasMade'
  <2>1. \A y \in DOMAIN memReplays' :
          memReplays'[y] \in IF y[1] = "client" THEN DOMAIN memClients' ELSE DOMAIN memCodes'
    BY <1>1, <1>2, <1>3 DEF MemoryOK, Memory!RepliesNameWhatWasMade
  <2>2. \A d \in DOMAIN memCodes' : \E k \in Keys :
          <<"activation", k>> \in DOMAIN memReplays' /\ memReplays'[<<"activation", k>>] = d
    <3> SUFFICES ASSUME NEW d \in DOMAIN memCodes'
                 PROVE  \E k \in Keys : <<"activation", k>> \in DOMAIN memReplays'
                                      /\ memReplays'[<<"activation", k>>] = d
      OBVIOUS
    <3>1. CASE d = c
      <4>1. <<"activation", key>> \in DOMAIN memReplays' /\ memReplays'[<<"activation", key>>] = d
        BY <1>2, <3>1
      <4>2. QED
        BY <4>1
    <3>2. CASE d # c
      <4>1. d \in DOMAIN memCodes
        BY <1>2, <3>2
      <4>2. PICK k \in Keys :
              <<"activation", k>> \in DOMAIN memReplays /\ memReplays[<<"activation", k>>] = d
        BY <4>1 DEF MemoryOK, Memory!RepliesNameWhatWasMade
      <4>3. <<"activation", k>> \in DOMAIN memReplays' /\ memReplays'[<<"activation", k>>] = d
        BY <1>2, <4>2
      <4>4. QED
        BY <4>3
    <3>3. QED
      BY <3>1, <3>2
  <2>3. \A d \in DOMAIN memClients' : \E k \in Keys :
          <<"client", k>> \in DOMAIN memReplays' /\ memReplays'[<<"client", k>>] = d
    BY <1>1, <1>2 DEF MemoryOK, Memory!RepliesNameWhatWasMade
  <2>4. \A y, z \in DOMAIN memReplays' : y[1] = z[1] /\ memReplays'[y] = memReplays'[z] => y = z
    <3>1. \A y \in DOMAIN memReplays : y[1] # "client" => y[1] = "activation"
      BY DEF MemoryOK, Memory!TypeOK
    <3>2. QED
      BY <1>1, <1>2, <1>3, <3>1 DEF MemoryOK, Memory!RepliesNameWhatWasMade
  <2>5. QED
    BY <2>1, <2>2, <2>3, <2>4 DEF Memory!RepliesNameWhatWasMade
<1>7. QED
  BY <1>4, <1>5, <1>6 DEF MemoryOK

\* Update, logout and heartbeat of a client instance.
LEMMA SetClientStep ==
  ASSUME MemoryOK, NEW c \in Clients, NEW status \in {"active", "offline"}, Memory!SetClient(c, status)
  PROVE  MemoryOK'
<1>1. /\ c \in DOMAIN memClients /\ memClients' = [memClients EXCEPT ![c] = status]
      /\ UNCHANGED <<memCodes, memDevices, memTokens, memGrants, memReplays>>
  BY DEF Memory!SetClient
<1>2. /\ DOMAIN memClients' = DOMAIN memClients
      /\ \A y \in DOMAIN memClients : memClients'[y] = IF y = c THEN status ELSE memClients[y]
  BY <1>1
<1>3. QED
  BY <1>1, <1>2 DEF MemoryOK, Memory!TypeOK, Memory!TokensFollowStatus, Memory!RepliesNameWhatWasMade

-------------------------------------------------------------------------------
(* Devices and tokens: the replies stay as they are. *)

LEMMA RegisterAgentStep ==
  ASSUME MemoryOK, NEW c \in Codes, NEW d \in Devices, NEW t \in Tokens, Memory!RegisterAgent(c, d, t)
  PROVE  MemoryOK'
<1>1. /\ c \in DOMAIN memCodes /\ d \notin DOMAIN memDevices /\ t \notin Memory!Range(memTokens)
      /\ memDevices' = Memory!Put(memDevices, d, "active") /\ memTokens' = Memory!Put(memTokens, d, t)
      /\ memCodes' = [memCodes EXCEPT ![c] = TRUE]
      /\ UNCHANGED <<memClients, memGrants, memReplays>>
  BY DEF Memory!RegisterAgent
<1>2. /\ DOMAIN memDevices' = DOMAIN memDevices \cup {d} /\ memDevices'[d] = "active"
      /\ \A e \in DOMAIN memDevices : memDevices'[e] = memDevices[e]
      /\ d \notin DOMAIN memTokens
      /\ DOMAIN memTokens' = DOMAIN memTokens \cup {d} /\ memTokens'[d] = t
      /\ \A e \in DOMAIN memTokens : memTokens'[e] = memTokens[e]
      /\ DOMAIN memCodes' = DOMAIN memCodes
      /\ \A y \in DOMAIN memCodes : memCodes'[y] = IF y = c THEN TRUE ELSE memCodes[y]
  <2>1. d \notin DOMAIN memTokens
    BY <1>1 DEF MemoryOK, Memory!TypeOK
  <2>2. /\ DOMAIN memDevices' = DOMAIN memDevices \cup {d} /\ memDevices'[d] = "active"
        /\ \A e \in DOMAIN memDevices : memDevices'[e] = memDevices[e]
    BY <1>1 DEF Memory!Put
  <2>3. /\ DOMAIN memTokens' = DOMAIN memTokens \cup {d} /\ memTokens'[d] = t
        /\ \A e \in DOMAIN memTokens : memTokens'[e] = memTokens[e]
    BY <1>1, <2>1 DEF Memory!Put
  <2>4. /\ DOMAIN memCodes' = DOMAIN memCodes
        /\ \A y \in DOMAIN memCodes : memCodes'[y] = IF y = c THEN TRUE ELSE memCodes[y]
    BY <1>1
  <2>5. QED
    BY <2>1, <2>2, <2>3, <2>4
<1>3. Memory!TypeOK'
  <2>1. memGrants \subseteq (DOMAIN memDevices') \X Users \X Permissions
    BY <1>2 DEF MemoryOK, Memory!TypeOK
  <2>2. QED
    BY <1>1, <1>2, <2>1 DEF MemoryOK, Memory!TypeOK
<1>4. Memory!TokensFollowStatus'
  BY <1>1, <1>2, UnusedToken DEF MemoryOK, Memory!TokensFollowStatus
<1>5. Memory!RepliesNameWhatWasMade'
  BY <1>1, <1>2 DEF MemoryOK, Memory!RepliesNameWhatWasMade
<1>6. QED
  BY <1>3, <1>4, <1>5 DEF MemoryOK

LEMMA DisableDeviceStep ==
  ASSUME MemoryOK, NEW d \in Devices, Memory!DisableDevice(d)
  PROVE  MemoryOK'
<1>1. /\ d \in DOMAIN memDevices /\ memDevices' = [memDevices EXCEPT ![d] = "disabled"]
      /\ memTokens' = Memory!Restrict(memTokens, DOMAIN memTokens \ {d})
      /\ UNCHANGED <<memCodes, memClients, memGrants, memReplays>>
  BY DEF Memory!DisableDevice
<1>2. /\ DOMAIN memDevices' = DOMAIN memDevices
      /\ \A e \in DOMAIN memDevices : memDevices'[e] = IF e = d THEN "disabled" ELSE memDevices[e]
      /\ DOMAIN memTokens' = DOMAIN memTokens \ {d}
      /\ \A e \in DOMAIN memTokens \ {d} : memTokens'[e] = memTokens[e]
  BY <1>1 DEF Memory!Restrict
<1>3. Memory!TypeOK'
  BY <1>1, <1>2 DEF MemoryOK, Memory!TypeOK
<1>4. Memory!TokensFollowStatus'
  BY <1>1, <1>2 DEF MemoryOK, Memory!TokensFollowStatus
<1>5. Memory!RepliesNameWhatWasMade'
  BY <1>1 DEF MemoryOK, Memory!RepliesNameWhatWasMade
<1>6. QED
  BY <1>3, <1>4, <1>5 DEF MemoryOK

LEMMA RotateDeviceTokenStep ==
  ASSUME MemoryOK, NEW d \in Devices, NEW t \in Tokens, Memory!RotateDeviceToken(d, t)
  PROVE  MemoryOK'
<1>1. /\ d \in DOMAIN memDevices /\ memDevices[d] # "disabled" /\ t \notin Memory!Range(memTokens)
      /\ memTokens' = Memory!Put(memTokens, d, t)
      /\ UNCHANGED <<memCodes, memDevices, memClients, memGrants, memReplays>>
  BY DEF Memory!RotateDeviceToken
<1>2. /\ d \in DOMAIN memTokens /\ DOMAIN memTokens' = DOMAIN memTokens /\ memTokens'[d] = t
      /\ \A e \in DOMAIN memTokens : e # d => memTokens'[e] = memTokens[e]
  <2>1. d \in DOMAIN memTokens
    BY <1>1 DEF MemoryOK, Memory!TokensFollowStatus
  <2>2. DOMAIN memTokens \cup {d} = DOMAIN memTokens
    BY <2>1
  <2>3. /\ DOMAIN memTokens' = DOMAIN memTokens \cup {d} /\ memTokens'[d] = t
        /\ \A e \in DOMAIN memTokens : e # d => memTokens'[e] = memTokens[e]
    BY <1>1 DEF Memory!Put
  <2>4. QED
    BY <2>1, <2>2, <2>3
<1>3. Memory!TypeOK' /\ Memory!RepliesNameWhatWasMade'
  BY <1>1, <1>2 DEF MemoryOK, Memory!TypeOK, Memory!RepliesNameWhatWasMade
<1>4. Memory!TokensFollowStatus'
  BY <1>1, <1>2, UnusedToken DEF MemoryOK, Memory!TokensFollowStatus
<1>5. QED
  BY <1>3, <1>4 DEF MemoryOK

\* Heartbeats and silence change neither whether a device is disabled nor its token.
LEMMA StatusStep ==
  ASSUME MemoryOK, DOMAIN memDevices' = DOMAIN memDevices,
         \A d \in DOMAIN memDevices :
           /\ memDevices'[d] \in DeviceStatus
           /\ memDevices'[d] = "disabled" <=> memDevices[d] = "disabled",
         UNCHANGED <<memCodes, memTokens, memClients, memGrants, memReplays>>
  PROVE  MemoryOK'
BY DEF MemoryOK, Memory!TypeOK, Memory!TokensFollowStatus, Memory!RepliesNameWhatWasMade, DeviceStatus

LEMMA MarkDeviceSeenStep ==
  ASSUME MemoryOK, NEW d \in Devices, Memory!MarkDeviceSeen(d)
  PROVE  MemoryOK'
<1>1. /\ d \in DOMAIN memDevices /\ memDevices[d] # "disabled"
      /\ memDevices' = [memDevices EXCEPT ![d] = "active"]
      /\ UNCHANGED <<memCodes, memTokens, memClients, memGrants, memReplays>>
  BY DEF Memory!MarkDeviceSeen
<1>2. /\ DOMAIN memDevices' = DOMAIN memDevices
      /\ \A e \in DOMAIN memDevices : memDevices'[e] = IF e = d THEN "active" ELSE memDevices[e]
  BY <1>1
<1>3. \A e \in DOMAIN memDevices :
        memDevices'[e] \in DeviceStatus /\ (memDevices'[e] = "disabled" <=> memDevices[e] = "disabled")
  BY <1>1, <1>2 DEF MemoryOK, Memory!TypeOK, DeviceStatus
<1>4. QED
  BY <1>1, <1>2, <1>3, StatusStep

LEMMA MarkStaleDevicesStep ==
  ASSUME MemoryOK, Memory!MarkStaleDevices
  PROVE  MemoryOK'
<1>1. PICK stale \in [DOMAIN memDevices -> DeviceStatus] :
        /\ \A d \in DOMAIN memDevices : stale[d] \in Memory!Staler(memDevices[d])
        /\ memDevices' = stale
  BY DEF Memory!MarkStaleDevices, DeviceStatus
<1>2. UNCHANGED <<memCodes, memTokens, memClients, memGrants, memReplays>>
  BY DEF Memory!MarkStaleDevices
<1>3. \A d \in DOMAIN memDevices : memDevices[d] \in DeviceStatus
  BY DEF MemoryOK, Memory!TypeOK, DeviceStatus
<1>4. \A d \in DOMAIN memDevices :
        memDevices'[d] \in DeviceStatus /\ (memDevices'[d] = "disabled" <=> memDevices[d] = "disabled")
  BY <1>1, <1>3, StalerForm
<1>5. DOMAIN memDevices' = DOMAIN memDevices
  BY <1>1
<1>6. QED
  BY <1>2, <1>4, <1>5, StatusStep

LEMMA GrantStep ==
  ASSUME MemoryOK, memGrants' \subseteq (DOMAIN memDevices) \X Users \X Permissions,
         UNCHANGED <<memCodes, memDevices, memTokens, memClients, memReplays>>
  PROVE  MemoryOK'
BY DEF MemoryOK, Memory!TypeOK, Memory!TokensFollowStatus, Memory!RepliesNameWhatWasMade

LEMMA CreateDeviceGrantStep ==
  ASSUME MemoryOK, NEW d \in Devices, NEW u \in Users, NEW permission \in Permissions,
         Memory!CreateDeviceGrant(d, u, permission)
  PROVE  MemoryOK'
<1>1. <<d, u, permission>> \in (DOMAIN memDevices) \X Users \X Permissions
  BY DEF Memory!CreateDeviceGrant
<1>2. memGrants' \subseteq (DOMAIN memDevices) \X Users \X Permissions
  BY <1>1 DEF Memory!CreateDeviceGrant, MemoryOK, Memory!TypeOK
<1>3. QED
  BY <1>2, GrantStep DEF Memory!CreateDeviceGrant

LEMMA RevokeDeviceGrantStep ==
  ASSUME MemoryOK, NEW grant \in memGrants, Memory!RevokeDeviceGrant(grant)
  PROVE  MemoryOK'
<1>1. memGrants' \subseteq (DOMAIN memDevices) \X Users \X Permissions
  BY DEF Memory!RevokeDeviceGrant, MemoryOK, Memory!TypeOK
<1>2. QED
  BY <1>1, GrantStep DEF Memory!RevokeDeviceGrant

-------------------------------------------------------------------------------
(* The invariant and what follows from it. *)

LEMMA MemoryOKInitially == Memory!Init => MemoryOK
<1> SUFFICES ASSUME Memory!Init
             PROVE  MemoryOK
  OBVIOUS
<1>1. DOMAIN << >> = {}
  OBVIOUS
<1>2. /\ DOMAIN memCodes = {} /\ DOMAIN memDevices = {} /\ DOMAIN memTokens = {}
      /\ DOMAIN memClients = {} /\ DOMAIN memReplays = {} /\ memGrants = {}
  BY <1>1 DEF Memory!Init
<1>3. QED
  BY <1>2 DEF MemoryOK, Memory!TypeOK, Memory!TokensFollowStatus, Memory!RepliesNameWhatWasMade

LEMMA MemoryOKPreserved == MemoryOK /\ [Memory!Next]_(Memory!vars) => MemoryOK'
<1> SUFFICES ASSUME MemoryOK, [Memory!Next]_(Memory!vars)
             PROVE  MemoryOK'
  OBVIOUS
<1>1. CASE \E key \in Keys, c \in Clients : Memory!RegisterClientInstance(key, c)
  BY <1>1, RegisterClientInstanceStep
<1>2. CASE \E c \in Clients :
             \/ Memory!UpdateClientInstance(c) \/ Memory!LogoutClientInstance(c)
             \/ Memory!MarkClientInstanceSeen(c)
  BY <1>2, SetClientStep
  DEF Memory!UpdateClientInstance, Memory!LogoutClientInstance, Memory!MarkClientInstanceSeen
<1>3. CASE \E key \in Keys, c \in Codes : Memory!CreateActivationCode(key, c)
  BY <1>3, CreateActivationCodeStep
<1>4. CASE \E c \in Codes, d \in Devices, t \in Tokens : Memory!RegisterAgent(c, d, t)
  BY <1>4, RegisterAgentStep
<1>5. CASE \E d \in Devices : Memory!DisableDevice(d) \/ Memory!MarkDeviceSeen(d)
  BY <1>5, DisableDeviceStep, MarkDeviceSeenStep
<1>6. CASE \E d \in Devices, t \in Tokens : Memory!RotateDeviceToken(d, t)
  BY <1>6, RotateDeviceTokenStep
<1>7. CASE Memory!MarkStaleDevices
  BY <1>7, MarkStaleDevicesStep
<1>8. CASE \E d \in Devices, u \in Users, permission \in Permissions :
             Memory!CreateDeviceGrant(d, u, permission)
  BY <1>8, CreateDeviceGrantStep
<1>9. CASE \E grant \in memGrants : Memory!RevokeDeviceGrant(grant)
  BY <1>9, RevokeDeviceGrantStep
<1>10. CASE UNCHANGED Memory!vars
  BY <1>10 DEF Memory!vars, MemoryOK, Memory!TypeOK, Memory!TokensFollowStatus,
     Memory!RepliesNameWhatWasMade
<1>11. QED
  BY <1>1, <1>2, <1>3, <1>4, <1>5, <1>6, <1>7, <1>8, <1>9, <1>10 DEF Memory!Next

\* MemoryOK holds in every state the store in memory reaches.
THEOREM MemoryInvariance == Memory!Spec => []MemoryOK
<1>1. QED
  BY MemoryOKInitially, MemoryOKPreserved, PTL DEF Memory!Spec

\* The maps hold identifiers of their kinds, and grants are for devices that exist.
THEOREM MemoryTypeCorrect == Memory!Spec => []Memory!TypeOK
<1>1. MemoryOK => Memory!TypeOK
  BY DEF MemoryOK
<1>2. QED
  BY <1>1, MemoryInvariance, PTL

\* A device accepts one token, its own, exactly as long as it is not disabled.
THEOREM TokensAreRight == Memory!Spec => []Memory!TokensFollowStatus
<1>1. MemoryOK => Memory!TokensFollowStatus
  BY DEF MemoryOK
<1>2. QED
  BY <1>1, MemoryInvariance, PTL

\* An idempotency key stands for one client instance or code, and each for one key.
THEOREM RepliesAreRight == Memory!Spec => []Memory!RepliesNameWhatWasMade
<1>1. MemoryOK => Memory!RepliesNameWhatWasMade
  BY DEF MemoryOK
<1>2. QED
  BY <1>1, MemoryInvariance, PTL

\* No operation brings a disabled device back.
THEOREM DisabledDevicesStayOut == Memory!Spec => Memory!DisabledStaysOut
<1> DEFINE Stays == \A d \in DOMAIN memDevices : memDevices[d] = "disabled" =>
                      d \in DOMAIN memDevices' /\ memDevices'[d] = "disabled"
<1>1. ASSUME MemoryOK, [Memory!Next]_(Memory!vars)
      PROVE  Stays
  <2> SUFFICES ASSUME NEW d \in DOMAIN memDevices, memDevices[d] = "disabled"
               PROVE  d \in DOMAIN memDevices' /\ memDevices'[d] = "disabled"
    OBVIOUS
  <2>1. CASE memDevices' = memDevices
    BY <2>1
  <2>2. ASSUME NEW c \in Codes, NEW e \in Devices, NEW t \in Tokens, Memory!RegisterAgent(c, e, t)
        PROVE  d \in DOMAIN memDevices' /\ memDevices'[d] = "disabled"
    BY <2>2 DEF Memory!RegisterAgent, Memory!Put
  <2>3. ASSUME NEW e \in Devices, Memory!DisableDevice(e) \/ Memory!MarkDeviceSeen(e)
        PROVE  d \in DOMAIN memDevices' /\ memDevices'[d] = "disabled"
    BY <2>3 DEF Memory!DisableDevice, Memory!MarkDeviceSeen
  <2>4. CASE Memory!MarkStaleDevices
    BY <2>4 DEF Memory!MarkStaleDevices, Memory!Staler
  <2>5. QED
    BY <1>1, <2>1, <2>2, <2>3, <2>4
    DEF Memory!Next, Memory!vars, Memory!RegisterClientInstance, Memory!UpdateClientInstance,
        Memory!LogoutClientInstance, Memory!MarkClientInstanceSeen, Memory!SetClient,
        Memory!CreateActivationCode, Memory!RotateDeviceToken, Memory!CreateDeviceGrant,
        Memory!RevokeDeviceGrant
<1>2. QED
  BY <1>1, MemoryInvariance, PTL DEF Memory!Spec, Memory!DisabledStaysOut
================================================================================
