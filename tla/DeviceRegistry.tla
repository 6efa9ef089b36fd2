---------------------------- MODULE DeviceRegistry ----------------------------
(***************************************************************************)
(* What the server knows of devices, client instances and grants, as       *)
(* memoryStore in src/server/cmd/server/main.go keeps it: every operation  *)
(* runs under one mutex and is one action here.  A refused request changes *)
(* nothing and has no action.  Sessions and approvals, which memoryStore   *)
(* keeps under the same mutex, are in ApprovalStore.                       *)
(*                                                                         *)
(* Names, versions, platforms and push providers are left out: no          *)
(* operation decides by them.  Random identifiers, codes and tokens are    *)
(* members of a set that have not been used.  Time is not kept: a code may *)
(* be found expired at any time, which refuses the request, and a device   *)
(* may have been silent for any time when the worker looks.                *)
(***************************************************************************)
EXTENDS FiniteSets, Functions

CONSTANTS
  Devices, Tokens, Codes, Clients,  \* identifiers that may be drawn
  Users, Permissions,               \* who may be granted what on a device
  Keys                              \* idempotency keys clients choose

VARIABLES
  codes,    \* activationCodes: code -> whether it has been consumed
  devices,  \* devices: id -> status
  tokens,   \* deviceTokenHashes: device -> the token it accepts
  clients,  \* clientInstances: id -> status
  grants,   \* deviceGrants that are not revoked: <<device, user, permission>>
  replays   \* clientInstanceReplay, activationCodeReplayByID: <<scope, key>> -> the reply

vars == <<codes, devices, tokens, clients, grants, replays>>

Put(f, x, v) == [y \in DOMAIN f \cup {x} |-> IF y = x THEN v ELSE f[y]]

Init ==
  /\ codes = << >> /\ devices = << >> /\ tokens = << >> /\ clients = << >>
  /\ grants = {} /\ replays = << >>

--------------------------------------------------------------------------------
(* Client instances. *)

\* A key used before is answered with the reply kept for it.
RegisterClientInstance(key, c) ==
  /\ <<"client", key>> \notin DOMAIN replays
  /\ c \in Clients \ DOMAIN clients
  /\ clients' = Put(clients, c, "active")
  /\ replays' = Put(replays, <<"client", key>>, c)
  /\ UNCHANGED <<codes, devices, tokens, grants>>

SetClient(c, status) ==
  /\ c \in DOMAIN clients
  /\ clients' = [clients EXCEPT ![c] = status]
  /\ UNCHANGED <<codes, devices, tokens, grants, replays>>

UpdateClientInstance(c) == SetClient(c, "active")
LogoutClientInstance(c) == SetClient(c, "offline")

\* A heartbeat of the client's connection, which a logout does not close.
MarkClientInstanceSeen(c) == SetClient(c, "active")

--------------------------------------------------------------------------------
(* Activation and tokens. *)

CreateActivationCode(key, c) ==
  /\ <<"activation", key>> \notin DOMAIN replays
  /\ c \in Codes \ DOMAIN codes
  /\ codes' = Put(codes, c, FALSE)
  /\ replays' = Put(replays, <<"activation", key>>, c)
  /\ UNCHANGED <<devices, tokens, clients, grants>>

\* A code that is known, unused and not expired makes a device with a token.
RegisterAgent(c, d, t) ==
  /\ c \in DOMAIN codes /\ ~ codes[c]
  /\ d \in Devices \ DOMAIN devices
  /\ t \in Tokens \ Range(tokens)
  /\ devices' = Put(devices, d, "active")
  /\ tokens' = Put(tokens, d, t)
  /\ codes' = [codes EXCEPT ![c] = TRUE]
  /\ UNCHANGED <<clients, grants, replays>>

DisableDevice(d) ==
  /\ d \in DOMAIN devices
  /\ devices' = [devices EXCEPT ![d] = "disabled"]
  /\ tokens' = Restrict(tokens, DOMAIN tokens \ {d})
  /\ UNCHANGED <<codes, clients, grants, replays>>

RotateDeviceToken(d, t) ==
  /\ d \in DOMAIN devices /\ devices[d] # "disabled"
  /\ t \in Tokens \ Range(tokens)
  /\ tokens' = Put(tokens, d, t)
  /\ UNCHANGED <<codes, devices, clients, grants, replays>>

\* agent.hello and agent.heartbeat.
MarkDeviceSeen(d) ==
  /\ d \in DOMAIN devices /\ devices[d] # "disabled"
  /\ devices' = [devices EXCEPT ![d] = "active"]
  /\ UNCHANGED <<codes, tokens, clients, grants, replays>>

\* The statuses the silence of a device may lead to.
Staler(status) ==
  CASE status = "active" -> {"active", "suspect_offline", "offline"}
    [] status = "suspect_offline" -> {"suspect_offline", "offline"}
    [] OTHER -> {status}

MarkStaleDevices ==
  /\ \E stale \in [DOMAIN devices -> {"active", "suspect_offline", "offline", "disabled"}] :
       /\ \A d \in DOMAIN devices : stale[d] \in Staler(devices[d])
       /\ devices' = stale
  /\ UNCHANGED <<codes, tokens, clients, grants, replays>>

--------------------------------------------------------------------------------
(* Grants. *)

\* A grant in force is answered as it is; a revoked one is replaced.
CreateDeviceGrant(d, u, permission) ==
  /\ d \in DOMAIN devices
  /\ grants' = grants \cup {<<d, u, permission>>}
  /\ UNCHANGED <<codes, devices, tokens, clients, replays>>

RevokeDeviceGrant(grant) ==
  /\ grant \in grants
  /\ grants' = grants \ {grant}
  /\ UNCHANGED <<codes, devices, tokens, clients, replays>>

--------------------------------------------------------------------------------

Next ==
  \/ \E key \in Keys, c \in Clients : RegisterClientInstance(key, c)
  \/ \E c \in Clients :
       UpdateClientInstance(c) \/ LogoutClientInstance(c) \/ MarkClientInstanceSeen(c)
  \/ \E key \in Keys, c \in Codes : CreateActivationCode(key, c)
  \/ \E c \in Codes, d \in Devices, t \in Tokens : RegisterAgent(c, d, t)
  \/ \E d \in Devices : DisableDevice(d) \/ MarkDeviceSeen(d)
  \/ \E d \in Devices, t \in Tokens : RotateDeviceToken(d, t)
  \/ MarkStaleDevices
  \/ \E d \in Devices, u \in Users, permission \in Permissions :
       CreateDeviceGrant(d, u, permission)
  \/ \E grant \in grants : RevokeDeviceGrant(grant)

Spec == Init /\ [][Next]_vars

--------------------------------------------------------------------------------
(* Properties. *)

\* The types: every map holds identifiers of its kind.
TypeOK ==
  /\ DOMAIN codes \subseteq Codes /\ \A c \in DOMAIN codes : codes[c] \in BOOLEAN
  /\ DOMAIN devices \subseteq Devices
  /\ \A d \in DOMAIN devices :
       devices[d] \in {"active", "suspect_offline", "offline", "disabled"}
  /\ DOMAIN tokens \subseteq DOMAIN devices /\ \A d \in DOMAIN tokens : tokens[d] \in Tokens
  /\ DOMAIN clients \subseteq Clients
  /\ \A c \in DOMAIN clients : clients[c] \in {"active", "offline"}
  /\ grants \subseteq (DOMAIN devices) \X Users \X Permissions
  /\ DOMAIN replays \subseteq {"client", "activation"} \X Keys

\* A device accepts a token exactly as long as it is not disabled, whatever
\* rotations, heartbeats and silences come before or after, and no two devices
\* accept the same one.
TokensFollowStatus ==
  /\ \A d \in DOMAIN devices : d \in DOMAIN tokens <=> devices[d] # "disabled"
  /\ \A d, e \in DOMAIN tokens : tokens[d] = tokens[e] => d = e

\* A disabled device is disabled for good.
DisabledStaysOut ==
  [][\A d \in DOMAIN devices : devices[d] = "disabled" =>
       d \in DOMAIN devices' /\ devices'[d] = "disabled"]_vars

\* Every code and client instance was made for one key, which its reply names, and
\* every reply names one.
RepliesNameWhatWasMade ==
  /\ \A x \in DOMAIN replays :
       replays[x] \in IF x[1] = "client" THEN DOMAIN clients ELSE DOMAIN codes
  /\ \A c \in DOMAIN codes : \E key \in Keys :
       <<"activation", key>> \in DOMAIN replays /\ replays[<<"activation", key>>] = c
  /\ \A c \in DOMAIN clients : \E key \in Keys :
       <<"client", key>> \in DOMAIN replays /\ replays[<<"client", key>>] = c
  /\ \A x, y \in DOMAIN replays : x[1] = y[1] /\ replays[x] = replays[y] => x = y
================================================================================
