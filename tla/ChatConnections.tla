--------------------------- MODULE ChatConnections ---------------------------
(***************************************************************************)
(* The chat gateway's connection registry (ChatService.temporaryClients,   *)
(* clients, memberUUIDToId), the life of a ChatWebSocket, the HANDSHAKE    *)
(* handler split at its awaits, and the heartbeat.  Handlers of one socket *)
(* run concurrently (WsAdapter uses mergeMap), so several HANDSHAKE        *)
(* invocations of one socket can be suspended at once, and the socket can  *)
(* be closed while they are.                                               *)
(***************************************************************************)
EXTENDS FiniteSets, JsMap

CONSTANTS
  Clients,    \* sockets the server may accept
  UUIDs,      \* account UUIDs, the user_id of an access token
  Ids,        \* numeric account ids
  IdOf,       \* the account table: uuid -> id
  Handlers,   \* HANDSHAKE invocations of one socket that can be in flight at once
  NoAccount   \* undefined

\* accounts.uuid and accounts.id are both unique keys of one table
ASSUME IdOfAssumption ==
  /\ IdOf \in [UUIDs -> Ids]
  /\ \A u, v \in UUIDs : IdOf[u] = IdOf[v] => u = v
ASSUME NoAccountAssumption == NoAccount \notin UUIDs

VARIABLES
  phase,             \* the socket's readyState; "new" is not yet connected
  auth,              \* user_id of the token verifyClient accepted
  account,           \* ChatWebSocket.account; the link's id is IdOf[account[c]]
  handshake,         \* where each HANDSHAKE invocation is suspended
  temporaryClients,  \* ChatService.temporaryClients
  clients,           \* ChatService.clients: id -> set of sockets
  memberUUIDToId,    \* ChatService.memberUUIDToId
  greeted,           \* sockets the INITIALIZE response was sent to
  isAlive,           \* ServiceWebSocketBase.isAlive
  pingInterval,      \* sockets whose ping timer is armed
  pongDue,           \* sockets whose answer to the last ping is still to come
  vanished           \* peers that disappeared without closing the connection

registry == <<temporaryClients, clients, memberUUIDToId>>
heartbeat == <<isAlive, pingInterval, pongDue, vanished>>
vars == <<phase, auth, account, handshake, registry, greeted, heartbeat>>

Live == {"open", "closing"}

(***************************************************************************)
(* Operations of ChatService.                                              *)
(***************************************************************************)

\* Mutant of TrackClient: the result of temporaryClients.delete is ignored.
TrackClientUnchecked(c, uuid) ==
  /\ temporaryClients' = temporaryClients \ {c}
  /\ clients' = MapSet(clients, IdOf[uuid], MapGetSet(clients, IdOf[uuid]) \cup {c})
  /\ memberUUIDToId' = MapSet(memberUUIDToId, uuid, IdOf[uuid])

\* Mutant of TrackClient: a second socket of the account is not added.
TrackClientFirstOnly(c, uuid) ==
  IF c \in temporaryClients
  THEN /\ temporaryClients' = temporaryClients \ {c}
       /\ clients' = IF IdOf[uuid] \in DOMAIN clients THEN clients
                     ELSE MapSet(clients, IdOf[uuid], {c})
       /\ memberUUIDToId' = MapSet(memberUUIDToId, uuid, IdOf[uuid])
  ELSE UNCHANGED registry

\* Mutant of TrackClient: clients is keyed by UUID.
TrackClientByUUID(c, uuid) ==
  IF c \in temporaryClients
  THEN /\ temporaryClients' = temporaryClients \ {c}
       /\ clients' = MapSet(clients, uuid, MapGetSet(clients, uuid) \cup {c})
       /\ memberUUIDToId' = MapSet(memberUUIDToId, uuid, IdOf[uuid])
  ELSE UNCHANGED registry

\* trackClient: only a socket that is still temporary is moved to its account
TrackClient(c, uuid) ==
  IF c \in temporaryClients
  THEN /\ temporaryClients' = temporaryClients \ {c}
       /\ clients' = MapSet(clients, IdOf[uuid], MapGetSet(clients, IdOf[uuid]) \cup {c})
       /\ memberUUIDToId' = IF IdOf[uuid] \in DOMAIN clients THEN memberUUIDToId
                            ELSE MapSet(memberUUIDToId, uuid, IdOf[uuid])
  ELSE UNCHANGED registry

\* the assertions of untrackClient
UntrackAsserts(c) ==
  IF account[c] = NoAccount THEN c \in temporaryClients
  ELSE c \in MapGetSet(clients, IdOf[account[c]])

\* Mutant of UntrackMember: the size check is missing.
UntrackMemberUnsized(c, uuid) ==
  /\ clients' = MapDelete(clients, IdOf[uuid])
  /\ memberUUIDToId' = MapDelete(memberUUIDToId, uuid)
  /\ UNCHANGED temporaryClients

\* Mutant of UntrackMember: the UUID index is cleared outside the size check.
UntrackMemberUnindexed(c, uuid) ==
  LET id == IdOf[uuid]
      rest == clients[id] \ {c}
  IN /\ clients' = IF rest = {} THEN MapDelete(clients, id) ELSE MapSet(clients, id, rest)
     /\ memberUUIDToId' = MapDelete(memberUUIDToId, uuid)
     /\ UNCHANGED temporaryClients

\* untrackClient for a socket that has an account
UntrackMember(c, uuid) ==
  LET id == IdOf[uuid]
      rest == clients[id] \ {c}
  IN /\ clients' = IF rest = {} THEN MapDelete(clients, id) ELSE MapSet(clients, id, rest)
     /\ memberUUIDToId' = IF rest = {} THEN MapDelete(memberUUIDToId, uuid)
                          ELSE memberUUIDToId
     /\ UNCHANGED temporaryClients

\* untrackClient: a failed assertion throws before anything is changed
UntrackClient(c) ==
  CASE ~UntrackAsserts(c) -> UNCHANGED registry
    [] UntrackAsserts(c) /\ account[c] # NoAccount -> UntrackMember(c, account[c])
    [] OTHER -> /\ temporaryClients' = temporaryClients \ {c}
                /\ UNCHANGED <<clients, memberUUIDToId>>

\* the sockets sharedAction / unicast reach
Unicast(id, except) == MapGetSet(clients, id) \ except

\* the sockets unicastByAccountUUID reaches
UnicastByAccountUUID(uuid, except) ==
  IF uuid \in DOMAIN memberUUIDToId THEN Unicast(memberUUIDToId[uuid], except) ELSE {}

\* the sockets broadcast reaches
Broadcast(except) == UNION {clients[id] : id \in DOMAIN clients} \ except

(***************************************************************************)
(* The life of a socket.                                                   *)
(***************************************************************************)

\* WebSocket.terminate: a no-op unless the socket is open; the close event follows
Terminate(c) == phase' = IF phase[c] = "open" THEN [phase EXCEPT ![c] = "closing"] ELSE phase

Init ==
  /\ phase = [c \in Clients |-> "new"]
  /\ auth = [c \in Clients |-> NoAccount]
  /\ account = [c \in Clients |-> NoAccount]
  /\ handshake = [c \in Clients |-> [h \in Handlers |-> "idle"]]
  /\ temporaryClients = {}
  /\ clients = EmptyMap
  /\ memberUUIDToId = EmptyMap
  /\ greeted = {}
  /\ isAlive = [c \in Clients |-> TRUE]
  /\ pingInterval = {}
  /\ pongDue = {}
  /\ vanished = {}

\* verifyClient accepted the token of u; handleConnection runs to its end
Connect(c, u) ==
  /\ phase[c] = "new"
  /\ phase' = [phase EXCEPT ![c] = "open"]
  /\ auth' = [auth EXCEPT ![c] = u]
  /\ pingInterval' = pingInterval \cup {c}
  /\ temporaryClients' = temporaryClients \cup {c}
  /\ UNCHANGED <<account, handshake, clients, memberUUIDToId, greeted,
                 isAlive, pongDue, vanished>>

\* the close event: handleDisconnect, which swallows what untrackClient throws
Disconnect(c) ==
  /\ phase[c] = "closing"
  /\ phase' = [phase EXCEPT ![c] = "closed"]
  /\ pingInterval' = pingInterval \ {c}
  /\ UntrackClient(c)
  /\ UNCHANGED <<auth, account, handshake, greeted, isAlive, pongDue, vanished>>

\* the peer closes, or the TCP connection breaks
PeerCloses(c) ==
  /\ phase[c] = "open"
  /\ Terminate(c)
  /\ UNCHANGED <<auth, account, handshake, registry, greeted, heartbeat>>

\* a request other than HANDSHAKE from a socket without account: "Invalid state"
RejectInvalidState(c) ==
  /\ phase[c] = "open"
  /\ account[c] = NoAccount
  /\ Terminate(c)
  /\ UNCHANGED <<auth, account, handshake, registry, greeted, heartbeat>>

(***************************************************************************)
(* The HANDSHAKE handler.  Frames already received are still dispatched    *)
(* while the socket is closing; only the close event stops them.           *)
(***************************************************************************)

RejectDuplicateHandshake(c) ==
  /\ phase[c] \in Live
  /\ account[c] # NoAccount
  /\ Terminate(c)
  /\ UNCHANGED <<auth, account, handshake, registry, greeted, heartbeat>>

\* up to the first await, findAccountIdByUUID
BeginHandshake(c, h) ==
  /\ phase[c] \in Live
  /\ account[c] = NoAccount
  /\ handshake[c][h] = "idle"
  /\ handshake' = [handshake EXCEPT ![c][h] = "lookup"]
  /\ UNCHANGED <<phase, auth, account, registry, greeted, heartbeat>>

\* Mutant of LookupFails: the exception filter does not terminate.
LookupFailsSilently(c, h) ==
  /\ handshake[c][h] = "lookup"
  /\ handshake' = [handshake EXCEPT ![c][h] = "idle"]
  /\ UNCHANGED <<phase, auth, account, registry, greeted, heartbeat>>

\* no such account, or the query failed: the exception filter terminates
LookupFails(c, h) ==
  /\ handshake[c][h] = "lookup"
  /\ handshake' = [handshake EXCEPT ![c][h] = "idle"]
  /\ Terminate(c)
  /\ UNCHANGED <<auth, account, registry, greeted, heartbeat>>

\* the rest of the handler up to the awaits of initialize.  account is set and
\* the socket tracked before the payload is parsed, and parsing may throw.
LookupSucceeds(c, h) ==
  /\ handshake[c][h] = "lookup"
  /\ account' = [account EXCEPT ![c] = auth[c]]
  /\ TrackClient(c, auth[c])
  /\ \/ /\ handshake' = [handshake EXCEPT ![c][h] = "initializing"]
        /\ UNCHANGED phase
     \/ /\ handshake' = [handshake EXCEPT ![c][h] = "idle"]
        /\ Terminate(c)
  /\ UNCHANGED <<auth, greeted, heartbeat>>

\* initialize returned: the adapter sends the response to an open socket only
InitializeSucceeds(c, h) ==
  /\ handshake[c][h] = "initializing"
  /\ handshake' = [handshake EXCEPT ![c][h] = "idle"]
  /\ greeted' = IF phase[c] = "open" THEN greeted \cup {c} ELSE greeted
  /\ UNCHANGED <<phase, auth, account, registry, heartbeat>>

InitializeFails(c, h) ==
  /\ handshake[c][h] = "initializing"
  /\ handshake' = [handshake EXCEPT ![c][h] = "idle"]
  /\ Terminate(c)
  /\ UNCHANGED <<auth, account, registry, greeted, heartbeat>>

(***************************************************************************)
(* The heartbeat.                                                          *)
(***************************************************************************)

\* Mutant of SendPing: a silent peer is pinged again instead of terminated.
SendPingForever(c) ==
  /\ c \in pingInterval
  /\ isAlive' = [isAlive EXCEPT ![c] = FALSE]
  /\ pongDue' = IF phase[c] = "open" /\ c \notin vanished
                THEN pongDue \cup {c} ELSE pongDue
  /\ UNCHANGED <<phase, auth, account, handshake, registry, greeted, pingInterval, vanished>>

\* the 30 second timer.  A ping on a socket that is not open is dropped, and
\* a vanished peer answers none.
SendPing(c) ==
  /\ c \in pingInterval
  /\ \/ /\ ~isAlive[c]
        /\ Terminate(c)
        /\ UNCHANGED <<isAlive, pongDue>>
     \/ /\ isAlive[c]
        /\ isAlive' = [isAlive EXCEPT ![c] = FALSE]
        /\ pongDue' = IF phase[c] = "open" /\ c \notin vanished
                      THEN pongDue \cup {c} ELSE pongDue
        /\ UNCHANGED phase
  /\ UNCHANGED <<auth, account, handshake, registry, greeted, pingInterval, vanished>>

\* Mutant of OnHeartbeat: the pong is not recorded.
OnHeartbeatIgnored(c) ==
  /\ c \in pongDue
  /\ phase[c] \in Live
  /\ pongDue' = pongDue \ {c}
  /\ UNCHANGED <<phase, auth, account, handshake, registry, greeted, isAlive,
                 pingInterval, vanished>>

\* the pong event
OnHeartbeat(c) ==
  /\ c \in pongDue
  /\ phase[c] \in Live
  /\ isAlive' = [isAlive EXCEPT ![c] = TRUE]
  /\ pongDue' = pongDue \ {c}
  /\ UNCHANGED <<phase, auth, account, handshake, registry, greeted, pingInterval, vanished>>

\* the peer is gone and no close reaches the server; a pong already on its way
\* may still arrive
PeerVanishes(c) ==
  /\ phase[c] = "open"
  /\ c \notin vanished
  /\ vanished' = vanished \cup {c}
  /\ pongDue' \in {pongDue, pongDue \ {c}}
  /\ UNCHANGED <<phase, auth, account, handshake, registry, greeted, isAlive, pingInterval>>

HandshakeStep(c, h) ==
  \/ LookupFails(c, h)
  \/ LookupSucceeds(c, h)
  \/ InitializeSucceeds(c, h)
  \/ InitializeFails(c, h)

Next ==
  \E c \in Clients :
    \/ \E u \in UUIDs : Connect(c, u)
    \/ Disconnect(c)
    \/ PeerCloses(c)
    \/ RejectInvalidState(c)
    \/ RejectDuplicateHandshake(c)
    \/ \E h \in Handlers : BeginHandshake(c, h) \/ HandshakeStep(c, h)
    \/ SendPing(c)
    \/ OnHeartbeat(c)
    \/ PeerVanishes(c)

Spec == Init /\ [][Next]_vars

\* The timer fires, a destroyed socket emits close, and a query settles.
\* Nothing is assumed of the peers.
Fairness ==
  \A c \in Clients :
    /\ WF_vars(SendPing(c))
    /\ WF_vars(Disconnect(c))
    /\ \A h \in Handlers : WF_vars(HandshakeStep(c, h))

FairSpec == Spec /\ Fairness
-----------------------------------------------------------------------------
(***************************************************************************)
(* Properties.                                                             *)
(***************************************************************************)

\* Every variable has its type; the maps of ChatService have keys among the
\* account ids and UUIDs of the account table.
TypeOK ==
  /\ phase \in [Clients -> {"new", "open", "closing", "closed"}]
  /\ auth \in [Clients -> UUIDs \cup {NoAccount}]
  /\ account \in [Clients -> UUIDs \cup {NoAccount}]
  /\ handshake \in [Clients -> [Handlers -> {"idle", "lookup", "initializing"}]]
  /\ temporaryClients \subseteq Clients
  /\ DOMAIN clients \subseteq {IdOf[u] : u \in UUIDs}
  /\ clients \in [DOMAIN clients -> SUBSET Clients]
  /\ DOMAIN memberUUIDToId \subseteq UUIDs
  /\ memberUUIDToId \in [DOMAIN memberUUIDToId -> Ids]
  /\ greeted \subseteq Clients
  /\ isAlive \in [Clients -> BOOLEAN]
  /\ pingInterval \subseteq Clients
  /\ pongDue \subseteq Clients
  /\ vanished \subseteq Clients

LiveGuests == {c \in Clients : phase[c] \in Live /\ account[c] = NoAccount}
LiveSockets(u) == {c \in Clients : phase[c] \in Live /\ account[c] = u}

\* The registry is exactly the set of live sockets, each under its account,
\* whatever handshakes were pending when sockets closed: no dead socket stays
\* in temporaryClients or clients, no account keeps an empty entry, and the
\* UUID index has the same accounts as clients (trackClient / untrackClient).
RegistryConsistent ==
  /\ temporaryClients = LiveGuests
  /\ \A u \in UUIDs :
       /\ MapGetSet(clients, IdOf[u]) = LiveSockets(u)
       /\ IdOf[u] \in DOMAIN clients <=> LiveSockets(u) # {}
       /\ u \in DOMAIN memberUUIDToId <=> LiveSockets(u) # {}
       /\ u \in DOMAIN memberUUIDToId => memberUUIDToId[u] = IdOf[u]

\* The three assertions of untrackClient hold whenever the close event of a
\* socket can arrive; handleDisconnect would swallow their failure and leak
\* the socket.
UntrackAssertsHold ==
  \A c \in Clients : phase[c] \in Live => UntrackAsserts(c)

\* A push addressed by UUID reaches exactly the live sockets of that account,
\* and a broadcast exactly the live sockets that have an account.
DeliveryExact ==
  /\ \A u \in UUIDs : UnicastByAccountUUID(u, {}) = LiveSockets(u)
  /\ Broadcast({}) = UNION {LiveSockets(u) : u \in UUIDs}

\* A socket that was sent its INITIALIZE snapshot and is still live is reached
\* by every later push for the account of its token: no update falls between
\* the snapshot and the subscription.
GreetedIsSubscribed ==
  \A c \in greeted : phase[c] \in Live => c \in Unicast(IdOf[auth[c]], {})

\* The heartbeat never marks a reachable peer dead with no pong to come, so
\* sendPing can terminate a responsive peer only by outrunning a pong.
HeartbeatSound ==
  \A c \in Clients :
    phase[c] = "open" /\ c \notin vanished /\ ~isAlive[c] => c \in pongDue

\* A peer that vanished is eventually dropped from the registry and its timer
\* cleared, although no close ever comes from it.
VanishedPeerReaped ==
  \A c \in Clients :
    c \in vanished ~> c \notin pingInterval /\ c \notin temporaryClients \cup Broadcast({})

\* A handshake that reached the account lookup ends with the INITIALIZE
\* response sent or with the socket closed.
HandshakeSettles ==
  \A c \in Clients, h \in Handlers :
    handshake[c][h] = "lookup" ~> c \in greeted \/ phase[c] = "closed"

\* The registry implements Presence: whatever the handshakes do, a socket is
\* attached to one account at most and never returns once it departed.
P == INSTANCE Presence WITH
       arrived <- {c \in Clients : phase[c] # "new"},
       guests <- temporaryClients,
       members <- [u \in UUIDs |-> UnicastByAccountUUID(u, {})]

PresenceSpec == P!Spec

=============================================================================
