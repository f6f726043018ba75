----------------------- MODULE ChatConnections_proofs -----------------------
(***************************************************************************)
(* Theorems about the connection registry, for every set of sockets,       *)
(* accounts and handshake invocations.                                     *)
(***************************************************************************)
EXTENDS ChatConnections, TLAPS

\* What the handlers know of a socket: its token is fixed when it connects, its
\* account is the token's, and only a connected socket runs handlers, holds a
\* timer or was greeted.
SocketHistory ==
  \A c \in Clients :
    /\ phase[c] = "new" =>
         /\ account[c] = NoAccount
         /\ isAlive[c]
         /\ \A h \in Handlers : handshake[c][h] = "idle"
    /\ phase[c] # "new" => auth[c] \in UUIDs
    /\ account[c] # NoAccount => account[c] = auth[c]
    /\ \A h \in Handlers : handshake[c][h] = "initializing" => account[c] # NoAccount
    /\ c \in greeted => account[c] # NoAccount
    /\ c \in pingInterval <=> phase[c] \in Live

\* The inductive invariant.  RegistryConsistent alone is not inductive: that a
\* resumed handshake attaches the socket to one account needs SocketHistory.
IInv == TypeOK /\ RegistryConsistent /\ SocketHistory

-----------------------------------------------------------------------------
(* Facts about the registry operations. *)

\* Reading a map of sets after set(k, v).
LEMMA MapSetGet ==
  ASSUME NEW f, NEW k, NEW v, NEW x
  PROVE  MapGetSet(MapSet(f, k, v), x) = IF x = k THEN v ELSE MapGetSet(f, x)
  BY DEF MapSet, MapGetSet

\* Reading a map of sets after delete(k).
LEMMA MapDeleteGet ==
  ASSUME NEW f, NEW k, NEW x
  PROVE  MapGetSet(MapDelete(f, k), x) = IF x = k THEN {} ELSE MapGetSet(f, x)
  BY DEF MapDelete, MapGetSet

\* Updating the state of one invocation keeps the type of handshake.
LEMMA HandshakeUpdateType ==
  ASSUME NEW S, NEW f \in [Clients -> [Handlers -> S]],
         NEW c \in Clients, NEW h \in Handlers, NEW v \in S
  PROVE  [f EXCEPT ![c][h] = v] \in [Clients -> [Handlers -> S]]
  <1>1. f[c] \in [Handlers -> S]
    OBVIOUS
  <1>2. [f[c] EXCEPT ![h] = v] \in [Handlers -> S]
    BY <1>1
  <1> QED BY <1>2

\* The assertions of untrackClient follow from the consistency of the registry.
LEMMA AssertsFromConsistency ==
  ASSUME TypeOK, RegistryConsistent
  PROVE  UntrackAssertsHold
  <1> SUFFICES ASSUME NEW c \in Clients, phase[c] \in Live
               PROVE  UntrackAsserts(c)
    BY DEF UntrackAssertsHold
  <1>1. CASE account[c] = NoAccount
    BY <1>1 DEF UntrackAsserts, RegistryConsistent, LiveGuests
  <1>2. CASE account[c] # NoAccount
    <2>1. account[c] \in UUIDs
      BY <1>2 DEF TypeOK
    <2>2. MapGetSet(clients, IdOf[account[c]]) = LiveSockets(account[c])
      BY <2>1 DEF RegistryConsistent
    <2>3. c \in LiveSockets(account[c])
      BY DEF LiveSockets
    <2> QED BY <1>2, <2>2, <2>3 DEF UntrackAsserts
  <1> QED BY <1>1, <1>2

-----------------------------------------------------------------------------
(* The invariant is inductive. *)

LEMMA InitIInv == Init => IInv
  <1> SUFFICES ASSUME Init PROVE IInv
    OBVIOUS
  <1>1. TypeOK
    BY DEF Init, TypeOK, EmptyMap
  <1>2. RegistryConsistent
    BY DEF Init, RegistryConsistent, LiveGuests, LiveSockets, Live, EmptyMap, MapGetSet
  <1>3. SocketHistory
    BY DEF Init, SocketHistory, Live
  <1> QED BY <1>1, <1>2, <1>3 DEF IInv

\* A step that leaves the registry, the accounts and the set of live sockets
\* alone leaves the registry consistent.
LEMMA RegistryFrame ==
  ASSUME RegistryConsistent, UNCHANGED registry,
         \A c \in Clients : phase[c] \in Live <=> phase'[c] \in Live,
         \A c \in Clients : phase[c] \in Live => account'[c] = account[c]
  PROVE  RegistryConsistent'
  <1>1. LiveGuests' = LiveGuests
    BY DEF LiveGuests
  <1>2. ASSUME NEW u PROVE LiveSockets(u)' = LiveSockets(u)
    BY DEF LiveSockets
  <1> QED BY <1>1, <1>2 DEF RegistryConsistent, registry

\* terminate never moves a socket in or out of the live phases.
LEMMA TerminateLive ==
  ASSUME TypeOK, NEW c \in Clients, Terminate(c)
  PROVE  /\ phase' \in [Clients -> {"new", "open", "closing", "closed"}]
         /\ \A d \in Clients : phase[d] \in Live <=> phase'[d] \in Live
         /\ \A d \in Clients : phase[d] = "new" <=> phase'[d] = "new"
         /\ \A d \in Clients : phase'[d] = "open" => phase[d] = "open"
  BY DEF TypeOK, Terminate, Live

-----------------------------------------------------------------------------
(* Actions that touch neither the registry nor an account. *)

\* The actions that leave the registry and the accounts alone.
QuietStep(c) ==
  \/ PeerCloses(c)
  \/ RejectInvalidState(c)
  \/ RejectDuplicateHandshake(c)
  \/ \E h \in Handlers :
       \/ BeginHandshake(c, h)
       \/ LookupFails(c, h)
       \/ InitializeSucceeds(c, h)
       \/ InitializeFails(c, h)
  \/ SendPing(c)
  \/ OnHeartbeat(c)
  \/ PeerVanishes(c)

\* A quiet step keeps accounts and registry, and no socket becomes or stops
\* being live.
LEMMA QuietFrame ==
  ASSUME TypeOK, NEW c \in Clients, QuietStep(c)
  PROVE  /\ UNCHANGED <<registry, account, auth, pingInterval>>
         /\ phase' \in [Clients -> {"new", "open", "closing", "closed"}]
         /\ \A d \in Clients : phase[d] \in Live <=> phase'[d] \in Live
         /\ \A d \in Clients : phase[d] = "new" <=> phase'[d] = "new"
  <1>1. CASE Terminate(c) /\ UNCHANGED <<registry, account, auth, pingInterval>>
    BY <1>1, TerminateLive
  <1>2. CASE UNCHANGED <<phase, registry, account, auth, pingInterval>>
    BY <1>2 DEF TypeOK
  <1> QED
    BY <1>1, <1>2 DEF QuietStep, PeerCloses, RejectInvalidState,
         RejectDuplicateHandshake, BeginHandshake, LookupFails,
         InitializeSucceeds, InitializeFails, SendPing, OnHeartbeat,
         PeerVanishes, heartbeat

LEMMA QuietTypeOK ==
  ASSUME TypeOK, NEW c \in Clients, QuietStep(c)
  PROVE  TypeOK'
  <1>1. /\ UNCHANGED <<registry, account, auth, pingInterval>>
        /\ phase' \in [Clients -> {"new", "open", "closing", "closed"}]
    BY QuietFrame
  <1>2. handshake' \in [Clients -> [Handlers -> {"idle", "lookup", "initializing"}]]
    <2>1. \/ UNCHANGED handshake
          \/ \E h \in Handlers, v \in {"idle", "lookup"} :
               handshake' = [handshake EXCEPT ![c][h] = v]
      BY DEF QuietStep, PeerCloses, RejectInvalidState, RejectDuplicateHandshake,
           BeginHandshake, LookupFails, InitializeSucceeds, InitializeFails,
           SendPing, OnHeartbeat, PeerVanishes
    <2>2. handshake \in [Clients -> [Handlers -> {"idle", "lookup", "initializing"}]]
      BY DEF TypeOK
    <2> QED BY <2>1, <2>2, HandshakeUpdateType
  <1>3. greeted' \subseteq Clients
    BY DEF QuietStep, PeerCloses, RejectInvalidState, RejectDuplicateHandshake,
         BeginHandshake, LookupFails, InitializeSucceeds, InitializeFails,
         SendPing, OnHeartbeat, PeerVanishes, TypeOK
  <1>4. isAlive' \in [Clients -> BOOLEAN] /\ pongDue' \subseteq Clients /\ vanished' \subseteq Clients
    BY DEF QuietStep, PeerCloses, RejectInvalidState, RejectDuplicateHandshake,
         BeginHandshake, LookupFails, InitializeSucceeds, InitializeFails,
         SendPing, OnHeartbeat, PeerVanishes, TypeOK, heartbeat
  <1> QED BY <1>1, <1>2, <1>3, <1>4 DEF TypeOK, registry

\* A quiet step greets only a socket whose handler passed the lookup, starts
\* handlers and timers on live sockets only.
LEMMA QuietHistory ==
  ASSUME TypeOK, SocketHistory, NEW c \in Clients, QuietStep(c)
  PROVE  SocketHistory'
  <1> USE DEF SocketHistory
  <1>1. /\ UNCHANGED <<registry, account, auth, pingInterval>>
        /\ \A d \in Clients : phase[d] \in Live <=> phase'[d] \in Live
        /\ \A d \in Clients : phase[d] = "new" <=> phase'[d] = "new"
    BY QuietFrame
  <1>2. ASSUME NEW d \in Clients, phase[d] = "new" PROVE isAlive'[d]
    <2>1. c # d \/ UNCHANGED isAlive
      BY <1>2 DEF QuietStep, PeerCloses, RejectInvalidState, Live, TypeOK,
           RejectDuplicateHandshake, BeginHandshake, LookupFails,
           InitializeSucceeds, InitializeFails, SendPing, OnHeartbeat,
           PeerVanishes, heartbeat
    <2>2. isAlive'[d] = isAlive[d] \/ c = d
      BY <2>1 DEF QuietStep, PeerCloses, RejectInvalidState, TypeOK,
           RejectDuplicateHandshake, BeginHandshake, LookupFails,
           InitializeSucceeds, InitializeFails, SendPing, OnHeartbeat,
           PeerVanishes, heartbeat
    <2> QED BY <1>2, <2>1, <2>2
  <1>3. ASSUME NEW d \in Clients, phase[d] = "new", NEW h \in Handlers
        PROVE  handshake'[d][h] = "idle"
    <2>1. handshake[d][h] = "idle" /\ account[d] = NoAccount
      BY <1>3
    <2> QED
      BY <1>3, <2>1 DEF QuietStep, PeerCloses, RejectInvalidState, Live, TypeOK,
           RejectDuplicateHandshake, BeginHandshake, LookupFails,
           InitializeSucceeds, InitializeFails, SendPing, OnHeartbeat, PeerVanishes
  <1>4. ASSUME NEW d \in Clients, NEW h \in Handlers, handshake'[d][h] = "initializing"
        PROVE  handshake[d][h] = "initializing"
    BY <1>4 DEF QuietStep, PeerCloses, RejectInvalidState, TypeOK,
         RejectDuplicateHandshake, BeginHandshake, LookupFails,
         InitializeSucceeds, InitializeFails, SendPing, OnHeartbeat, PeerVanishes
  <1>5. ASSUME NEW d \in Clients, d \in greeted', d \notin greeted
        PROVE  \E h \in Handlers : handshake[d][h] = "initializing"
    BY <1>5 DEF QuietStep, PeerCloses, RejectInvalidState, TypeOK,
         RejectDuplicateHandshake, BeginHandshake, LookupFails,
         InitializeSucceeds, InitializeFails, SendPing, OnHeartbeat, PeerVanishes
  <1> QED BY <1>1, <1>2, <1>3, <1>4, <1>5

LEMMA QuietIInv ==
  ASSUME IInv, NEW c \in Clients, QuietStep(c)
  PROVE  IInv'
  <1>1. TypeOK' /\ SocketHistory'
    BY QuietTypeOK, QuietHistory DEF IInv
  <1>2. RegistryConsistent'
    BY QuietFrame, RegistryFrame DEF IInv
  <1> QED BY <1>1, <1>2 DEF IInv

-----------------------------------------------------------------------------
(* The three actions that change the registry. *)

LEMMA ConnectIInv ==
  ASSUME IInv, NEW c \in Clients, NEW u \in UUIDs, Connect(c, u)
  PROVE  IInv'
  <1> USE DEF IInv
  <1>1. TypeOK'
    BY DEF Connect, TypeOK
  <1>2. account[c] = NoAccount
    BY DEF Connect, SocketHistory
  <1>3. RegistryConsistent'
    <2>1. LiveGuests' = LiveGuests \cup {c}
      BY <1>2 DEF LiveGuests, Connect, Live, TypeOK
    <2>2. ASSUME NEW v \in UUIDs PROVE LiveSockets(v)' = LiveSockets(v)
      BY <1>2, NoAccountAssumption DEF LiveSockets, Connect, Live, TypeOK
    <2> QED BY <2>1, <2>2 DEF RegistryConsistent, Connect
  <1>4. SocketHistory'
    BY NoAccountAssumption DEF SocketHistory, Connect, TypeOK, Live
  <1> QED BY <1>1, <1>3, <1>4

LEMMA LookupSucceedsIInv ==
  ASSUME IInv, NEW c \in Clients, NEW h \in Handlers, LookupSucceeds(c, h)
  PROVE  IInv'
  <1> USE DEF IInv
  <1>0. phase[c] # "new" /\ auth[c] \in UUIDs
    BY DEF LookupSucceeds, SocketHistory
  <1> PICK u \in UUIDs : u = auth[c]
    BY <1>0
  <1>1. u \in UUIDs /\ phase[c] # "new" /\ u # NoAccount /\ auth[c] = u
    BY <1>0, NoAccountAssumption
  <1>2. account' = [account EXCEPT ![c] = u]
    BY <1>1 DEF LookupSucceeds
  <1>3. /\ phase' \in [Clients -> {"new", "open", "closing", "closed"}]
        /\ \A d \in Clients : phase[d] \in Live <=> phase'[d] \in Live
        /\ \A d \in Clients : phase[d] = "new" <=> phase'[d] = "new"
    BY TerminateLive DEF LookupSucceeds, TypeOK
  <1>4. TypeOK'
    <2>1. /\ temporaryClients' \subseteq Clients
          /\ DOMAIN clients' \subseteq {IdOf[v] : v \in UUIDs}
          /\ clients' \in [DOMAIN clients' -> SUBSET Clients]
          /\ DOMAIN memberUUIDToId' \subseteq UUIDs
          /\ memberUUIDToId' \in [DOMAIN memberUUIDToId' -> Ids]
      <3>1. CASE c \in temporaryClients
        BY <1>1, <3>1, IdOfAssumption
           DEF LookupSucceeds, TrackClient, TypeOK, MapSet, MapGetSet
      <3>2. CASE c \notin temporaryClients
        BY <3>2 DEF LookupSucceeds, TrackClient, TypeOK, registry
      <3> QED BY <3>1, <3>2
    <2>2. handshake' \in [Clients -> [Handlers -> {"idle", "lookup", "initializing"}]]
      <3>1. \E v \in {"idle", "initializing"} : handshake' = [handshake EXCEPT ![c][h] = v]
        BY DEF LookupSucceeds
      <3>2. handshake \in [Clients -> [Handlers -> {"idle", "lookup", "initializing"}]]
        BY DEF TypeOK
      <3> QED BY <3>1, <3>2, HandshakeUpdateType
    <2> QED BY <1>1, <1>2, <1>3, <2>1, <2>2 DEF LookupSucceeds, TypeOK, heartbeat
  <1>5. SocketHistory'
    BY <1>1, <1>2, <1>3 DEF LookupSucceeds, SocketHistory, TypeOK, heartbeat
  <1>6. RegistryConsistent'
    <2>1. CASE c \in temporaryClients
      <3>1. phase[c] \in Live /\ account[c] = NoAccount
        BY <2>1 DEF RegistryConsistent, LiveGuests
      <3>2. LiveGuests' = LiveGuests \ {c}
        BY <1>1, <1>2, <1>3 DEF LiveGuests, TypeOK
      <3>3. LiveSockets(u)' = LiveSockets(u) \cup {c}
        BY <1>1, <1>2, <1>3, <3>1 DEF LiveSockets, TypeOK, LookupSucceeds
      <3>4. ASSUME NEW v \in UUIDs, v # u PROVE LiveSockets(v)' = LiveSockets(v)
        BY <1>1, <1>2, <1>3, <3>1, <3>4, NoAccountAssumption
           DEF LiveSockets, TypeOK
      <3>5. /\ temporaryClients' = temporaryClients \ {c}
            /\ clients' = MapSet(clients, IdOf[u], MapGetSet(clients, IdOf[u]) \cup {c})
            /\ memberUUIDToId' = IF IdOf[u] \in DOMAIN clients THEN memberUUIDToId
                                 ELSE MapSet(memberUUIDToId, u, IdOf[u])
        BY <1>1, <2>1 DEF LookupSucceeds, TrackClient
      <3>6. ASSUME NEW v \in UUIDs, v # u PROVE IdOf[v] # IdOf[u]
        BY <1>1, <3>6, IdOfAssumption
      <3>7. ASSUME NEW v \in UUIDs
            PROVE  /\ MapGetSet(clients, IdOf[v]) = LiveSockets(v)
                   /\ IdOf[v] \in DOMAIN clients <=> LiveSockets(v) # {}
                   /\ v \in DOMAIN memberUUIDToId <=> LiveSockets(v) # {}
                   /\ v \in DOMAIN memberUUIDToId => memberUUIDToId[v] = IdOf[v]
        BY DEF RegistryConsistent
      <3>8. ASSUME NEW v \in UUIDs
            PROVE  /\ MapGetSet(clients', IdOf[v]) = LiveSockets(v)'
                   /\ IdOf[v] \in DOMAIN clients' <=> LiveSockets(v)' # {}
        <4>1. CASE v = u
          <5>1. MapGetSet(clients', IdOf[v]) = MapGetSet(clients, IdOf[v]) \cup {c}
            BY <3>5, <4>1, MapSetGet, MapDeleteGet
          <5>2. IdOf[v] \in DOMAIN clients'
            BY <3>5, <4>1 DEF MapSet
          <5> QED BY <3>3, <3>7, <4>1, <5>1, <5>2
        <4>2. CASE v # u
          <5>1. MapGetSet(clients', IdOf[v]) = MapGetSet(clients, IdOf[v])
            BY <3>5, <3>6, <4>2, MapSetGet, MapDeleteGet
          <5>2. IdOf[v] \in DOMAIN clients' <=> IdOf[v] \in DOMAIN clients
            BY <3>5, <3>6, <4>2 DEF MapSet
          <5> QED BY <3>4, <3>7, <4>2, <5>1, <5>2
        <4> QED BY <4>1, <4>2
      <3>9. ASSUME NEW v \in UUIDs
            PROVE  /\ v \in DOMAIN memberUUIDToId' <=> LiveSockets(v)' # {}
                   /\ v \in DOMAIN memberUUIDToId' => memberUUIDToId'[v] = IdOf[v]
        <4>1. CASE IdOf[u] \in DOMAIN clients
          <5>1. memberUUIDToId' = memberUUIDToId /\ LiveSockets(u) # {}
            BY <1>1, <3>5, <3>7, <4>1
          <5> QED BY <3>3, <3>4, <3>7, <5>1
        <4>2. CASE IdOf[u] \notin DOMAIN clients
          <5>1. memberUUIDToId' = MapSet(memberUUIDToId, u, IdOf[u])
            BY <3>5, <4>2
          <5> QED BY <3>3, <3>4, <3>7, <5>1 DEF MapSet
        <4> QED BY <4>1, <4>2
      <3> QED BY <3>2, <3>5, <3>8, <3>9 DEF RegistryConsistent
    <2>2. CASE c \notin temporaryClients
      <3>1. phase[c] \notin Live \/ account[c] = u
        BY <1>1, <2>2 DEF RegistryConsistent, LiveGuests, SocketHistory
      <3>2. UNCHANGED registry
        BY <2>2 DEF LookupSucceeds, TrackClient
      <3>3. \A d \in Clients : phase[d] \in Live => account'[d] = account[d]
        BY <1>2, <3>1 DEF TypeOK
      <3> QED BY <1>3, <3>2, <3>3, RegistryFrame
    <2> QED BY <2>1, <2>2
  <1> QED BY <1>4, <1>5, <1>6

LEMMA DisconnectIInv ==
  ASSUME IInv, NEW c \in Clients, Disconnect(c)
  PROVE  IInv'
  <1> USE DEF IInv
  <1>1. phase[c] \in Live /\ phase' = [phase EXCEPT ![c] = "closed"] /\ account' = account
    BY DEF Disconnect, Live
  <1>2. UntrackAsserts(c)
    BY <1>1, AssertsFromConsistency DEF UntrackAssertsHold
  <1>3. CASE account[c] = NoAccount
    <2>1. temporaryClients' = temporaryClients \ {c} /\ UNCHANGED <<clients, memberUUIDToId>>
      BY <1>2, <1>3 DEF Disconnect, UntrackClient
    <2>2. LiveGuests' = LiveGuests \ {c}
      BY <1>1 DEF LiveGuests, TypeOK, Live
    <2>3. ASSUME NEW v \in UUIDs PROVE LiveSockets(v)' = LiveSockets(v)
      BY <1>1, <1>3, NoAccountAssumption DEF LiveSockets, TypeOK, Live
    <2>4. RegistryConsistent'
      BY <2>1, <2>2, <2>3 DEF RegistryConsistent
    <2>5. TypeOK'
      BY <1>1, <2>1 DEF Disconnect, TypeOK
    <2>6. SocketHistory'
      BY <1>1 DEF Disconnect, SocketHistory, TypeOK, Live
    <2> QED BY <2>4, <2>5, <2>6
  <1>4. CASE account[c] # NoAccount
    <2> PICK u \in UUIDs : u = account[c]
      BY <1>4 DEF TypeOK
    <2>1. UntrackMember(c, u)
      BY <1>2, <1>4 DEF Disconnect, UntrackClient
    <2> DEFINE rest == clients[IdOf[u]] \ {c}
    <2>2. c \in clients[IdOf[u]] /\ IdOf[u] \in DOMAIN clients
      BY <1>2, <1>4 DEF UntrackAsserts, MapGetSet
    <2>3. clients[IdOf[u]] = LiveSockets(u)
      BY <2>2 DEF RegistryConsistent, MapGetSet
    <2>4. LiveSockets(u)' = rest
      BY <1>1, <2>3 DEF LiveSockets, TypeOK, Live
    <2>5. ASSUME NEW v \in UUIDs, v # u
          PROVE LiveSockets(v)' = LiveSockets(v) /\ IdOf[v] # IdOf[u]
      BY <1>1, <2>5, IdOfAssumption DEF LiveSockets, TypeOK, Live
    <2>6. LiveGuests' = LiveGuests
      BY <1>1, <1>4 DEF LiveGuests, TypeOK, Live
    <2>7. /\ clients' = IF rest = {} THEN MapDelete(clients, IdOf[u])
                        ELSE MapSet(clients, IdOf[u], rest)
          /\ memberUUIDToId' = IF rest = {} THEN MapDelete(memberUUIDToId, u)
                               ELSE memberUUIDToId
          /\ UNCHANGED temporaryClients
      BY <2>1 DEF UntrackMember
    <2>8. ASSUME NEW v \in UUIDs
          PROVE  /\ MapGetSet(clients, IdOf[v]) = LiveSockets(v)
                 /\ IdOf[v] \in DOMAIN clients <=> LiveSockets(v) # {}
                 /\ v \in DOMAIN memberUUIDToId <=> LiveSockets(v) # {}
                 /\ v \in DOMAIN memberUUIDToId => memberUUIDToId[v] = IdOf[v]
      BY DEF RegistryConsistent
    <2> HIDE DEF rest
    <2>9. ASSUME NEW v \in UUIDs
          PROVE  /\ MapGetSet(clients', IdOf[v]) = LiveSockets(v)'
                 /\ IdOf[v] \in DOMAIN clients' <=> LiveSockets(v)' # {}
      <3>1. CASE v = u
        <4>1. MapGetSet(clients', IdOf[v]) = rest
          <5>1. CASE rest = {}
            BY <2>7, <3>1, <5>1, MapSetGet, MapDeleteGet
          <5>2. CASE rest # {}
            BY <2>7, <3>1, <5>2, MapSetGet, MapDeleteGet
          <5> QED BY <5>1, <5>2
        <4>2. IdOf[v] \in DOMAIN clients' <=> rest # {}
          BY <2>7, <3>1 DEF MapSet, MapDelete
        <4> QED BY <2>4, <3>1, <4>1, <4>2
      <3>2. CASE v # u
        <4>1. MapGetSet(clients', IdOf[v]) = MapGetSet(clients, IdOf[v])
          <5>1. CASE rest = {}
            BY <2>5, <2>7, <3>2, <5>1, MapSetGet, MapDeleteGet
          <5>2. CASE rest # {}
            BY <2>5, <2>7, <3>2, <5>2, MapSetGet, MapDeleteGet
          <5> QED BY <5>1, <5>2
        <4>2. IdOf[v] \in DOMAIN clients' <=> IdOf[v] \in DOMAIN clients
          BY <2>5, <2>7, <3>2 DEF MapSet, MapDelete
        <4> QED BY <2>5, <2>8, <3>2, <4>1, <4>2
      <3> QED BY <3>1, <3>2
    <2>10. ASSUME NEW v \in UUIDs
           PROVE  /\ v \in DOMAIN memberUUIDToId' <=> LiveSockets(v)' # {}
                  /\ v \in DOMAIN memberUUIDToId' => memberUUIDToId'[v] = IdOf[v]
      <3>1. CASE rest = {}
        BY <2>4, <2>5, <2>7, <2>8, <3>1 DEF MapDelete
      <3>2. CASE rest # {}
        <4>1. u \in DOMAIN memberUUIDToId
          BY <2>2, <2>8
        <4> QED BY <2>4, <2>5, <2>7, <2>8, <3>2, <4>1
      <3> QED BY <3>1, <3>2
    <2>11. RegistryConsistent'
      BY <2>6, <2>7, <2>9, <2>10 DEF RegistryConsistent
    <2>12. TypeOK'
      <3>1. rest \subseteq Clients /\ IdOf[u] \in DOMAIN clients
        BY <2>2 DEF rest, TypeOK
      <3>2. /\ DOMAIN clients' \subseteq {IdOf[v] : v \in UUIDs}
            /\ clients' \in [DOMAIN clients' -> SUBSET Clients]
        BY <2>7, <3>1 DEF TypeOK, MapSet, MapDelete
      <3>3. /\ DOMAIN memberUUIDToId' \subseteq UUIDs
            /\ memberUUIDToId' \in [DOMAIN memberUUIDToId' -> Ids]
        BY <2>7 DEF TypeOK, MapDelete
      <3> QED BY <1>1, <2>7, <3>2, <3>3 DEF Disconnect, TypeOK
    <2>13. SocketHistory'
      BY <1>1 DEF Disconnect, SocketHistory, TypeOK, Live
    <2> QED BY <2>11, <2>12, <2>13
  <1> QED BY <1>3, <1>4

-----------------------------------------------------------------------------
(* The theorems. *)

\* Every step is one of the three registry actions or a quiet step.
LEMMA StepCases ==
  ASSUME Next
  PROVE  \E c \in Clients :
           \/ \E u \in UUIDs : Connect(c, u)
           \/ \E h \in Handlers : LookupSucceeds(c, h)
           \/ Disconnect(c)
           \/ QuietStep(c)
  BY DEF Next, QuietStep, HandshakeStep

\* IInv is an invariant of the specification.
THEOREM Invariance == Spec => []IInv
  <1>1. Init => IInv
    BY InitIInv
  <1>2. IInv /\ [Next]_vars => IInv'
    <2> SUFFICES ASSUME IInv, [Next]_vars PROVE IInv'
      OBVIOUS
    <2>1. CASE Next
      BY <2>1, StepCases, ConnectIInv, LookupSucceedsIInv, DisconnectIInv, QuietIInv
    <2>2. CASE UNCHANGED vars
      BY <2>2 DEF vars, registry, heartbeat, IInv, TypeOK, RegistryConsistent,
           SocketHistory, LiveGuests, LiveSockets
    <2> QED BY <2>1, <2>2
  <1> QED BY <1>1, <1>2, PTL DEF Spec

\* Type correctness of the connection registry and the socket state.
THEOREM TypeCorrect == Spec => []TypeOK
  BY Invariance, PTL DEF IInv

\* temporaryClients, clients and memberUUIDToId always describe exactly the live
\* sockets, however handshakes and closes interleave.
THEOREM RegistryIsConsistent == Spec => []RegistryConsistent
  BY Invariance, PTL DEF IInv

\* No assertion of untrackClient can fail, so no closed socket is leaked.
THEOREM UntrackNeverFails == Spec => []UntrackAssertsHold
  <1>1. IInv => UntrackAssertsHold
    BY AssertsFromConsistency DEF IInv
  <1> QED BY <1>1, Invariance, PTL

\* unicastByAccountUUID and broadcast reach exactly the live sockets of an
\* account and of all accounts.
THEOREM DeliveryIsExact == Spec => []DeliveryExact
  <1>1. ASSUME IInv PROVE DeliveryExact
    <2>1. ASSUME NEW u \in UUIDs PROVE UnicastByAccountUUID(u, {}) = LiveSockets(u)
      BY <1>1 DEF IInv, RegistryConsistent, UnicastByAccountUUID, Unicast
    <2>2. ASSUME NEW u \in UUIDs PROVE LiveSockets(u) = MapGetSet(clients, IdOf[u])
      BY <1>1 DEF IInv, RegistryConsistent
    <2>3. Broadcast({}) \subseteq UNION {LiveSockets(u) : u \in UUIDs}
      <3> SUFFICES ASSUME NEW i \in DOMAIN clients, NEW c \in clients[i]
                   PROVE  c \in UNION {LiveSockets(u) : u \in UUIDs}
        BY DEF Broadcast
      <3>1. PICK u \in UUIDs : i = IdOf[u]
        BY <1>1 DEF IInv, TypeOK
      <3>2. c \in LiveSockets(u)
        BY <2>2, <3>1 DEF MapGetSet
      <3> QED BY <3>2
    <2>4. UNION {LiveSockets(u) : u \in UUIDs} \subseteq Broadcast({})
      <3> SUFFICES ASSUME NEW u \in UUIDs, NEW c \in LiveSockets(u)
                   PROVE  c \in Broadcast({})
        OBVIOUS
      <3>1. c \in MapGetSet(clients, IdOf[u])
        BY <2>2
      <3> QED BY <3>1 DEF MapGetSet, Broadcast
    <2> QED BY <2>1, <2>3, <2>4 DEF DeliveryExact
  <1> QED BY <1>1, Invariance, PTL

\* A socket that was sent INITIALIZE and is live receives the account's pushes.
THEOREM GreetedAreSubscribed == Spec => []GreetedIsSubscribed
  <1>1. ASSUME IInv PROVE GreetedIsSubscribed
    <2> SUFFICES ASSUME NEW c \in greeted, phase[c] \in Live
                 PROVE  c \in Unicast(IdOf[auth[c]], {})
      BY DEF GreetedIsSubscribed
    <2>1. c \in Clients /\ account[c] = auth[c] /\ auth[c] \in UUIDs
      BY <1>1 DEF IInv, TypeOK, SocketHistory, Live
    <2>2. c \in LiveSockets(auth[c])
      BY <2>1 DEF LiveSockets
    <2> QED BY <1>1, <2>1, <2>2 DEF IInv, RegistryConsistent, Unicast
  <1> QED BY <1>1, Invariance, PTL

-----------------------------------------------------------------------------
(* The heartbeat. *)

\* The heartbeat invariant needs only what SocketHistory says of new sockets
\* and timers.
LEMMA HeartbeatStep ==
  ASSUME IInv, HeartbeatSound, [Next]_vars
  PROVE  HeartbeatSound'
  <1> USE DEF HeartbeatSound, IInv
  <1>1. CASE UNCHANGED vars
    BY <1>1 DEF vars, heartbeat
  <1>2. ASSUME NEW c \in Clients, NEW u \in UUIDs, Connect(c, u)
        PROVE  HeartbeatSound'
    BY <1>2 DEF Connect, TypeOK, SocketHistory
  <1>3. ASSUME NEW c \in Clients, Terminate(c), UNCHANGED heartbeat
        PROVE  HeartbeatSound'
    BY <1>3, TerminateLive DEF heartbeat
  <1>4. ASSUME NEW c \in Clients, UNCHANGED <<phase, heartbeat>>
        PROVE  HeartbeatSound'
    BY <1>4 DEF heartbeat
  <1>5. ASSUME NEW c \in Clients, Disconnect(c)
        PROVE  HeartbeatSound'
    BY <1>5 DEF Disconnect, TypeOK
  <1>6. ASSUME NEW c \in Clients, SendPing(c)
        PROVE  HeartbeatSound'
    <2>1. CASE isAlive[c]
      BY <1>6, <2>1 DEF SendPing, TypeOK
    <2>2. CASE ~isAlive[c]
      BY <1>6, <2>2, TerminateLive DEF SendPing
    <2> QED BY <2>1, <2>2
  <1>7. ASSUME NEW c \in Clients, OnHeartbeat(c)
        PROVE  HeartbeatSound'
    BY <1>7 DEF OnHeartbeat, TypeOK
  <1>8. ASSUME NEW c \in Clients, PeerVanishes(c)
        PROVE  HeartbeatSound'
    BY <1>8 DEF PeerVanishes, TypeOK
  <1> QED
    BY <1>1, <1>2, <1>3, <1>4, <1>5, <1>6, <1>7, <1>8
       DEF Next, HandshakeStep, PeerCloses, RejectInvalidState, heartbeat,
           RejectDuplicateHandshake, BeginHandshake, LookupFails,
           LookupSucceeds, InitializeSucceeds, InitializeFails

\* sendPing can only cut a reachable peer that still has a pong on its way.
THEOREM HeartbeatIsSound == Spec => []HeartbeatSound
  <1>1. Init => HeartbeatSound
    BY DEF Init, HeartbeatSound
  <1> QED BY <1>1, HeartbeatStep, Invariance, PTL DEF Spec

-----------------------------------------------------------------------------
(* The registry implements Presence. *)

Arrived == {c \in Clients : phase[c] # "new"}
Members == [u \in UUIDs |-> UnicastByAccountUUID(u, {})]

\* Under the invariant the mapped members are the live sockets of each account.
LEMMA MembersAreLive ==
  ASSUME IInv
  PROVE  Members = [u \in UUIDs |-> LiveSockets(u)]
  BY DEF IInv, RegistryConsistent, UnicastByAccountUUID, Unicast, Members

LEMMA StepRefines ==
  ASSUME IInv, IInv', [Next]_vars
  PROVE  [P!Next]_(P!vars)
  <1> DEFINE Stutter == UNCHANGED <<Arrived, temporaryClients, Members>>
  <1>a. Members = [u \in UUIDs |-> LiveSockets(u)]
    BY MembersAreLive
  <1>b. Members' = [u \in UUIDs |-> LiveSockets(u)']
    <2>1. IInv' => Members' = [u \in UUIDs |-> LiveSockets(u)']
      BY DEF IInv, RegistryConsistent, UnicastByAccountUUID, Unicast, Members
    <2> QED BY <2>1
  <1> SUFFICES \/ \E c \in Clients :
                    \/ P!Arrive(c)
                    \/ \E u \in UUIDs : P!Attach(c, u)
                    \/ P!Depart(c)
               \/ Stutter
    BY DEF P!Next, P!vars, Arrived, Members
  <1>1. CASE UNCHANGED vars
    BY <1>1 DEF vars, registry, Arrived, Members, UnicastByAccountUUID, Unicast
  <1>2. ASSUME NEW c \in Clients, NEW u \in UUIDs, Connect(c, u)
        PROVE  P!Arrive(c)
    <2>1. Arrived' = Arrived \cup {c} /\ c \notin Arrived
      BY <1>2 DEF Connect, Arrived, IInv, TypeOK
    <2>2. UNCHANGED Members
      BY <1>2 DEF Connect, Members, UnicastByAccountUUID, Unicast
    <2>3. temporaryClients' = temporaryClients \cup {c}
      BY <1>2 DEF Connect
    <2> QED BY <2>1, <2>2, <2>3 DEF P!Arrive, Arrived, Members
  <1>3. ASSUME NEW c \in Clients, NEW h \in Handlers, LookupSucceeds(c, h)
        PROVE  (\E u \in UUIDs : P!Attach(c, u)) \/ Stutter
    <2>1. UNCHANGED Arrived
      BY <1>3, TerminateLive DEF LookupSucceeds, Arrived, IInv
    <2>2. CASE c \notin temporaryClients
      BY <1>3, <2>1, <2>2
         DEF LookupSucceeds, TrackClient, registry, Members, UnicastByAccountUUID, Unicast
    <2>3. CASE c \in temporaryClients
      <3>1. phase[c] \in Live /\ account[c] = NoAccount /\ phase[c] # "new"
        BY <2>3 DEF IInv, RegistryConsistent, LiveGuests, Live
      <3> PICK u \in UUIDs : u = auth[c]
        BY <3>1 DEF IInv, SocketHistory
      <3>2. account' = [account EXCEPT ![c] = u]
        BY <1>3 DEF LookupSucceeds
      <3>3. \A d \in Clients : phase[d] \in Live <=> phase'[d] \in Live
        BY <1>3, TerminateLive DEF LookupSucceeds, IInv
      <3>4. LiveSockets(u)' = LiveSockets(u) \cup {c}
        BY <3>1, <3>2, <3>3 DEF LiveSockets, IInv, TypeOK
      <3>5. ASSUME NEW v \in UUIDs, v # u PROVE LiveSockets(v)' = LiveSockets(v)
        BY <3>1, <3>2, <3>3, <3>5, NoAccountAssumption DEF LiveSockets, IInv, TypeOK
      <3>6. Members' = [Members EXCEPT ![u] = @ \cup {c}]
        BY <1>a, <1>b, <3>4, <3>5
      <3>7. temporaryClients' = temporaryClients \ {c}
        BY <1>3, <2>3 DEF LookupSucceeds, TrackClient
      <3>8. P!Attach(c, u)
        BY <2>1, <2>3, <3>6, <3>7 DEF P!Attach, Arrived, Members
      <3> QED BY <3>8
    <2> QED BY <2>2, <2>3
  <1>4. ASSUME NEW c \in Clients, Disconnect(c)
        PROVE  P!Depart(c)
    <2>1. phase[c] \in Live /\ phase' = [phase EXCEPT ![c] = "closed"] /\ account' = account
      BY <1>4 DEF Disconnect, Live
    <2>2. UNCHANGED Arrived
      BY <1>4 DEF Disconnect, Arrived, IInv, TypeOK
    <2>3. LiveGuests' = LiveGuests \ {c}
      BY <2>1 DEF LiveGuests, IInv, TypeOK, Live
    <2>4. temporaryClients' = temporaryClients \ {c}
      BY <2>3 DEF IInv, RegistryConsistent
    <2>5. ASSUME NEW v \in UUIDs PROVE LiveSockets(v)' = LiveSockets(v) \ {c}
      BY <2>1 DEF LiveSockets, IInv, TypeOK, Live
    <2>6. Members' = [u \in UUIDs |-> Members[u] \ {c}]
      BY <1>a, <1>b, <2>5
    <2>7. c \in temporaryClients \/ \E u \in UUIDs : c \in Members[u]
      <3>1. CASE account[c] = NoAccount
        BY <2>1, <3>1 DEF IInv, RegistryConsistent, LiveGuests
      <3>2. CASE account[c] # NoAccount
        <4>1. account[c] \in UUIDs /\ c \in LiveSockets(account[c])
          BY <2>1, <3>2 DEF IInv, TypeOK, LiveSockets
        <4> QED BY <1>a, <4>1
      <3> QED BY <3>1, <3>2
    <2> QED BY <2>2, <2>4, <2>6, <2>7 DEF P!Depart, Arrived, Members
  <1>5. ASSUME NEW c \in Clients, QuietStep(c)
        PROVE  Stutter
    <2>1. UNCHANGED registry /\ \A d \in Clients : phase[d] = "new" <=> phase'[d] = "new"
      BY <1>5, QuietFrame DEF IInv
    <2> QED BY <2>1 DEF Arrived, registry, Members, UnicastByAccountUUID, Unicast
  <1> QED BY <1>1, <1>2, <1>3, <1>4, <1>5, StepCases

\* The registry implements Presence: arrive once, attach to one account, depart
\* for good.
THEOREM RefinesPresence == Spec => PresenceSpec
  <1>1. Init => P!Init
    BY DEF Init, P!Init, EmptyMap, UnicastByAccountUUID
  <1>2. IInv /\ IInv' /\ [Next]_vars => [P!Next]_(P!vars)
    BY StepRefines
  <1> QED BY <1>1, <1>2, Invariance, PTL DEF Spec, PresenceSpec, P!Spec

=============================================================================
