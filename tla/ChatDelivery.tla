---------------------------- MODULE ChatDelivery ----------------------------
(***************************************************************************)
(* What one account's sockets learn of one room: the HANDSHAKE snapshot    *)
(* (room list, then messages after the client's cursor) against the live   *)
(* pushes (CHAT_MESSAGE, INSERT_ROOM, SYNC_CURSOR) that run beside it.     *)
(* Every query is executed at some time between its issue and the          *)
(* resumption of its handler.  Connections are those of ChatConnections, a *)
(* live socket being tracked from the lookup of its account on.  The       *)
(* account stays a member once it is one; the cache is taken to agree      *)
(* with its row after the handler that inserts the row has resumed:        *)
(* RoomMembership says when it does not.                                   *)
(***************************************************************************)
EXTENDS Naturals, FiniteSets

CONSTANTS
  Sockets,    \* bound: connections the account has at once
  Messages,   \* bound: messages ever posted to the room
  MaxStamp,   \* bound: timestamps
  Take,       \* rows that loadMessagesAfter returns at most
  Fetched,    \* bound: message UUIDs that clients send with HANDSHAKE, or NoMessage
  Syncs,      \* bound: SYNC_CURSOR handlers in flight at once
  Idle,       \* a free handler
  NoMessage   \* a null message UUID

ASSUME DeliveryAssumption ==
  /\ MaxStamp \in Nat
  /\ Take \in Nat \ {0}
  /\ NoMessage \notin Messages

VARIABLES
  clock,        \* timestamps given out
  stamp,        \* ChatMessage.timestamp
  post,         \* where the handler that posts each message is
  addressed,    \* messages about to go out whose member set has the account
  entry,        \* the account's ChatMember row, and the handler that inserts it
  roomPage,     \* messages loaded for INSERT_ROOM
  roomCut,      \* history: messages `take` left out of them
  socket,       \* where each connection is
  cursor,       \* the message UUID the client sent with HANDSHAKE
  listed,       \* sockets whose room list has the room
  page,         \* messages loaded for INITIALIZE
  cut,          \* history: messages `take` left out of what the socket was sent
  knows,        \* sockets that were sent the room
  got,          \* messages each socket was sent
  lastMessage,  \* ChatMember.lastMessageId
  mark,         \* lastMessageId in the socket's room list
  told,         \* the read cursor each client was told last
  sync,         \* SYNC_CURSOR handlers in flight
  raced         \* history: a SYNC_CURSOR overlapped another one or a snapshot

posting == <<clock, stamp, post, addressed>>
entering == <<entry, roomPage, roomCut>>
greeting == <<socket, cursor, listed, page, mark>>
received == <<cut, knows, got, told>>
syncing == <<lastMessage, sync, raced>>
vars == <<posting, entering, greeting, received, syncing>>

SyncRecords == [from : Sockets, message : Messages, step : {"query", "done"}]
ASSUME IdleAssumption == Idle \notin SyncRecords

Posts == {"none", "issued", "stored", "addressed", "sent", "lost"}
Entries == {"outside", "inserted", "loading", "loaded", "member", "stranded"}
Phases == {"free", "temporary", "tracked", "listed", "paged", "ready"}

Stored == {m \in Messages : post[m] \in {"stored", "addressed", "sent"}}
Inserted == entry # "outside"
Tracked == {s \in Sockets : socket[s] \in {"tracked", "listed", "paged", "ready"}}

(***************************************************************************)
(* loadMessagesAfter: the rows not older than the cursor's, in the order   *)
(* of their timestamps and without the first, at most Take of them.  Rows  *)
(* of one timestamp come in any order.                                     *)
(***************************************************************************)

\* Mutant of Candidates: the skip is one too many.
CandidatesSkipTwo(c) ==
  IF c = NoMessage THEN {Stored}
  ELSE LET eligible == {m \in Stored : stamp[m] >= stamp[c]}
       IN {eligible \ {c, m} : m \in eligible}

\* the rows that skip and cursor leave
Candidates(c) ==
  IF c = NoMessage THEN {Stored}
  ELSE LET eligible == {m \in Stored : stamp[m] >= stamp[c]}
       IN {eligible \ {m} : m \in {n \in eligible : stamp[n] = stamp[c]}}

\* the first Take of them
IsPageOf(rows, candidates) ==
  /\ rows \subseteq candidates
  /\ Cardinality(rows) <= Take
  /\ rows # candidates => Cardinality(rows) = Take
  /\ \A m \in rows, n \in candidates \ rows : stamp[m] <= stamp[n]

-----------------------------------------------------------------------------
Init ==
  /\ clock = 0
  /\ stamp = [m \in Messages |-> 0]
  /\ post = [m \in Messages |-> "none"]
  /\ addressed = {}
  /\ entry \in {"outside", "member"}
  /\ roomPage = {} /\ roomCut = {}
  /\ socket = [s \in Sockets |-> "free"]
  /\ cursor = [s \in Sockets |-> NoMessage]
  /\ listed = {}
  /\ page = [s \in Sockets |-> {}]
  /\ cut = [s \in Sockets |-> {}]
  /\ knows = {}
  /\ got = [s \in Sockets |-> {}]
  /\ lastMessage = NoMessage
  /\ mark = [s \in Sockets |-> NoMessage]
  /\ told = [s \in Sockets |-> NoMessage]
  /\ sync = [k \in Syncs |-> Idle]
  /\ raced = FALSE

(***************************************************************************)
(* CHAT_MESSAGE and the notice messages: createNewChatMessage, then        *)
(* multicastToRoom.  The timestamp is taken when the query is issued.      *)
(***************************************************************************)

\* Mutant of PostIssued: the timestamp runs ahead of the clock.
PostIssuedAhead(m) ==
  /\ post[m] = "none"
  /\ post' = [post EXCEPT ![m] = "issued"]
  /\ \E now \in {clock, clock + 1} :
       /\ now <= MaxStamp
       /\ clock' = now
       /\ stamp' = [stamp EXCEPT ![m] = now + 1]
  /\ UNCHANGED <<addressed, entering, greeting, received, syncing>>

PostIssued(m) ==
  /\ post[m] = "none"
  /\ post' = [post EXCEPT ![m] = "issued"]
  /\ \E now \in {clock, clock + 1} :
       /\ now <= MaxStamp
       /\ clock' = now
       /\ stamp' = [stamp EXCEPT ![m] = now]
  /\ UNCHANGED <<addressed, entering, greeting, received, syncing>>

PostStored(m) ==
  /\ post[m] = "issued"
  /\ post' = [post EXCEPT ![m] = "stored"]
  /\ UNCHANGED <<clock, stamp, addressed, entering, greeting, received, syncing>>

\* the query fails, and the sender's socket is terminated
PostFails(m) ==
  /\ post[m] = "issued"
  /\ post' = [post EXCEPT ![m] = "lost"]
  /\ UNCHANGED <<clock, stamp, addressed, entering, greeting, received, syncing>>

\* getChatMemberSet: the cache on a hit, the rows at the time of its read on a
\* miss.  Between the insertion and its handler's resumption they differ.
PostAddressed(m) ==
  /\ post[m] = "stored"
  /\ post' = [post EXCEPT ![m] = "addressed"]
  /\ \/ Inserted /\ addressed' = addressed \cup {m}
     \/ entry \in {"outside", "inserted"} /\ UNCHANGED addressed
  /\ UNCHANGED <<clock, stamp, entering, greeting, received, syncing>>

\* Mutant of PostSent: sockets that still wait for INITIALIZE are left out.
PostSentToReady(m) ==
  /\ post[m] = "addressed"
  /\ post' = [post EXCEPT ![m] = "sent"]
  /\ got' = [s \in Sockets |-> IF socket[s] = "ready" /\ m \in addressed
                               THEN got[s] \cup {m} ELSE got[s]]
  /\ addressed' = addressed \ {m}
  /\ UNCHANGED <<clock, stamp, entering, greeting, cut, knows, told, syncing>>

\* unicast to every socket of the account
PostSent(m) ==
  /\ post[m] = "addressed"
  /\ post' = [post EXCEPT ![m] = "sent"]
  /\ got' = [s \in Sockets |-> IF s \in Tracked /\ m \in addressed
                               THEN got[s] \cup {m} ELSE got[s]]
  /\ addressed' = addressed \ {m}
  /\ UNCHANGED <<clock, stamp, entering, greeting, cut, knows, told, syncing>>

(***************************************************************************)
(* ENTER_ROOM, or INVITE_USER for the account: the row is inserted, the    *)
(* handler updates the cache and loads the messages, and INSERT_ROOM goes  *)
(* out.  A failed insertion changes nothing here.                          *)
(***************************************************************************)
Watch ==
  LET inFlight == {k \in Syncs : sync'[k] # Idle}
  IN raced' = (\/ raced
               \/ \E j, k \in inFlight : j # k
               \/ /\ inFlight # {}
                  /\ \/ entry' \in {"inserted", "loading", "loaded"}
                     \/ \E s \in Sockets : socket'[s] \in {"listed", "paged"})

EnterExecutes ==
  /\ entry = "outside"
  /\ entry' = "inserted"
  /\ UNCHANGED <<posting, roomPage, roomCut, greeting, received, lastMessage, sync>>
  /\ Watch

EnterResumes ==
  /\ entry = "inserted"
  /\ entry' = "loading"
  /\ UNCHANGED <<posting, roomPage, roomCut, greeting, received, lastMessage, sync>>
  /\ Watch

EnterLoads ==
  /\ entry = "loading"
  /\ entry' = "loaded"
  /\ \E rows \in SUBSET Stored :
       /\ IsPageOf(rows, Stored)
       /\ roomPage' = rows
       /\ roomCut' = Stored \ rows
  /\ UNCHANGED <<posting, greeting, received, lastMessage, sync>>
  /\ Watch

\* Mutant of EnterAnnounces: sockets that still wait for INITIALIZE are left out.
EnterAnnouncesToReady ==
  /\ entry = "loaded"
  /\ entry' = "member"
  /\ LET reached == {s \in Sockets : socket[s] = "ready"} IN
       /\ knows' = knows \cup reached
       /\ got' = [s \in Sockets |-> IF s \in reached THEN got[s] \cup roomPage ELSE got[s]]
       /\ cut' = [s \in Sockets |-> IF s \in reached THEN cut[s] \cup roomCut ELSE cut[s]]
       /\ told' = [s \in Sockets |-> IF s \in reached THEN NoMessage ELSE told[s]]
  /\ roomPage' = {} /\ roomCut' = {}
  /\ UNCHANGED <<posting, greeting, lastMessage, sync>>
  /\ Watch

\* the room's entry in INSERT_ROOM carries no lastMessageId
EnterAnnounces ==
  /\ entry = "loaded"
  /\ entry' = "member"
  /\ knows' = knows \cup Tracked
  /\ got' = [s \in Sockets |-> IF s \in Tracked THEN got[s] \cup roomPage ELSE got[s]]
  /\ cut' = [s \in Sockets |-> IF s \in Tracked THEN cut[s] \cup roomCut ELSE cut[s]]
  /\ told' = [s \in Sockets |-> IF s \in Tracked THEN NoMessage ELSE told[s]]
  /\ roomPage' = {} /\ roomCut' = {}
  /\ UNCHANGED <<posting, greeting, lastMessage, sync>>
  /\ Watch

\* the load fails: the row stays, and nobody is told
EnterFails ==
  /\ entry = "loading"
  /\ entry' = "stranded"
  /\ UNCHANGED <<posting, roomPage, roomCut, greeting, received, lastMessage, sync>>
  /\ Watch

(***************************************************************************)
(* A connection and its HANDSHAKE.                                         *)
(***************************************************************************)
GoTo(s, phase) == socket' = [socket EXCEPT ![s] = phase]

\* The client sends the UUID of a message it has, or none.  The socket is a new
\* one: no handler of an earlier connection still names it.
Connect(s, c) ==
  /\ socket[s] = "free"
  /\ \A k \in Syncs : sync[k] # Idle => sync[k].from # s
  /\ c \in Fetched \cap ({NoMessage} \cup Stored)
  /\ GoTo(s, "temporary")
  /\ cursor' = [cursor EXCEPT ![s] = c]
  /\ UNCHANGED <<posting, entering, listed, page, mark, received, lastMessage, sync>>
  /\ Watch

\* findAccountIdByUUID resumes: trackClient, and the room list is asked for
Track(s) ==
  /\ socket[s] = "temporary"
  /\ GoTo(s, "tracked")
  /\ UNCHANGED <<posting, entering, cursor, listed, page, mark, received, lastMessage, sync>>
  /\ Watch

\* loadOwnRoomListByAccountId; without the room there are no messages to load
ReadRoomList(s) ==
  /\ socket[s] = "tracked"
  /\ \/ /\ Inserted
        /\ GoTo(s, "listed")
        /\ listed' = listed \cup {s}
        /\ mark' = [mark EXCEPT ![s] = lastMessage]
     \/ /\ ~Inserted
        /\ GoTo(s, "paged")
        /\ UNCHANGED <<listed, mark>>
  /\ UNCHANGED <<posting, entering, cursor, page, received, lastMessage, sync>>
  /\ Watch

ReadMessages(s) ==
  /\ socket[s] = "listed"
  /\ GoTo(s, "paged")
  /\ \E candidates \in Candidates(cursor[s]) : \E rows \in SUBSET candidates :
       /\ IsPageOf(rows, candidates)
       /\ page' = [page EXCEPT ![s] = rows]
       /\ cut' = [cut EXCEPT ![s] = @ \cup (candidates \ rows)]
  /\ UNCHANGED <<posting, entering, cursor, listed, mark, knows, got, told, lastMessage, sync>>
  /\ Watch

\* what was loaded for INITIALIZE is needed no more
Loaded(s) ==
  /\ listed' = listed \ {s}
  /\ page' = [page EXCEPT ![s] = {}]
  /\ mark' = [mark EXCEPT ![s] = NoMessage]

\* Mutant of Initialize: INITIALIZE carries no read cursor.
InitializeUnmarked(s) ==
  /\ socket[s] = "paged"
  /\ GoTo(s, "ready")
  /\ knows' = IF s \in listed THEN knows \cup {s} ELSE knows
  /\ got' = [got EXCEPT ![s] = @ \cup page[s]]
  /\ Loaded(s)
  /\ UNCHANGED <<posting, entering, cursor, cut, told, lastMessage, sync>>
  /\ Watch

\* the INITIALIZE response
Initialize(s) ==
  /\ socket[s] = "paged"
  /\ GoTo(s, "ready")
  /\ knows' = IF s \in listed THEN knows \cup {s} ELSE knows
  /\ got' = [got EXCEPT ![s] = @ \cup page[s]]
  /\ told' = IF s \in listed THEN [told EXCEPT ![s] = mark[s]] ELSE told
  /\ Loaded(s)
  /\ UNCHANGED <<posting, entering, cursor, cut, lastMessage, sync>>
  /\ Watch

\* what was sent on connections that are gone
Forget(gone) ==
  /\ socket' = [s \in Sockets |-> IF s \in gone THEN "free" ELSE socket[s]]
  /\ cursor' = [s \in Sockets |-> IF s \in gone THEN NoMessage ELSE cursor[s]]
  /\ listed' = listed \ gone
  /\ page' = [s \in Sockets |-> IF s \in gone THEN {} ELSE page[s]]
  /\ mark' = [s \in Sockets |-> IF s \in gone THEN NoMessage ELSE mark[s]]
  /\ cut' = [s \in Sockets |-> IF s \in gone THEN {} ELSE cut[s]]
  /\ knows' = knows \ gone
  /\ got' = [s \in Sockets |-> IF s \in gone THEN {} ELSE got[s]]
  /\ told' = [s \in Sockets |-> IF s \in gone THEN NoMessage ELSE told[s]]

\* the connection is lost, or a query of its HANDSHAKE fails
Close(s) ==
  /\ socket[s] # "free"
  /\ Forget({s})
  /\ UNCHANGED <<posting, entering, lastMessage, sync>>
  /\ Watch

(***************************************************************************)
(* SYNC_CURSOR: the row is updated, then the account's other sockets are   *)
(* told, whether or not a row was.  The sender, a client that had its      *)
(* INITIALIZE and names a message it was sent, knows the cursor it sent.   *)
(***************************************************************************)
SyncIssued(k, s, m) ==
  /\ sync[k] = Idle
  /\ socket[s] = "ready"
  /\ s \in knows /\ m \in got[s]
  /\ sync' = [sync EXCEPT ![k] = [from |-> s, message |-> m, step |-> "query"]]
  /\ told' = [told EXCEPT ![s] = m]
  /\ UNCHANGED <<posting, entering, greeting, cut, knows, got, lastMessage>>
  /\ Watch

\* updateLastMessageCursor: the row of the message's room, if there is one
SyncExecutes(k) ==
  /\ sync[k] # Idle /\ sync[k].step = "query"
  /\ sync' = [sync EXCEPT ![k].step = "done"]
  /\ lastMessage' = IF Inserted /\ sync[k].message \in Stored THEN sync[k].message
                    ELSE lastMessage
  /\ UNCHANGED <<posting, entering, greeting, received>>
  /\ Watch

\* Mutant of SyncResumes: `except` is lost, and the wrong socket left out.
SyncResumesToSender(k) ==
  /\ sync[k] # Idle /\ sync[k].step = "done"
  /\ told' = [s \in Sockets |-> IF s \in Tracked /\ s = sync[k].from
                                THEN sync[k].message ELSE told[s]]
  /\ sync' = [sync EXCEPT ![k] = Idle]
  /\ UNCHANGED <<posting, entering, greeting, cut, knows, got, lastMessage>>
  /\ Watch

SyncResumes(k) ==
  /\ sync[k] # Idle /\ sync[k].step = "done"
  /\ told' = [s \in Sockets |-> IF s \in Tracked \ {sync[k].from}
                                THEN sync[k].message ELSE told[s]]
  /\ sync' = [sync EXCEPT ![k] = Idle]
  /\ UNCHANGED <<posting, entering, greeting, cut, knows, got, lastMessage>>
  /\ Watch

\* the update fails: the sender is terminated
SyncFails(k) ==
  /\ sync[k] # Idle /\ sync[k].step = "query"
  /\ sync' = [sync EXCEPT ![k] = Idle]
  /\ Forget({sync[k].from})
  /\ UNCHANGED <<posting, entering, lastMessage>>
  /\ Watch

(***************************************************************************)
(* The process stops and starts again: handlers and connections are gone,  *)
(* and nobody is left to be sent what is stored.                           *)
(***************************************************************************)
Restart ==
  /\ post' = [m \in Messages |-> CASE post[m] = "issued" -> "lost"
                                   [] post[m] \in {"stored", "addressed"} -> "sent"
                                   [] OTHER -> post[m]]
  /\ entry' = IF Inserted THEN "member" ELSE entry
  /\ Forget(Sockets)
  /\ sync' = [k \in Syncs |-> Idle]
  /\ raced' = FALSE
  /\ addressed' = {}
  /\ roomPage' = {} /\ roomCut' = {}
  /\ UNCHANGED <<clock, stamp, lastMessage>>

Next ==
  \/ \E m \in Messages :
       \/ PostIssued(m) \/ PostStored(m) \/ PostFails(m)
       \/ PostAddressed(m) \/ PostSent(m)
  \/ EnterExecutes \/ EnterResumes \/ EnterLoads \/ EnterAnnounces \/ EnterFails
  \/ \E s \in Sockets :
       \/ \E c \in Messages \cup {NoMessage} : Connect(s, c)
       \/ Track(s) \/ ReadRoomList(s) \/ ReadMessages(s) \/ Initialize(s) \/ Close(s)
  \/ \E k \in Syncs :
       \/ \E s \in Sockets, m \in Messages : SyncIssued(k, s, m)
       \/ SyncExecutes(k) \/ SyncResumes(k) \/ SyncFails(k)
  \/ Restart

Spec == Init /\ [][Next]_vars
-----------------------------------------------------------------------------
(***************************************************************************)
(* Properties.                                                             *)
(***************************************************************************)

\* Every variable has its type.
TypeOK ==
  /\ clock \in 0..MaxStamp
  /\ stamp \in [Messages -> 0..MaxStamp]
  /\ post \in [Messages -> Posts]
  /\ addressed \subseteq Messages
  /\ entry \in Entries
  /\ roomPage \subseteq Messages /\ roomCut \subseteq Messages
  /\ socket \in [Sockets -> Phases]
  /\ cursor \in [Sockets -> Messages \cup {NoMessage}]
  /\ listed \subseteq Sockets
  /\ page \in [Sockets -> SUBSET Messages]
  /\ cut \in [Sockets -> SUBSET Messages]
  /\ knows \subseteq Sockets
  /\ got \in [Sockets -> SUBSET Messages]
  /\ lastMessage \in Messages \cup {NoMessage}
  /\ mark \in [Sockets -> Messages \cup {NoMessage}]
  /\ told \in [Sockets -> Messages \cup {NoMessage}]
  /\ sync \in [Syncs -> SyncRecords \cup {Idle}]
  /\ raced \in BOOLEAN

\* A client that was sent INITIALIZE knows the room its account entered, whether
\* the insertion came before or after its room list was read.
RoomKnown ==
  entry = "member" => \A s \in Sockets : socket[s] = "ready" => s \in knows

\* The snapshot of HANDSHAKE and the pushes leave no gap: a client that was sent
\* INITIALIZE has every message that went out and is newer than its cursor,
\* except those beyond the `take` of a load.
NothingMissed ==
  entry = "member" =>
    \A s \in Sockets, m \in Messages :
      /\ socket[s] = "ready" /\ post[m] = "sent" /\ m \notin cut[s]
      /\ cursor[s] # NoMessage => stamp[m] > stamp[cursor[s]]
      => m \in got[s]

\* The sockets of an account agree on its read cursor with the row, as long as
\* no SYNC_CURSOR overlapped another one, a snapshot, or the room's entry.
CursorTold ==
  ~raced /\ (\A k \in Syncs : sync[k] = Idle) =>
    \A s \in knows : socket[s] = "ready" => told[s] = lastMessage

=============================================================================
