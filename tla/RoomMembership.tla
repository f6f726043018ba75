--------------------------- MODULE RoomMembership ---------------------------
(***************************************************************************)
(* Chat room membership: the chat_member rows, ChatService.memberCache, and *)
(* the gateway's CREATE_ROOM, ENTER_ROOM, INVITE_USER, LEAVE_ROOM and       *)
(* CHAT_MESSAGE handlers, each split at its awaits.  A query is issued, is  *)
(* executed by the database at some later time, and its handler is resumed  *)
(* later still; anything may run between.  multicastToRoom is not awaited:  *)
(* on a cache miss its read of the member set is in flight on its own.      *)
(***************************************************************************)
EXTENDS FiniteSets, JsMap

CONSTANTS
  Users,        \* accounts, each with one handshaken socket
  Rooms,        \* room UUIDs
  Tasks,        \* bound: handlers in flight at once
  Fills,        \* bound: member-set reads in flight at once
  Idle,         \* a free task or fill
  QueriesFail   \* whether the database may fail and the process restart

ASSUME RoomAssumption == QueriesFail \in BOOLEAN

VARIABLES
  chats,        \* rooms in the database
  member,       \* chat_member: [Rooms -> SUBSET Users]
  memberCache,  \* ChatService.memberCache: room -> set of accounts
  task,         \* the gateway handlers in flight
  reply,        \* how the last handler of each task ended
  fill,         \* getChatMemberSet calls that missed the cache
  view,         \* the rooms each client was told it is in
  disturbed     \* history: <<room, user>> whose operations overlapped or failed

vars == <<chats, member, memberCache, task, reply, fill, view, disturbed>>

Changes == {"create", "enter", "invite", "leave"}
Steps == {"query", "done", "missing", "duplicate", "nobody", "load", "post"}
TaskRecords ==
  [op : Changes \cup {"message"}, room : Rooms, users : SUBSET Users, step : Steps]
FillRecords == [room : Rooms, read : BOOLEAN, snapshot : SUBSET Users]

ASSUME IdleAssumption == Idle \notin TaskRecords \cup FillRecords

At(t, ops, step) == task[t] # Idle /\ task[t].op \in ops /\ task[t].step = step
GoTo(t, step) == task' = [task EXCEPT ![t].step = step]
End(t, errno) ==
  /\ task' = [task EXCEPT ![t] = Idle]
  /\ reply' = [reply EXCEPT ![t] = errno]

(***************************************************************************)
(* Overlap: a handler that may change u's membership of r, and has not yet *)
(* announced it, is in flight together with another one or with a read of  *)
(* r's member set.                                                         *)
(***************************************************************************)
Changing(tasks, r, u) ==
  {t \in Tasks : /\ tasks[t] # Idle
                 /\ tasks[t].op \in Changes
                 /\ tasks[t].step \in {"query", "done", "load"}
                 /\ tasks[t].room = r
                 /\ u \in tasks[t].users}
Reading(fills, r) == {f \in Fills : fills[f] # Idle /\ fills[f].room = r}

Overlaps(tasks, fills) ==
  {p \in Rooms \X Users :
     LET changing == Changing(tasks, p[1], p[2])
     IN \/ \E t1, t2 \in changing : t1 # t2
        \/ changing # {} /\ Reading(fills, p[1]) # {}
        \/ \E t1, t2 \in Tasks :      \* a room's creation concerns every user
             /\ t1 # t2
             /\ tasks[t1] # Idle /\ tasks[t1].op = "create" /\ tasks[t1].room = p[1]
             /\ t2 \in changing}

Watch == disturbed' = disturbed \cup Overlaps(task', fill')

(***************************************************************************)
(* ChatService.                                                            *)
(***************************************************************************)

\* multicastToRoom: on a hit the payload goes out at once, on a miss a read starts
Multicast(r, cache) ==
  IF r \in DOMAIN cache THEN UNCHANGED fill
  ELSE \E f \in Fills :
         /\ fill[f] = Idle
         /\ fill' = [fill EXCEPT ![f] = [room |-> r, read |-> FALSE, snapshot |-> {}]]

\* Mutant of CacheAdd: the cached set is not extended.
CacheAddSkipped(r, u) == UNCHANGED memberCache

\* Mutant of CacheAdd: the room is added where the account belongs.
CacheAddRoom(r, u) ==
  memberCache' = IF r \in DOMAIN memberCache
                 THEN MapSet(memberCache, r, memberCache[r] \cup {r}) ELSE memberCache

\* the cache part of insertChatMember
CacheAdd(r, u) ==
  memberCache' = IF r \in DOMAIN memberCache
                 THEN MapSet(memberCache, r, memberCache[r] \cup {u}) ELSE memberCache

\* the cache part of deleteChatMember, before its await
CacheRemove(r, u) ==
  memberCache' = IF r \in DOMAIN memberCache
                 THEN MapSet(memberCache, r, memberCache[r] \ {u}) ELSE memberCache

Init ==
  /\ chats \in SUBSET Rooms
  /\ member \in [Rooms -> SUBSET Users]
  /\ \A r \in Rooms \ chats : member[r] = {}
  /\ memberCache = EmptyMap
  /\ task = [t \in Tasks |-> Idle]
  /\ reply = [t \in Tasks |-> "none"]
  /\ fill = [f \in Fills |-> Idle]
  /\ view = [u \in Users |-> {r \in Rooms : u \in member[r]}]
  /\ disturbed = {}

\* a room under creation cannot be named before its row exists
Addressable(r) ==
  r \in chats \/ ~ \E s \in Tasks : task[s] # Idle /\ task[s].op = "create" /\ task[s].room = r

Begin(t, op, r, users) ==
  /\ task[t] = Idle
  /\ task' = [task EXCEPT ![t] = [op |-> op, room |-> r, users |-> users, step |-> "query"]]
  /\ reply' = [reply EXCEPT ![t] = "none"]
  /\ UNCHANGED <<chats, member, fill, view>>
  /\ Watch

(***************************************************************************)
(* CREATE_ROOM.  The UUID is fresh, and the owner is one of the members.   *)
(***************************************************************************)
BeginCreateRoom(t, r, users) ==
  /\ r \notin chats
  /\ \A s \in Tasks : task[s] # Idle => task[s].room # r
  /\ users # {}
  /\ Begin(t, "create", r, users)
  /\ UNCHANGED memberCache

CreateCommits(t) ==
  /\ At(t, {"create"}, "query")
  /\ chats' = chats \cup {task[t].room}
  /\ member' = [member EXCEPT ![task[t].room] = task[t].users]
  /\ GoTo(t, "done")
  /\ UNCHANGED <<memberCache, reply, fill, view>>
  /\ Watch

\* createNewRoom resumes: the cache entry is written over whatever is there
CreateResumes(t) ==
  /\ At(t, {"create"}, "done")
  /\ memberCache' = MapSet(memberCache, task[t].room, task[t].users)
  /\ GoTo(t, "load")
  /\ UNCHANGED <<chats, member, reply, fill, view>>
  /\ Watch

\* the messages are loaded: INSERT_ROOM is multicast to the cached members
CreateAnnounces(t) ==
  /\ At(t, {"create"}, "load")
  /\ view' = [u \in Users |-> IF u \in memberCache[task[t].room]
                              THEN view[u] \cup {task[t].room} ELSE view[u]]
  /\ End(t, "SUCCESS")
  /\ UNCHANGED <<chats, member, memberCache, fill>>
  /\ Watch

(***************************************************************************)
(* ENTER_ROOM and INVITE_USER: insertChatMember, then the notices.         *)
(***************************************************************************)
BeginInsert(t, op, r, u) ==
  /\ op \in {"enter", "invite"}
  /\ Addressable(r)
  /\ Begin(t, op, r, {u})
  /\ UNCHANGED memberCache

\* chatMember.create: inserted, room missing (P2025) or already there (P2002)
InsertExecutes(t) ==
  /\ At(t, {"enter", "invite"}, "query")
  /\ LET r == task[t].room IN
       \/ /\ r \notin chats
          /\ GoTo(t, "missing")
          /\ UNCHANGED member
       \/ /\ task[t].users \subseteq member[r]
          /\ GoTo(t, "duplicate")
          /\ UNCHANGED member
       \/ /\ r \in chats /\ ~(task[t].users \subseteq member[r])
          /\ GoTo(t, "done")
          /\ member' = [member EXCEPT ![r] = @ \cup task[t].users]
  /\ UNCHANGED <<chats, memberCache, reply, fill, view>>
  /\ Watch

\* insertChatMember resumes: the cache, if loaded, gets the new member
InsertResumes(t) ==
  /\ At(t, {"enter", "invite"}, "done")
  /\ \E u \in task[t].users : CacheAdd(task[t].room, u)
  /\ GoTo(t, "load")
  /\ UNCHANGED <<chats, member, reply, fill, view>>
  /\ Watch

\* a null member: the error is always ERROR_ALREADY_MEMBER.  insertChatMember
\* returns null for P2025 alone, insertChatMemberByUUID for every error.
InsertRefused(t) ==
  /\ At(t, {"enter", "invite"}, "missing") \/ At(t, {"invite"}, "duplicate")
  /\ End(t, "ERROR_ALREADY_MEMBER")
  /\ UNCHANGED <<chats, member, memberCache, fill, view>>
  /\ Watch

\* P2002 is thrown on by ENTER_ROOM: the exception filter terminates the socket
EnterThrows(t) ==
  /\ At(t, {"enter"}, "duplicate")
  /\ End(t, "terminated")
  /\ UNCHANGED <<chats, member, memberCache, fill, view>>
  /\ Watch

\* the messages are loaded: INSERT_ROOM to the new member, INSERT_ROOM_MEMBER
\* to the room, and the notice message is issued
InsertAnnounces(t) ==
  /\ At(t, {"enter", "invite"}, "load")
  /\ view' = [u \in Users |-> IF u \in task[t].users
                              THEN view[u] \cup {task[t].room} ELSE view[u]]
  /\ Multicast(task[t].room, memberCache)
  /\ GoTo(t, "post")
  /\ UNCHANGED <<chats, member, memberCache, reply>>
  /\ Watch

(***************************************************************************)
(* LEAVE_ROOM: the cache is changed first, the database after.             *)
(***************************************************************************)
BeginLeaveRoom(t, r, u) ==
  /\ Addressable(r)
  /\ Begin(t, "leave", r, {u})
  /\ CacheRemove(r, u)

DeleteExecutes(t) ==
  /\ At(t, {"leave"}, "query")
  /\ LET r == task[t].room IN
       IF task[t].users \subseteq member[r]
       THEN /\ member' = [member EXCEPT ![r] = @ \ task[t].users]
            /\ GoTo(t, "done")
       ELSE GoTo(t, "nobody") /\ UNCHANGED member
  /\ UNCHANGED <<chats, memberCache, reply, fill, view>>
  /\ Watch

\* Mutant of LeaveAnnounces: only the remaining members are told.
LeaveAnnouncesToRoom(t) ==
  /\ At(t, {"leave"}, "done")
  /\ Multicast(task[t].room, memberCache)
  /\ GoTo(t, "post")
  /\ UNCHANGED <<chats, member, memberCache, reply, view>>
  /\ Watch

\* REMOVE_ROOM to the leaver, REMOVE_ROOM_MEMBER to the room, the notice is issued
LeaveAnnounces(t) ==
  /\ At(t, {"leave"}, "done")
  /\ view' = [u \in Users |-> IF u \in task[t].users
                              THEN view[u] \ {task[t].room} ELSE view[u]]
  /\ Multicast(task[t].room, memberCache)
  /\ GoTo(t, "post")
  /\ UNCHANGED <<chats, member, memberCache, reply>>
  /\ Watch

LeaveRefused(t) ==
  /\ At(t, {"leave"}, "nobody")
  /\ End(t, "ERROR_NOT_MEMBER")
  /\ UNCHANGED <<chats, member, memberCache, fill, view>>
  /\ Watch

(***************************************************************************)
(* CHAT_MESSAGE, and the notice message that ends the other handlers:      *)
(* createNewChatMessage, then a multicast.                                 *)
(***************************************************************************)
BeginChatMessage(t, r, u) ==
  /\ Addressable(r)
  /\ task[t] = Idle
  /\ task' = [task EXCEPT ![t] = [op |-> "message", room |-> r, users |-> {u}, step |-> "post"]]
  /\ reply' = [reply EXCEPT ![t] = "none"]
  /\ UNCHANGED <<chats, member, memberCache, fill, view>>
  /\ Watch

MessagePosted(t) ==
  /\ At(t, {"enter", "invite", "leave", "message"}, "post")
  /\ task[t].room \in chats
  /\ Multicast(task[t].room, memberCache)
  /\ End(t, "SUCCESS")
  /\ UNCHANGED <<chats, member, memberCache, view>>
  /\ Watch

\* chatMessage.create finds no such room: the socket is terminated
MessageThrows(t) ==
  /\ At(t, {"message"}, "post")
  /\ task[t].room \notin chats
  /\ End(t, "terminated")
  /\ UNCHANGED <<chats, member, memberCache, fill, view>>
  /\ Watch

(***************************************************************************)
(* getChatMemberSet on a miss.                                             *)
(***************************************************************************)
FillReads(f) ==
  /\ fill[f] # Idle /\ ~fill[f].read
  /\ fill' = [fill EXCEPT ![f].read = TRUE, ![f].snapshot = member[fill[f].room]]
  /\ UNCHANGED <<chats, member, memberCache, task, reply, view>>
  /\ Watch

FillResumes(f) ==
  /\ fill[f] # Idle /\ fill[f].read
  /\ memberCache' = MapSet(memberCache, fill[f].room, fill[f].snapshot)
  /\ fill' = [fill EXCEPT ![f] = Idle]
  /\ UNCHANGED <<chats, member, task, reply, view>>
  /\ Watch

(***************************************************************************)
(* Failures.                                                               *)
(***************************************************************************)

\* A query of a handler fails: ENTER, LEAVE, CREATE and a failed load or post
\* terminate the requesting socket; INVITE_USER's insert answers an error.
QueryFails(t) ==
  /\ QueriesFail
  /\ task[t] # Idle /\ task[t].step \in {"query", "load", "post"}
  /\ End(t, IF At(t, {"invite"}, "query") THEN "ERROR_ALREADY_MEMBER" ELSE "terminated")
  /\ disturbed' = disturbed \cup (IF task[t].op \in Changes
                                  THEN {task[t].room} \X task[t].users ELSE {})
  /\ UNCHANGED <<chats, member, memberCache, fill, view>>

\* The process stops and starts again: memory is lost, the rows stay, and the
\* clients reconnect and are sent their room lists.  A failed member-set read
\* does the same: nobody handles the rejection of a `void multicastToRoom`.
Restart ==
  /\ QueriesFail
  /\ memberCache' = EmptyMap
  /\ task' = [t \in Tasks |-> Idle]
  /\ reply' = [t \in Tasks |-> "none"]
  /\ fill' = [f \in Fills |-> Idle]
  /\ view' = [u \in Users |-> {r \in Rooms : u \in member[r]}]
  /\ disturbed' = {}
  /\ UNCHANGED <<chats, member>>

Next ==
  \/ \E t \in Tasks, r \in Rooms :
       \/ \E users \in SUBSET Users : BeginCreateRoom(t, r, users)
       \/ \E u \in Users :
            \/ \E op \in {"enter", "invite"} : BeginInsert(t, op, r, u)
            \/ BeginLeaveRoom(t, r, u)
            \/ BeginChatMessage(t, r, u)
  \/ \E t \in Tasks :
       \/ CreateCommits(t) \/ CreateResumes(t) \/ CreateAnnounces(t)
       \/ InsertExecutes(t) \/ InsertResumes(t) \/ InsertRefused(t)
       \/ EnterThrows(t) \/ InsertAnnounces(t)
       \/ DeleteExecutes(t) \/ LeaveAnnounces(t) \/ LeaveRefused(t)
       \/ MessagePosted(t) \/ MessageThrows(t) \/ QueryFails(t)
  \/ \E f \in Fills : FillReads(f) \/ FillResumes(f)
  \/ Restart

Spec == Init /\ [][Next]_vars
-----------------------------------------------------------------------------
(***************************************************************************)
(* Properties.                                                             *)
(***************************************************************************)

\* Every variable has its type.
TypeOK ==
  /\ chats \subseteq Rooms
  /\ member \in [Rooms -> SUBSET Users]
  /\ DOMAIN memberCache \subseteq Rooms
  /\ memberCache \in [DOMAIN memberCache -> SUBSET Users]
  /\ task \in [Tasks -> TaskRecords \cup {Idle}]
  /\ reply \in [Tasks -> {"none", "SUCCESS", "ERROR_ALREADY_MEMBER", "ERROR_NOT_MEMBER",
                          "terminated"}]
  /\ fill \in [Fills -> FillRecords \cup {Idle}]
  /\ view \in [Users -> SUBSET Rooms]
  /\ disturbed \subseteq Rooms \X Users

Settled(r, u) == <<r, u>> \notin disturbed /\ Changing(task, r, u) = {}

\* As long as no change of a user's membership overlapped another change of it
\* or a read of the room's member set, and none failed halfway, the cached set
\* agrees with the rows: multicastToRoom reaches that user exactly when it is a
\* member.
CacheAgrees ==
  \A r \in DOMAIN memberCache, u \in Users :
    Settled(r, u) => (u \in memberCache[r] <=> u \in member[r])

\* Under the same condition the rooms a client was told it is in (INSERT_ROOM,
\* REMOVE_ROOM, the list of INITIALIZE) are the rooms it is a member of.
ViewAgrees ==
  \A r \in Rooms, u \in Users :
    Settled(r, u) => (r \in view[u] <=> u \in member[r])

\* What getChatMemberSet asks of its cache: with nothing in flight it holds the
\* members of the room, whatever happened before.
CacheInvalidated ==
  (\A t \in Tasks : task[t] = Idle) /\ (\A f \in Fills : fill[f] = Idle)
    => \A r \in DOMAIN memberCache : memberCache[r] = member[r]

\* ERROR_ALREADY_MEMBER is answered only to a request whose subject is a member.
AlreadyMemberIsMember ==
  [][\A t \in Tasks :
       reply[t] = "none" /\ reply'[t] = "ERROR_ALREADY_MEMBER"
         => task[t].users \subseteq member[task[t].room]]_vars

=============================================================================
