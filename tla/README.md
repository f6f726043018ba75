# Akasha: TLA+ models, checks and proofs

This directory holds a formal model of the backend and the shared client code in
this repository (`akasha-app`, `akasha-lib`, `utils`): TLA+ modules, TLC
configurations and TLAPS proofs. Module comments say what each definition
stands for; `PROJECT.json` maps every definition to its source lines, lists the
hazards of the code with the properties that cover them, and names, for every
property, a plausible bug (a mutant of a definition) that breaks it.

To repeat a run: `tlc -workers 2 -config MCSessions.cfg MCSessions.tla`. To
repeat the proofs of a module: `tlapm Sessions_proofs.tla`.

## 1. The system

Akasha is a NestJS server with an HTTP side (sign-in, profile) and two WebSocket
services (chat, game), over one PostgreSQL database reached through Prisma, and
client utilities (IndexedDB, WebSocket registry) over a shared library. The
server is one Node process: code between two `await`s is atomic, every `await`
is a point where any other handler may run. That is where the interesting
behaviour is. A query is executed by the database at some moment between its
issue and the resumption of the handler, so the models keep the two apart where
a property can tell the difference.

| Component | State | Operations | Talks to |
|---|---|---|---|
| Chat connections (`service/*`, `chat.service.ts:66-179`) | `temporaryClients`, `clients`, `memberUUIDToId`, per socket `account`, `isAlive`, ping timer | connect, HANDSHAKE, heartbeat, terminate, close; unicast, multicast, broadcast | accounts (lookup), chat delivery (snapshot) |
| Rooms (`chat.service.ts:381-518`, `chat.gateway.ts:222-438`) | rows of `chat_members`, `memberCache` | CREATE, ENTER, INVITE, LEAVE; `getChatMemberSet` | connections (pushes), database |
| Delivery (`chat-websocket.ts`, `chat.service.ts:181-243, 520-573`) | rows of `chat_messages`, `lastMessageId`, what a client was sent | snapshot of HANDSHAKE, CHAT_MESSAGE, INSERT_ROOM, SYNC_CURSOR | rooms, connections |
| Sessions (`user/auth`, `user/sessions`) | rows of `authorizations`, `sessions`, bans | beginAuthURL, endAuthURL, promotionAuth, refreshAuth, invalidateSession | accounts, OAuth provider |
| Profile (`user/profile`, `user/accounts`) | nickname, tag, avatar rows | registerNick, updateAvatar | database |
| Friends (`chat.service.ts:304-363`, `chat.gateway.ts:76-169`) | rows of `friends` | ADD, MODIFY, DELETE_FRIEND | connections |
| Game (`service/game`) | `gameRoomList`, `worldFrames`, `clients` | HANDSHAKE, CREATE, JOIN, START, FRAME | physics |
| OAuth client (`oauth.ts`, `auth.service.ts:85-159, 352-421`) | authorization rows, configured sources | auth/begin, auth/end: query, state, token, subject | provider, sessions |
| Client storage (`utils/idb`) | connection pool, waiters, object stores | getOrOpen, delete, room / member / message updates | IndexedDB |
| Client WebSocket registry (`utils/react`) | entries and listeners by name | register, listen, socket events | browser |
| Library (`akasha-lib`) | buffers with offsets | byte buffer, base32, hex, UUID, OTP, JWT, OAuth | - |

What is hard in them, and what has to be true:

* **Connections.** A socket may close while the account lookup of its HANDSHAKE is
  awaited, two HANDSHAKEs of a socket may be in flight, and the assertions of
  `untrackClient` are swallowed by `ServiceGatewayBase`. Correct: the registry
  is exactly the set of live sockets under their accounts; pushes reach exactly
  those; the client is subscribed before its snapshot is complete; a vanished
  peer is removed; a responsive one is not cut without a pong outstanding.
* **Rooms.** Rows and cache change at different moments, the cache is written
  after awaits with what was read before them, and it is never invalidated.
  Correct: cache, rows and what clients were told agree; where the code cannot
  keep that, the model says exactly when.
* **Delivery.** A snapshot of several queries runs beside pushes, rows of the same
  timestamp have no fixed order, loads are cut at 1024 rows. Correct: no gap
  between snapshot and pushes, and one read cursor for all sockets of an account.
* **Sessions.** One-time states and refresh tokens are presented twice at once;
  refresh looks before it creates; invalidation and refresh race; responses are
  lost. Correct: one live token per login, no OTP bypassed, recursive
  invalidation, no token for a banned account.
* **Profile, friends.** Check-then-act without transactions, notices after awaits,
  a removal that concerns the rows of two accounts. Correct: what an account was
  answered or told is what the rows say, unless its requests overlapped.
* **Game.** A queue of frames that late frames are merged into. Correct: a player's
  own paddle is never replaced by what the opponent assumed, the ball stays in play.
* **OAuth.** One-time states brought back twice, any query, any answer, two layers
  of catches. Correct: one exchange per state, and a status that blames the right side.
* **Client storage.** Waiters on an opening database, connections closed by a
  version change, updates that span two transactions, paging by timestamp.
* **Client WebSockets.** Sockets that replace each other under one name, late
  close events, listeners that come late. Correct: listeners follow the new socket.
* **Library.** Boundaries of the length prefix, growth of the buffer, codecs.
  Correct: what was written is read back, encodings are those of the standards.

The full list of hazards, with their lines, is in `PROJECT.json`.

## 2. Modules

| Module | What it is |
|---|---|
| `JsMap` | the JavaScript `Map` as the services use it |
| `Presence` | abstract specification of the connection registry |
| `ChatConnections` | registry, HANDSHAKE and heartbeat; implements `Presence` |
| `RoomMembership` | rows, `memberCache` and the clients' room lists |
| `ChatDelivery` | snapshot, pushes and read cursor of one account in one room |
| `Sessions` | sign-in, promotion, token rotation, bans |
| `Profile` | nickname and avatar requests over the account and avatar rows |
| `Friends` | friend rows, their handlers, and the social part of the snapshot |
| `GameRooms` | the game gateway's room, its frame queue and the physics along one axis |
| `OAuth` | auth/begin and auth/end up to the subject: query, state, token, errors |
| `SharedConnection` | abstract specification of a page's pool: who asks is answered with one connection |
| `ConnectionPool` | the pages' pools of IndexedDB connections; implements `SharedConnection` |
| `MessagePages` | the queries on a room's messages: pages, latest, count; pure operators |
| `ChatStore` | the browser's rooms and messages; extends `ConnectionPool`, `MessagePages` |
| `RoomMembers` | a room's row and members in the browser, and `mergeMember` |
| `WebSocketRegistry` | the browser's sockets of one name and their listeners |
| `ByteBuffer` | writing, sending and reading messages |
| `Codecs` | base32, hexadecimal and an OTP's counter bytes |
| `MCServices`, `MCClient` | instances of four server and four client modules |
| other `MC*` | instances for TLC of one module: symmetry sets, account table |
| `ChatConnections_proofs`, `RoomMembership_proofs`, `ChatDelivery_proofs`, `Sessions_proofs` | theorems about the module they are named after |
| `Services_proofs` | theorems about `Profile`, `Friends`, `OAuth` and `GameRooms` |
| `Storage_proofs` | theorems about `ConnectionPool`, `ChatStore` and `MessagePages` |
| `Client_proofs` | theorems about `WebSocketRegistry`, `RoomMembers`, `ByteBuffer` and `Codecs` |
| `Recursion_proofs` | induction and recursive functions; lemmas of the three before |

How they compose: `RoomMembership` takes from `ChatConnections` that a push to
an account reaches its live sockets (there, `DeliveryExact`), and
`ChatDelivery` takes from it that a socket is subscribed from the lookup to its
end (`GreetedIsSubscribed`, `RegistryConsistent`) and from `RoomMembership` that
the cache agrees with the row of an account that only enters (`CacheAgrees`).
`OAuth` ends where `Sessions` begins, with the subject: there, what the provider
says is a nondeterministic result. `Friends` takes from `ChatConnections` that a
tracked socket is told. Each of them models its own part in full and the rest by
that promise, so that every one stays small enough to be checked and proved.

### ChatConnections

One socket is one element of `Clients`: `phase` is its `readyState`, `account`
the field `ChatWebSocket.account`, `handshake` says where each invocation of
`handleHandshake` is suspended (`"lookup"`: in `findAccountIdByUUID`;
`"initializing"`: in `client.initialize`). `TrackClient` and `UntrackClient`
translate the methods with their asserts and early outs, in order.
`Disconnect` is the `close` event with `handleDisconnect`, which catches what
`untrackClient` throws. A query that fails, an `assertClient` that fails and an
unanswered ping end in `Terminate`, as the exception filter and `sendPing` do.
`vanished` and `pongDue` describe the peer and the network, not the server.

### RoomMembership

`task` holds the gateway handlers in flight with the step they are suspended
at; the database part of an operation (`CreateCommits`, `InsertExecutes`,
`DeleteExecutes`) and its resumption are separate actions. `fill` holds the
calls of `getChatMemberSet` that missed the cache: `FillReads` is the query,
`FillResumes` the unconditional `memberCache.set`. A hit is atomic, because an
`await` of a settled promise lets no I/O in between that touches the set before
it is iterated. `view` is what the room's pushes told each client.
`QueriesFail` adds failing queries and process restarts (a rejected `void`ed
promise ends the process; a restart empties the cache and makes every client
load its rooms again).

`disturbed` is a history variable: the pairs `<<room, user>>` for which two
membership changes overlapped, or one overlapped a read of the member set or
failed. `CacheAgrees` and `ViewAgrees` are about all other pairs; the violation
run `room_cache_stale` shows what happens to these.

### ChatDelivery

One account, one room. A message goes through `PostIssued` (its timestamp is
taken), `PostStored`, `PostAddressed` (the member set is determined) and
`PostSent` (unicast). The account's row is inserted by `EnterExecutes`; then its
handler resumes, loads the messages and pushes INSERT_ROOM. A connection goes
through `Track`, `ReadRoomList`, `ReadMessages` and `Initialize`; `Candidates`
and `IsPageOf` are `loadMessagesAfter` with its cursor, `skip` and `take`, rows
of one timestamp in any order. SYNC_CURSOR is `SyncIssued`, `SyncExecutes`,
`SyncResumes`. `cut` (rows `take` left out) and `raced` (a SYNC_CURSOR
overlapped another, a snapshot or the entry) are history variables; they
delimit what the code can promise. Leaving the room is not modelled here.

### Sessions

`row` / `subject` are the authorization rows: a row without a subject is an OAuth
round trip, one with a subject a temporary token that waits for an OTP. `request`
holds the HTTP requests in flight with the step whose query is awaited; a
handler begins with its first query, since nothing is read before it. `cleanup`
holds the calls of `invalidateSession` that nobody awaits. The update of
`invalidateSession` is one statement (a recursive query), hence atomic.
Whether a response reaches the client is a choice (`disclosed`). `Tree` defines
reachability over successors as the smallest closed set, so that the module
needs no recursion. Accounts are never deleted by this code, so the "Gone account"
branch cannot be reached and is left out. `origin`, `late` and the `banned` field
of a request are history variables.

### Profile

One action is one query of `registerNick` or `updateAvatar` with what the handler
does when it returns; other requests and failures come in between. `PickTag` may
pick any tag that no account of the name has (`FreeTags`), and `UpdateNick`
writes it without looking again, as the code does: no unique key covers name and
tag. `DeleteAvatar` sets the accounts that refer to the row to NULL, as the schema's
foreign key does, and answers 404 when the row is gone. Ids of avatars are
random (nanoid), so that `FreshKeys` never gives out one that anybody has heard of.
`contended` (registrations of one account or one name that both looked before
either wrote) and `mixed` (avatar requests of an account that overlapped, or failed
between deletion and link) are history variables: they delimit what the code can
promise without transactions.

### Friends

`socket` follows a client from the tracking of its socket over the two queries
of `loadSocialByAccountId` (issued together, executed in any order) to INITIALIZE.
A handler is `Ask`, its query, and the notices; failures before and after the
query close the requester's socket and tell nobody. `TellAccount` is what a client
makes of the notices: FRIEND_REQUEST, the results, and the removal that goes to
both sides. MODIFY_FRIEND of a pair without a row throws, and the exception
filter closes the socket (`ModifyThrows`): ERROR_NOT_FRIEND is never answered.
`unsettled` is a history variable: pairs whose changes overlapped each other or the
snapshot, or failed, until the account connects again.

### GameRooms

CREATE always names NULL_UUID, so there is one room. The code as it stands never
completes a HANDSHAKE (the gateway has no `verifyClient`, `client.auth` is
undefined), so `clients` stays empty and no frame is sent to anybody; what
remains is the queue. `GetFrame` appends the newest frame and merges any other one with
`SyncFrame`, a recursive function over the entries like the loop. `fixed` is
compared and not assigned there (line 166), so `DropFixed` finds nothing to drop,
and a room admits a third member (`JoinRoom`). CREATE does not clear the
frames: `reused` marks the games after the first one, where a frame is merged into
those of the game before. The physics is that of the code along the axis from goal
to goal, in integers. Where two centres coincide the direction of the reflection is
0 / 0, and `NaN` is a value of a position here as it is there. Ids that are skipped
reset the sender's paddle (`Rest`), and a frame that is simulated again counts its
goals again; the model has both, and neither property is about them.

### OAuth

`Queries` are the parameters as the framework hands them over: a parameter that is
given twice is joined by `URLSearchParams` to one value that names nothing, so that
`MultipleParameterError` is never thrown by auth/end. `QueryError`, `CodeError`
and `TokenError` say which family of exception the library throws, `QueryStatus` and
`TokenStatus` what the two catches make of it. `StateFound` deletes the row and goes
on to the token request in one step, since the deletion is one statement.
`Reconfigure` is a restart with other sources while rows are kept: a row may name a
source that is undefined by now. `minted` and `exchanges` are history variables.

### RoomMembers, WebSocketRegistry

A call of `RoomMembers` awaits its database, so it runs some time after it was made,
and on a database that is opened anew when the room was deleted. `mergeMember` is
`MergeReads` and `MergePuts`, two transactions. `ForgetRoom` asks for the deletion of
the database, even if the row's transaction is aborted after that; `deletions` are on
their way, and each ends in `RemoveDB`, which takes what was saved in the meantime
along, or in `RemoveDBFails`: `delete` answers false, and `deleteRoom` reports
success all the same. Three history variables say what can be expected of the members:
`saved` is what they would be if each call were one step, since the deletion was last
asked for; `raced` are the members whose merge overlapped another call, or
whose calls ran while a deletion was on its way or the room had no row; `survived`
are those that were there when a deletion failed, and that come back with the room.

In `WebSocketRegistry`, `register` and the function it returns are actions, since an
effect's clean-up runs them at any time; a socket that is being closed fires only
its close event, but possibly after the next socket was registered under the name.
Every socket tells all listeners of the name (`TellAll`), so the late close of a
replaced socket sets the new one's listeners to CLOSED until that fires its next
event: `overtaken` marks them. A listener that comes while the socket is connecting
gets it as its reference, on which `send` throws; the property speaks of sockets
that were opened or closed.

### ByteBuffer, Codecs

A buffer is a row of bytes with the start and length of its view and the offset.
`Reserve` grows the memory and copies what was written, or only lengthens the
view; `Transfer` is `toArray` on one side and `ByteBuffer.from` on the other, where
the bytes lie inside a larger memory. `Items` are numbers of several widths and
signs, bytes, strings, arrays, nullable values and values with a sentinel.
`Base` is the number of values of a byte, so that the length prefix and its escape
(`Base - 1`) are met with short rows.

`Codecs` translates the loops of base32 as recursive functions from the number of
turns to the loop's state (letters, carry, shift), with `|` as `+` where the bits are
disjoint. The counter of an OTP is
shifted as a 32-bit integer in the code; the model stays below 2^31.

### ConnectionPool, MessagePages, ChatStore

A page (`Tab`) has one pool; databases are shared by the pages of the origin.
A call of `getOrOpen` or `delete` is a member of `Call`, and the connection it
opens and the `EventTarget` in `reserved` are named after it. `GetOrOpen` is the
method up to its first suspension, one disjunct per path: the dictionary has the
name (`Hit`), somebody opens it (`Listen`), nobody does (`Reserve`), or
`indexedDB.open` throws (`OpenThrows`). `OnSuccess` and `OnError` run the
handlers to their end, the `getOrOpen` calls of all listeners included:
after a success they find the connection, after an error the first opens
again and the others listen to it. A handler runs only when the page is `Quiet`,
since the promises it settles continue before the next event. IndexedDB
(`ServeOpen`, `FailOpen`, `EndDelete`, `LoseConnection`) is external: one queue of
requests per database, and a deletion waits until every connection is closed.
`Shared` maps the pool to `SharedConnection`: the dictionary is a page's connection
to a name, those who wait, open or are about to open again are asking for it, and
who reserves, who listens and what IndexedDB has queued is gone.

`ChatStore` adds to every step what the methods do: rows and the databases on
disk. `addRoom` and `deleteRoom` open or delete the database from the handler of
their row's request, hence in one step with it; `addMessageBulk` is `BeginAdd`
(await `getDB`) and `EndAdd` (the transaction, all or nothing). The metadata
transaction may be aborted after that, and then the row stays as it was. `kept` is a
history variable: the messages saved since the deletion of the room was last asked
for, while it had its row and no deletion was on its way. The exception is real: when a room is
deleted and added again before the other pages have seen the versionchange,
`getOrOpen` hands out the old connection, and what is saved through it goes with
the old database.

`ContinueMessages` is the cursor loop of `getContinueMessages`: the rows in range
in the cursor's order, the list after each row (`Collected`, a recursive
function), and the row it stops at (`GoesOn`). `LatestMessage` and
`CountAfterMessage` are the other two queries by timestamp.

## 3. Runs

| Run | Instance | What it checks |
|---|---|---|
| `chat_connections` | 2 sockets, 2 accounts, 2 concurrent HANDSHAKEs per socket, under `Fairness`; 139,657 states | `TypeOK`, `RegistryConsistent`, `UntrackAssertsHold`, `DeliveryExact`, `GreetedIsSubscribed`, `HeartbeatSound`, refinement `PresenceSpec`, liveness `VanishedPeerReaped`, `HandshakeSettles` |
| `room_membership` | 2 users, 1 room, 2 handlers, 2 reads, failures | `TypeOK`, `CacheAgrees`, `ViewAgrees` |
| `room_cache_stale` | the same without failures | violation of `CacheInvalidated` |
| `room_already_member` | the same without failures | violation of `AlreadyMemberIsMember` |
| `sessions` | 2 accounts (one with OTP), 3 rows, 4 sessions, 2 requests | `TypeOK`, `OneLiveToken`, `PromotionRequired`, `InvalidationReachesSuccessors`, `BanEnforced` |
| `chat_delivery` | timestamps to 3, `Take` 2; part "messages": 1 socket at a time, 3 messages; part "cursor": 2 sockets, 2 messages, 2 SYNC_CURSORs | `TypeOK`, `RoomKnown`, `NothingMissed`, `CursorTold` |
| `connection_pool` | 3 callers on one page, 1 on another, 1 name; pages with and without IndexedDB; under `Fairness` | `OneConnection`, `GivenUsable`, `NoLostWaiter`, refinement `SharedSpec`, liveness `CallsSettle`; the types of the pool are part of `StoreTypeOK` |
| `chat_store` | 2 calls on one page, 1 on another, 1 room, 2 accounts, 3 messages, 2 of one timestamp, 4 batches | `StoreTypeOK`, `KeptWhileListed`, `PagesExact` |
| `message_page_limit` | the same | violation of `LimitKeepsExclusion` |
| `services` | `Profile`: 2 accounts, 1 name, 2 tags, 2 keys, 2 requests; `Friends`: 2 users, 2 labels, 2 handlers; `GameRooms`: 2 players, 3 frames each, a court of 16; `OAuth`: 1 source of any kind, 2 states, 2 redirect URIs, 2 requests; 1,029,325 states | `ServicesTypeOK`, `NamesKept`, `AvatarAgrees`, `FriendsViewAgrees`, `FramesKept`, `SignInSound` |
| `client` | `RoomMembers`: 2 members, 2 calls, 2 deletions; `WebSocketRegistry`: 3 sockets, 2 listeners; `ByteBuffer`: 13 kinds of items, 3 of them per message, both byte orders; `Codecs`: up to 6 of 6 byte values; 466,559 states | `ClientTypeOK`, `SavedIsKept`, `ListenersFollow`, `ReadsBack`, `CodecsExact` |
| `oauth_defined_error` | as `services` | violation of `DefinedErrorRecognised` |

Three instances consist of parts that share no state: a variable `part` is chosen in
the initial state and says which one moves, the others stay where they began. Such a run
has the sum of the parts' states, not their product, and each part is explored in full.

**Bounds and why they are enough.** A violation of a registry property needs two
sockets of one account (last-one-out), two accounts (wrong key) and two
invocations on one socket (duplicate HANDSHAKE); nothing in the code compares
more than two of any of these. A cache race needs one writer and one reader, or
two writers, and two users to tell "set replaced" from "element changed"; rooms
do not interact, since every operation is keyed by one room. A token race needs
two requests; four sessions give a login, a chain of two successors and a
sibling login; three rows give an OAuth row, its temporary token and one of another
login. Three messages with `Take` 2 give a message before, at and after the
cursor, a page with an order of its own and one message that is cut; equal timestamps are among the choices. The part about
the read cursor leaves out the cursors of HANDSHAKE (`Fetched`), which only
choose messages. Sockets can
close and be used again, so one socket stands for a sequence of connections. In the pool, three
callers give one that opens and two that listen (after a failure one opens and one
listens on), and the second page the deletion; names do not interact. Two
accounts tell the last one to leave from another; three messages give equal
timestamps on either side of the target and a later one; the batches (`Batch`)
overlap, so that a duplicate aborts a transaction that has something new.
Two requests are a race of nickname, avatar or state, and one name with two tags
is soon used up; two friend handlers are an overlap, two users the two ends of a
pair, since nothing relates three. Two members tell the one a call names from the
others, two calls are an overlap, and two deletions (`MaxDeletions`) are the sequence
delete, add, delete. Three frames of each player give one before, at
and after a late frame; the court is small enough for a ball to reach a goal, a
paddle and a paddle's centre within them. Three sockets of a name give a late close
event, its successor and one more; rows of 2, 3, 4 bytes are a length below, at and above
the escape value of `Base` 4; buffers begin with 0, 3 and 8 bytes, and three items
make them grow more than once. Six bytes are one more than a group of base32.
What the bounds leave open is settled by the theorems below, which hold for all
values of the constants. Sockets, messages, users, handlers and requests that
no definition names are interchangeable, hence the symmetry sets. With liveness TLC
takes none: `MCChatConnections` has its sockets, accounts and invocations come in
order instead (`InOrder`: c1 connects first, for u1, and h2 is taken while h1
is), which keeps one of the runs that differ in names only.

**Deadlock.** `chat_connections` turns the check off because sockets
are not reused there, and a state in which all have closed is a legitimate end;
`client`, because a message that was read to its end and the longest array of bytes
are ends as well; the run of the pool, because all callers of a page where `indexedDB.open` throws
end up waiting for a name that nothing releases (`OpenThrows`; the code is
exposed to this, and `NoLostWaiter` and `CallsSettle` exempt such pages).

**Fairness.** `Fairness` of `ChatConnections` assumes weak fairness of
the ping timer (`setInterval` keeps firing while it is armed), of the close event
of a socket that is closing or destroyed (`ws` emits `close` after `terminate`),
and of the resumption of a handler (a Prisma query settles, with a result or an
error). Nothing is assumed of peers: they may vanish, and never answer. `Spec` of
`ConnectionPool` assumes weak fairness of microtasks and of IndexedDB's answer to
an open (success or error), and strong fairness of the page's events and of the
end of a deletion: its callers keep making calls, and each of them holds up the
events only until the page is quiet again; the browser's event loop gets to every
queued event although none is enabled without interruption. Nobody has to
make a call.

**Four runs expect a violation.**

* `room_cache_stale`: a member that leaves while the room's creation or a read
  of its members is in flight remains in `memberCache` for good. The comment at
  `chat.service.ts:420` ("Implement invalidate cache") names the missing part.
* `room_already_member`: ENTER_ROOM of a room that does not exist is answered
  ERROR_ALREADY_MEMBER, although `chat.service.ts:474` says what the caught error
  means; a user that is a member gets no answer but a closed socket.
* `message_page_limit`: the condition at `chat-store.ts:534-538` is the wrong way
  round. With a limit the cursor stops at its first row, which has the target's
  timestamp: the page is empty, or holds one message from before the target.

* `oauth_defined_error`: `isTokenErrorResponse` (`oauth.ts:416`) wants an access
  token in an error answer. An answer 400 with `invalid_grant` is not recognised, and
  the user is answered 502, although `oauth.ts:381` declares what that answer is.

## 4. Proofs

All theorems are of the form `Spec => []P` (or `[][A]_vars`, or a refinement),
for every value of the constants that the modules' named assumptions allow. For each
component there is an inductive invariant: `Init` implies it, one step per action shows
that it is kept, and the properties follow from it. Every safety property of the passing
runs (invariants, action properties and refinements) is stated by a theorem, so a run shows
it on an instance first, and the theorem for all of them.

* **ChatConnections_proofs.** `IInv == TypeOK /\ RegistryConsistent /\ SocketHistory`.
  `RegistryConsistent` is not inductive alone: that `trackClient` moves the right
  socket depends on what a suspended handler knows about its socket (it had no
  account when the handler began, its phase, its token), and the heartbeat on
  which sockets have a timer. `SocketHistory` records this. From `IInv`:
  `UntrackAssertsHold`, `DeliveryExact`, `GreetedIsSubscribed`, `HeartbeatSound`, and
  `RefinesPresence`: each step is a step of `Presence` or a stutter.
  Assumptions: ids are unique per account.
* **RoomMembership_proofs.** `IInv == TypeOK /\ Structure /\ Pairs`. `Structure`
  ties handlers and cached rooms to rows; `Pairs` says, for every pair that
  nothing disturbed, how row, cache and view relate at each step of the one
  handler that may be changing it (`Underway`), and that they agree when there
  is none. Lemmas: a step that touches neither row, cache, view nor handlers of a
  pair keeps it (`PairFrame`); a handler that changes a pair is alone
  (`Alone`, `ChangingAfter`, `ChangingEnds`).
* **Sessions_proofs.** `IInv == TypeOK /\ Subjects /\ RequestsKnow /\ OneClaim /\
  SessionsInv`: subjects are protected accounts; what a request carries is what
  its steps established; of a consumed row there is one request on its way to
  a session or one session that starts a chain, never both; sessions of
  one login form a chain, because `predecessorId` is unique. `BansAreEnforced` is
  an action property over the same invariant.
* **ChatDelivery_proofs.** `IInv == TypeOK /\ Rooms /\ Sent /\ Gapless /\ SyncsFind
  /\ Calm /\ Cursors`. `Gapless` is the heart: for a socket past its load of the
  messages, each stored message is one the client has (`Has`) or one that is
  still to come, with a push or with INSERT_ROOM (`ToCome`). It rests on
  `CandidatesCover` (cursor and `skip` leave out only rows that are not newer than
  the cursor's, although rows of one timestamp have no order) and on `Sent` (what
  was loaded or sent is stored). `Calm` says that without an overlap at most one
  SYNC_CURSOR is in flight and no snapshot beside it, `Cursors` what each socket was
  told at each of its steps. Nothing depends on how many rows `take` allows.
* **Storage_proofs**, the pool: `IInv == TypeOK /\ DictionaryExact /\ ReservedExact /\
  QueueExact /\ GivenExact /\ ListenersExact`: the dictionary holds exactly the
  page's connections, `reserved` exactly the opens under way, IndexedDB's queue
  each request of a waiting call once, and the listeners of an open are exactly the
  callers that wait for it. `OneConnection` needs the first two together: a
  connection excludes an open of the same name through the dictionary, two
  opens exclude each other through `reserved`.
  `PoolIsShared`: each step is one of `SharedConnection` or a stutter. An event of the
  page answers all who ask at once, since the listeners are exactly they
  (`WokenExact`), a failure refuses one and the others go on asking, and a connection is
  closed only when every answer was taken (`QuietRests`).
* **Storage_proofs**, the store: every step of the store is a step of the pool, so the
  pool's invariant and the refinement hold here as well (`StoreSharesConnections`).
  `Backed` (an open connection is to a database that exists, because a deletion waits for
  all of them) and `Kept` (what is kept is in the database of a room with a row and no
  deletion on its way) are inductive with it and give `KeptWhileListed`. Assumptions:
  `NoRow` and `NoDatabase` differ from every set of accounts and messages.
* **Storage_proofs**, the pages: a list of messages in the order of the index is the only
  one over its set (`EnumerationUnique`), and the cursor gives such a list
  (`CourseEnumerates`), of which the loop collects all that follows the target
  (`RowsCollected`, `AllContinued`). The pages before and after a target are put together to
  one list over all messages (`PagesJoin`), hence to the list of all. Databases stay
  finite, since batches are (`StoreStaysFinite`). Assumptions: messages and timestamps
  are numbers, a batch is finite.
* **Services_proofs**, profile. Names: an answered name is the account's as long as its
  registrations did not race, because every other request that passed the look at the
  nickname is noticed, and a tag that is about to be written is free unless another one
  of the name is on its way (`NamesAreKept`). Avatars: `AvatarInv` says who owns keys,
  deletions and links in flight (`KeysOwned`, `DeletesOwned`, `LinksOwned`), that every
  overlap is in `mixed` (`OverlapsSeen`), and, for an account that is not mixed, what rows
  and key are at each step of its one request (`Settled`); `AvatarsAgree` is the case
  without a request. Assumption: `None` is none of the other values.
* **Services_proofs**, friends. `FriendsInv == OverlapsKnown /\ \A u, v : PairRight(u, v)`.
  A pair is right when what the client was told (`TellsRight`), or what its snapshot has
  read so far (`ReadRight`), agrees with the rows except for the one handler that is on
  its way; `OverlapsKnown` says that two handlers of a pair, or one beside the snapshot,
  are in `unsettled`. Neither is inductive without the other. Assumption: `NoRow` is no
  label.
* **Services_proofs**, sign-in: `OAuthInv == OAuthTypeOK /\ RowsRight /\ \A f : FlowRight`.
  `RowsRight`: a row is what its state was made for, and a state that was exchanged
  has none, which is why no second request finds it. `FlowRight`: what a request
  knows at each step, so that its answer blames the right side. Assumptions: `Absent`
  is no value of the data, and a joined query parameter is no state.
* **Services_proofs**, the frames: `GameInv == GameTypeOK /\ QueueInOrder /\
  SimulatedQueued /\ NobodyAhead /\ PaddlesKept /\ BallInPlay`. `PaddlesKept` is about what
  was sent, the queue about what was merged; they meet because the queue is in
  order and, in the first game, as long as the longest row of frames sent
  (`NobodyAhead`). One turn of the loop (`SyncTurn`) replaces the sender's paddle in the
  frame of that id, leaves the opponent's alone and keeps the ball between the goal lines
  (`FrameRight`, on `EngineKeepsCourt` and `MergeKeepsCourt`); the loop is a recursive
  function, so `RecursionSolved` gives it turn by turn (`SyncedRight`). Assumptions: a
  ball fits into the court, `NaN` is no number, and strokes and the opponent's guess are
  values of their types.
* **Client_proofs**, the sockets of a page: `RegistryInv == RegistryTypeOK /\ SocketsRight
  /\ ListenersFollow`. `SocketsRight` ties the browser's state of a socket to the entry
  and the registration: only the registered socket is connecting or open, so an event of
  another one cannot pass for its own. Assumption: `Nobody` is no socket and no packet.
* **Client_proofs**, members: `MembersInv == MembersTypeOK /\ RacesKnown /\ AllRight`.
  Of a member that no race touched, what a merge has read is still there when
  it writes (`MemberRight`), because any other call for it would be an overlap, and a
  deletion on its way or a missing row a race (`RacesKnown`). What a member is that no
  call decided about since the last deletion, the failing deletions say (`survived`).
  `SavedIsKept` is the rest of `MemberRight`; it holds for any number of deletions.
* **Client_proofs**, the buffer: `BufferInv` says that the bytes of a message are the rows
  of its items, one after another, from the beginning of the view to the offset (`Lies`
  with `Layout`), before and after it is sent, and that what was found so far ends at an
  item's end (`ReadTo`). Writing a row touches nothing before it, grown memory or not
  (`ReserveExact`, `PutRowsExact`); reading at the beginning of an item's rows gives the item
  and stops at their end (`GetExact`, by kind of item), and behind the last row there is
  nothing to read (`GetNothing`). That a number is read back is `NumberBack`: repeated
  division leaves a quotient that is 0 or the sign (`Fits`), and the digits with it are
  the number again. Assumptions: `Base` is even, starts and lengths are natural numbers, and items
  are `WellFormed`, as the writers' types and the widths of a `DataView` demand: a number
  fits its width, a length its four bytes.
* **Client_proofs**, the encodings. A letter of base32 is five bits of one byte or of two
  (`LetterOf`, at five places in a group). The states of the encoder
  after each byte (`EncodedTo`: what was written and carried, by place in a group) give
  `EncodeExact`, and five bits by five are the reference's (`ReferenceExact`). The decoder
  has eight shifts (`DecodedTo`); what it carries after the last letter is 0, so that the
  byte it might add is not added (`DecodeExact`). Hexadecimal goes digit by digit (`HexTo`).
  The counter's bytes are the quotients of the number (`Rests`), which for up to three
  bytes are those bytes behind zeros (`FactorOfThree`); more are out of the property, as the
  code shifts 32-bit integers. Assumption: bytes are 0 to 255.
* **Recursion_proofs.** `NatSetInduction` is induction for a set instead of a predicate,
  which is what the provers can instantiate; `RecursionSolved` derives from it that a
  recursive function over an interval has its values turn by turn. Loops are therefore
  recursive functions in all modules that are proved about, and what they compute for
  every input is proved like anything else.

Only model-checked: the three liveness properties (`VanishedPeerReaped`,
`HandshakeSettles`, `CallsSettle`; the prover has no fairness and no `ENABLED`), and the four
violations, each of which is a behaviour to be found and nothing to be proved.

## 5. Plan

Done: all parts with state that the code runs, with every safety property of theirs
proved, and abstract specifications of the chat connections and of the pool that they are
shown to implement. What is left:

1. An abstract specification of a login's tokens (who holds the live one) and one of the
   read cursor, which `Sessions` and `ChatDelivery` would implement.
2. UTF-8 and UUID conversions beside the other codecs; walls and the second axis of
   the physics; rooms that an account leaves in `ChatDelivery`.

## 6. Not modelled

JWT, HMAC, hashes and the truncation of an OTP (cryptography; their results are
nondeterministic where sessions use them); UTF-8 and UUID digits, the otpauth URL,
`fromSmartBufferString` (a list of writes given as text) and the layout of payloads;
walls, angles and the factor 1.1 of a reflection in the physics (floating
point); START, which changes no state, and the game's sends, which reach nobody;
the internal controller, configuration and bootstrapping (no state that changes); the
Prisma generator (a build tool); `src/test` (copies and prototypes); chat bans, mute,
kick and enemies (empty handlers, unused queries). The database is taken to be what
its schema says: unique keys hold, single statements are atomic, and reads
see committed rows.
