------------------------------ MODULE Friends ------------------------------
(***************************************************************************)
(* Friends: the `friend` rows, the gateway's ADD_FRIEND, MODIFY_FRIEND and  *)
(* DELETE_FRIEND handlers, split at the await of their query, and the       *)
(* social part of the INITIALIZE snapshot, whose relations are read by      *)
(* queries of their own.  A row <<u, v>> says that u lists v as a friend;   *)
(* as long as v does not list u, it is a friend request to v.               *)
(***************************************************************************)
EXTENDS FiniteSets, Naturals

CONSTANTS
  Users,       \* accounts, each with at most one socket
  Askable,     \* bound: who may ask for a change of its row about whom
  Labels,      \* contents of a row: its groupName and activeFlags
  NoRow,       \* no such row
  Handlers,    \* bound: handlers in flight at once
  Unused       \* a free handler

ASSUME FriendsAssumption == NoRow \notin Labels /\ Askable \subseteq Users \X Users

VARIABLES
  friend,      \* the rows: [Users \X Users -> Labels \cup {NoRow}]
  socket,      \* each account's socket: "off", "greeting" (tracked, its snapshot
               \* is being read) or "on" (INITIALIZE was sent)
  social,      \* what loadSocialByAccountId has read for a greeting socket
  told,        \* what each client was told: its friends and who asks to be one
  handler,     \* the friend handlers in flight
  unsettled    \* history: <<u, v>>, u may have been told something wrong about v

friendsVars == <<friend, socket, social, told, handler, unsettled>>

FriendLists == [Users -> Labels \cup {NoRow}]
Views == [friends : FriendLists, requests : SUBSET Users]
Relations == {"friends", "references"}
Snapshots == [read : SUBSET Relations, friends : FriendLists, references : SUBSET Users]
HandlerRecords ==
  [op : {"add", "modify", "delete"}, from : Users, to : Users, label : Labels \cup {NoRow},
   step : {"query", "done", "refused"}]

ASSUME UnusedAssumption == Unused \notin HandlerRecords

NoFriends == [u \in Users |-> NoRow]
NothingTold == [friends |-> NoFriends, requests |-> {}]
NothingRead == [read |-> {}, friends |-> NoFriends, references |-> {}]

FriendsInit ==
  /\ friend = [p \in Users \X Users |-> NoRow]
  /\ socket = [u \in Users |-> "off"]
  /\ social = [u \in Users |-> NothingRead]
  /\ told = [u \in Users |-> NothingTold]
  /\ handler = [h \in Handlers |-> Unused]
  /\ unsettled = {}

(***************************************************************************)
(* A handler that is in flight together with another one for the same two  *)
(* accounts, or with the snapshot of one of them, leaves open what they    *)
(* are told, until they connect again.                                     *)
(***************************************************************************)
Busy(handlers, u, v) ==
  {h \in Handlers : /\ handlers[h] # Unused
                    /\ {handlers[h].from, handlers[h].to} = {u, v}}

Watched(handlers, sockets) ==
  {p \in Users \X Users :
     LET busy == Busy(handlers, p[1], p[2])
     IN \/ \E h1, h2 \in busy : h1 # h2
        \/ busy # {} /\ sockets[p[1]] = "greeting"}

\* a client that is gone holds nothing wrong: it starts with a new snapshot
WatchFriends(failed) ==
  unsettled' = {p \in unsettled \cup Watched(handler', socket') \cup failed :
                  socket'[p[1]] # "off"}

(***************************************************************************)
(* HANDSHAKE, as far as the social payload is concerned.                   *)
(***************************************************************************)

\* the socket is tracked, then its snapshot is read
Greet(u) ==
  /\ socket[u] = "off"
  /\ socket' = [socket EXCEPT ![u] = "greeting"]
  /\ social' = [social EXCEPT ![u] = NothingRead]
  /\ UNCHANGED <<friend, told, handler>>
  /\ WatchFriends({})

ReadFriends(u) ==
  /\ socket[u] = "greeting" /\ "friends" \notin social[u].read
  /\ social' = [social EXCEPT ![u].read = @ \cup {"friends"},
                              ![u].friends = [v \in Users |-> friend[u, v]]]
  /\ UNCHANGED <<friend, socket, told, handler>>
  /\ WatchFriends({})

ReadReferences(u) ==
  /\ socket[u] = "greeting" /\ "references" \notin social[u].read
  /\ social' = [social EXCEPT ![u].read = @ \cup {"references"},
                              ![u].references = {v \in Users : friend[v, u] # NoRow}]
  /\ UNCHANGED <<friend, socket, told, handler>>
  /\ WatchFriends({})

\* Mutant of RequestList: every reference is a request.
RequestListOfAll(friends, references) == references

\* friendRequestList: who refers to the account without being its friend
RequestList(friends, references) == {v \in references : friends[v] = NoRow}

SendSocial(u) ==
  /\ socket[u] = "greeting" /\ social[u].read = Relations
  /\ socket' = [socket EXCEPT ![u] = "on"]
  /\ told' = [told EXCEPT ![u] =
                [friends |-> social[u].friends,
                 requests |-> RequestList(social[u].friends, social[u].references)]]
  /\ social' = [social EXCEPT ![u] = NothingRead]
  /\ UNCHANGED <<friend, handler>>
  /\ WatchFriends({})

\* the socket is closed, and its client forgets what it was told
Hangup(u) ==
  /\ socket' = [socket EXCEPT ![u] = "off"]
  /\ social' = [social EXCEPT ![u] = NothingRead]
  /\ told' = [told EXCEPT ![u] = NothingTold]

CloseSocket(u) ==
  /\ socket[u] # "off"
  /\ Hangup(u)
  /\ UNCHANGED <<friend, handler>>
  /\ WatchFriends({})

(***************************************************************************)
(* The handlers.  A socket may ask for changes as soon as it is tracked.   *)
(***************************************************************************)
Ask(h, op, u, v, label) ==
  /\ socket[u] # "off" /\ <<u, v>> \in Askable
  /\ handler[h] = Unused
  /\ handler' = [handler EXCEPT ![h] = [op |-> op, from |-> u, to |-> v,
                                        label |-> label, step |-> "query"]]
  /\ UNCHANGED <<friend, socket, social, told>>
  /\ WatchFriends({})

HandlerAt(h, op, step) ==
  handler[h] # Unused /\ handler[h].op = op /\ handler[h].step = step
HandlerTo(h, step) ==
  /\ handler' = [handler EXCEPT ![h].step = step]
  /\ UNCHANGED <<socket, social, told>>
  /\ WatchFriends({})

\* addFriend: friend.create, refused (P2002) when the row is there
AddExecutes(h) ==
  /\ HandlerAt(h, "add", "query")
  /\ LET p == <<handler[h].from, handler[h].to>> IN
       \/ friend[p] # NoRow /\ UNCHANGED friend /\ HandlerTo(h, "refused")
       \/ /\ friend[p] = NoRow
          /\ friend' = [friend EXCEPT ![p] = handler[h].label]
          /\ HandlerTo(h, "done")

\* modifyFriend: friend.update, which throws when there is no row
ModifyExecutes(h) ==
  /\ HandlerAt(h, "modify", "query")
  /\ LET p == <<handler[h].from, handler[h].to>> IN
       \/ friend[p] = NoRow /\ UNCHANGED friend /\ HandlerTo(h, "refused")
       \/ /\ friend[p] # NoRow
          /\ friend' = [friend EXCEPT ![p] = handler[h].label]
          /\ HandlerTo(h, "done")

\* Mutant of Unfriend: only the requester's row goes.
UnfriendOneWay(u, v) == [friend EXCEPT ![<<u, v>>] = NoRow]

\* the rows without those between the two accounts, in either direction
Unfriend(u, v) == [friend EXCEPT ![<<u, v>>] = NoRow, ![<<v, u>>] = NoRow]

\* deleteFriend: friend.deleteMany; whether there was a row is not looked at
DeleteFriendExecutes(h) ==
  /\ HandlerAt(h, "delete", "query")
  /\ friend' = Unfriend(handler[h].from, handler[h].to)
  /\ HandlerTo(h, "done")

\* what a client knows after the notices that handler r sends it
TellAccount(u, r) ==
  CASE r.op = "add" ->        \* FRIEND_REQUEST and ADD_FRIEND_RESULT
         [friends |-> IF u = r.from THEN [told[u].friends EXCEPT ![r.to] = r.label]
                      ELSE told[u].friends,
          requests |-> IF u = r.to THEN told[u].requests \cup {r.from}
                       ELSE told[u].requests]
    [] r.op = "modify" ->     \* MODIFY_FRIEND_RESULT; the target is told no row
         [told[u] EXCEPT !.friends =
            IF u = r.from THEN [@ EXCEPT ![r.to] = r.label] ELSE @]
    [] OTHER ->               \* DELETE_FRIEND_RESULT to both
         [friends |-> [v \in Users |-> IF {u, v} = {r.from, r.to} THEN NoRow
                                       ELSE told[u].friends[v]],
          requests |-> {v \in told[u].requests : {u, v} # {r.from, r.to}}]

\* The handler resumes, and both accounts' tracked sockets are told.  What a
\* client is told before its INITIALIZE is replaced by it.
AnnounceFriend(h) ==
  /\ handler[h] # Unused /\ handler[h].step = "done"
  /\ told' = [u \in Users |-> IF socket[u] = "on" THEN TellAccount(u, handler[h])
                              ELSE told[u]]
  /\ handler' = [handler EXCEPT ![h] = Unused]
  /\ UNCHANGED <<friend, socket, social>>
  /\ WatchFriends({})

\* null is returned: ERROR_ALREADY_FRIEND to the requester alone
AddRefused(h) ==
  /\ HandlerAt(h, "add", "refused")
  /\ handler' = [handler EXCEPT ![h] = Unused]
  /\ UNCHANGED <<friend, socket, social, told>>
  /\ WatchFriends({})

\* what modifyFriend throws goes to the exception filter, which closes the socket
ModifyThrows(h) ==
  /\ HandlerAt(h, "modify", "refused")
  /\ handler' = [handler EXCEPT ![h] = Unused]
  /\ Hangup(handler[h].from)
  /\ UNCHANGED friend
  /\ WatchFriends({})

\* the query fails, before or after its effect: the socket is closed, and nobody is told
ChangeFails(h) ==
  /\ handler[h] # Unused /\ handler[h].step \in {"query", "done"}
  /\ handler' = [handler EXCEPT ![h] = Unused]
  /\ Hangup(handler[h].from)
  /\ UNCHANGED friend
  /\ WatchFriends({<<handler[h].from, handler[h].to>>, <<handler[h].to, handler[h].from>>})

\* the process stops and starts again: the rows stay
FriendsRestart ==
  /\ socket' = [u \in Users |-> "off"]
  /\ social' = [u \in Users |-> NothingRead]
  /\ told' = [u \in Users |-> NothingTold]
  /\ handler' = [h \in Handlers |-> Unused]
  /\ UNCHANGED friend
  /\ WatchFriends({})

FriendsNext ==
  \/ \E u \in Users :
       Greet(u) \/ ReadFriends(u) \/ ReadReferences(u) \/ SendSocial(u) \/ CloseSocket(u)
  \/ \E h \in Handlers :
       \/ \E u, v \in Users :
            \/ \E op \in {"add", "modify"}, label \in Labels : Ask(h, op, u, v, label)
            \/ Ask(h, "delete", u, v, NoRow)
       \/ AddExecutes(h) \/ ModifyExecutes(h) \/ DeleteFriendExecutes(h)
       \/ AnnounceFriend(h) \/ AddRefused(h) \/ ModifyThrows(h) \/ ChangeFails(h)
  \/ FriendsRestart

FriendsSpec == FriendsInit /\ [][FriendsNext]_friendsVars
-----------------------------------------------------------------------------
(***************************************************************************)
(* Properties.                                                             *)
(***************************************************************************)

\* Every variable has its type.
FriendsTypeOK ==
  /\ friend \in [Users \X Users -> Labels \cup {NoRow}]
  /\ socket \in [Users -> {"off", "greeting", "on"}]
  /\ social \in [Users -> Snapshots]
  /\ told \in [Users -> Views]
  /\ handler \in [Handlers -> HandlerRecords \cup {Unused}]
  /\ unsettled \subseteq Users \X Users

\* As long as no two changes between two accounts overlapped, none overlapped
\* the snapshot of the account and none failed after it was executed, what the
\* account's client was told of the other one is what the rows say: its entry in
\* the friend list, and whether it asks to be a friend.  That holds although
\* removals concern the rows of both and notices are sent after their queries.
FriendsViewAgrees ==
  \A u, v \in Users :
    /\ socket[u] = "on" /\ <<u, v>> \notin unsettled /\ Busy(handler, u, v) = {}
    => /\ told[u].friends[v] = friend[u, v]
       /\ (v \in told[u].requests /\ told[u].friends[v] = NoRow)
            <=> (friend[v, u] # NoRow /\ friend[u, v] = NoRow)

=============================================================================
