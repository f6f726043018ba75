---------------------------- MODULE RoomMembers ----------------------------
(***************************************************************************)
(* What the browser keeps of one chat room beside its messages             *)
(* (src/utils/idb/chat-store.ts): the row's title and fetched-message      *)
(* cursor in the metadata database, and the members with their flags in    *)
(* the room's own database.  Each transaction is one step; mergeMember     *)
(* takes two.  A member call awaits its database first, so it runs some    *)
(* time after it was made, and opens a database anew that was deleted.     *)
(* A deletion of the database is only asked for with the row: it happens   *)
(* later, after those that were asked for before, or fails, which nobody   *)
(* learns.                                                                 *)
(***************************************************************************)
EXTENDS FiniteSets, Naturals

CONSTANTS
  Member,      \* members' UUIDs
  MemberFlags, \* modeFlags of a member
  Title,       \* titles (modeFlags of the room are set the same way)
  Cursor,      \* UUIDs of fetched messages
  MemberCall,  \* bound: member calls in flight at once, on all pages
  MaxDeletions, \* bound: deletions of the room's database on their way at once
  Null         \* no row, no member, no cursor, no change, no call

VARIABLES
  room,        \* the room's row, with the one account that lists it, or Null
  members,     \* store "members": [Member -> MemberFlags \cup {Null}]
  deletions,   \* how many deletions of the database are on their way
  memberCall,  \* the calls in flight
  saved,       \* history: what the calls left of each member since the room was
               \* last deleted
  raced,       \* history: members whose calls overlapped a merge, a time without
               \* a row or a deletion on its way
  survived     \* history: members that were there when a deletion failed

membersVars == <<room, members, deletions, memberCall, saved, raced, survived>>

RoomRows == [title : Title, cursor : Cursor \cup {Null}]
MemberCalls ==
  [kind : {"put", "merge", "delete", "truncate"}, member : Member,
   flags : MemberFlags \cup {Null}, prev : MemberFlags \cup {Null}, step : {"first", "second"}]

NoMembers == [m \in Member |-> Null]

MembersInit ==
  /\ room = Null
  /\ members = NoMembers
  /\ deletions = 0
  /\ memberCall = [c \in MemberCall |-> Null]
  /\ saved = NoMembers
  /\ raced = {}
  /\ survived = {}

\* the calls that concern member m
CallsOf(calls, m) ==
  {c \in MemberCall :
     calls[c] # Null /\ (calls[c].member = m \/ calls[c].kind = "truncate")}

\* Nothing can take away what is left now: the room has its row, and no deletion
\* of its database is on its way.
Kept == room # Null /\ deletions = 0

\* the members that call c alone concerns, while they are kept
SettledBy(c) == {m \in Member : Kept /\ CallsOf(memberCall, m) = {c}}

\* A merge overlaps another call for its member, or a call runs while its member
\* is not kept.
WatchMembers(settled) ==
  raced' = (raced \ settled) \cup
    {m \in Member :
       \/ \E c, d \in CallsOf(memberCall', m) : c # d /\ memberCall'[c].kind = "merge"
       \/ ~Kept' /\ CallsOf(memberCall', m) # {}}

(***************************************************************************)
(* The row: addRoom, deleteRoom of its last account, putToRoom.  What the  *)
(* transaction of one of them asks for when it succeeds stays asked for    *)
(* when the transaction is aborted at its end.                             *)
(***************************************************************************)

\* insert, or update: there, no cursor is no change
AddedRow(title, cursor) ==
  [title |-> title,
   cursor |-> IF room # Null /\ cursor = Null THEN room.cursor ELSE cursor]

PutRow(row) ==
  /\ room' = row
  /\ UNCHANGED <<members, deletions, memberCall, saved, survived>>
  /\ WatchMembers({})

AddOrUpdateRoom(title, cursor) == PutRow(AddedRow(title, cursor))

SetTitle(title) == room # Null /\ PutRow([room EXCEPT !.title = title])

SetFetchedMessageUUID(cursor) == room # Null /\ PutRow([room EXCEPT !.cursor = cursor])

\* Mutant of ForgetRoom: the row goes, and the database stays.
ForgetRoomOnly ==
  /\ room # Null /\ deletions < MaxDeletions
  /\ room' = Null
  /\ saved' = NoMembers
  /\ UNCHANGED <<members, deletions, memberCall, survived>>
  /\ WatchMembers({})

\* The row goes, if the transaction commits, and the deletion is asked for anyway.
ForgetRoom ==
  /\ room # Null /\ deletions < MaxDeletions
  /\ room' \in {Null, room}
  /\ deletions' = deletions + 1
  /\ saved' = NoMembers
  /\ UNCHANGED <<members, memberCall, survived>>
  /\ WatchMembers({})

\* IndexedDB gets to the oldest deletion: the members are gone, those too that
\* were saved after it was asked for.
RemoveDB ==
  /\ deletions > 0
  /\ deletions' = deletions - 1
  /\ members' = NoMembers
  /\ survived' = {}
  /\ UNCHANGED <<room, memberCall, saved>>
  /\ WatchMembers({m \in Member : saved[m] = Null /\ CallsOf(memberCall, m) = {}})

\* It fails, which delete answers with false and deleteRoom does not look at.
RemoveDBFails ==
  /\ deletions > 0
  /\ deletions' = deletions - 1
  /\ survived' = {m \in Member : members[m] # Null}
  /\ UNCHANGED <<room, members, memberCall, saved>>
  /\ WatchMembers({})

(***************************************************************************)
(* The members.                                                            *)
(***************************************************************************)
CallMember(c, kind, m, flags) ==
  /\ memberCall[c] = Null
  /\ memberCall' = [memberCall EXCEPT ![c] =
       [kind |-> kind, member |-> m, flags |-> flags, prev |-> Null, step |-> "first"]]
  /\ UNCHANGED <<room, members, deletions, saved, survived>>
  /\ WatchMembers({})

MemberCallAt(c, kind, step) ==
  memberCall[c] # Null /\ memberCall[c].kind = kind /\ memberCall[c].step = step

\* the transaction of call c leaves flags of its member, and the call is over
Leave(c, flags) ==
  LET m == memberCall[c].member IN
    /\ members' = [members EXCEPT ![m] = flags]
    /\ saved' = [saved EXCEPT ![m] = flags]
    /\ survived' = survived \ {m}
    /\ memberCall' = [memberCall EXCEPT ![c] = Null]
    /\ UNCHANGED <<room, deletions>>
    /\ WatchMembers(SettledBy(c))

PutMember(c) == MemberCallAt(c, "put", "first") /\ Leave(c, memberCall[c].flags)

DeleteMember(c) == MemberCallAt(c, "delete", "first") /\ Leave(c, Null)

TruncateMember(c) ==
  /\ MemberCallAt(c, "truncate", "first")
  /\ members' = NoMembers
  /\ saved' = NoMembers
  /\ survived' = {}
  /\ memberCall' = [memberCall EXCEPT ![c] = Null]
  /\ UNCHANGED <<room, deletions>>
  /\ WatchMembers(SettledBy(c))

\* the call ends without a change
EndMemberCall(c) ==
  /\ memberCall' = [memberCall EXCEPT ![c] = Null]
  /\ UNCHANGED <<room, members, deletions, saved, survived>>
  /\ WatchMembers({})

\* Mutant of MergeReads: a member that is not there is merged into nothing.
MergeReadsAny(c) ==
  /\ MemberCallAt(c, "merge", "first")
  /\ memberCall' = [memberCall EXCEPT ![c].step = "second",
                                      ![c].prev = members[memberCall[c].member]]
  /\ UNCHANGED <<room, members, deletions, saved, survived>>
  /\ WatchMembers({})

\* mergeMember's getMember: null ends it
MergeReads(c) ==
  /\ MemberCallAt(c, "merge", "first")
  /\ LET prev == members[memberCall[c].member] IN
       \/ prev = Null /\ EndMemberCall(c)
       \/ /\ prev # Null
          /\ memberCall' = [memberCall EXCEPT ![c].step = "second", ![c].prev = prev]
          /\ UNCHANGED <<room, members, deletions, saved, survived>>
          /\ WatchMembers({})

\* what a merge makes of a member: the flags that are given, or those there were
Merged(prev, flags) == IF flags = Null THEN prev ELSE flags

\* its putMember: what was read, with the changes, whatever is there by now;
\* an atomic merge would have left a member that is gone alone
MergePuts(c) ==
  /\ MemberCallAt(c, "merge", "second")
  /\ LET m == memberCall[c].member
         flags == memberCall[c].flags
     IN /\ members' = [members EXCEPT ![m] = Merged(memberCall[c].prev, flags)]
        /\ saved' = [saved EXCEPT ![m] = IF @ = Null THEN Null ELSE Merged(@, flags)]
  /\ memberCall' = [memberCall EXCEPT ![c] = Null]
  /\ UNCHANGED <<room, deletions, survived>>
  /\ WatchMembers({})

\* a transaction is aborted, or the page is closed
MemberCallFails(c) == memberCall[c] # Null /\ EndMemberCall(c)

MembersNext ==
  \/ \E title \in Title, cursor \in Cursor \cup {Null} : AddOrUpdateRoom(title, cursor)
  \/ \E title \in Title : SetTitle(title)
  \/ \E cursor \in Cursor : SetFetchedMessageUUID(cursor)
  \/ ForgetRoom \/ RemoveDB \/ RemoveDBFails
  \/ \E c \in MemberCall :
       \/ \E m \in Member :
            \/ \E flags \in MemberFlags : CallMember(c, "put", m, flags)
            \/ \E flags \in MemberFlags \cup {Null} : CallMember(c, "merge", m, flags)
            \/ \E kind \in {"delete", "truncate"} : CallMember(c, kind, m, Null)
       \/ PutMember(c) \/ DeleteMember(c) \/ TruncateMember(c)
       \/ MergeReads(c) \/ MergePuts(c) \/ MemberCallFails(c)

MembersSpec == MembersInit /\ [][MembersNext]_membersVars
-----------------------------------------------------------------------------
(***************************************************************************)
(* Properties.                                                             *)
(***************************************************************************)

\* Every variable has its type.
MembersTypeOK ==
  /\ room \in RoomRows \cup {Null}
  /\ members \in [Member -> MemberFlags \cup {Null}]
  /\ deletions \in Nat
  /\ memberCall \in [MemberCall -> MemberCalls \cup {Null}]
  /\ saved \in [Member -> MemberFlags \cup {Null}]
  /\ raced \subseteq Member
  /\ survived \subseteq Member

\* When no deletion is on its way, the store holds what the calls left since the
\* room was last deleted: each merge counts as one step and none is undone or
\* brings back a member that is gone.  It holds nothing else, except members that
\* no call decided about since and that were there when a deletion failed.  Exempt
\* are members with a merge that overlapped another call, or a call while the
\* room had no row or a deletion was on its way, until a call that has the member
\* to itself, or a deletion, decides about it again.
SavedIsKept ==
  deletions = 0 =>
    \A m \in Member \ raced : members[m] = saved[m] \/ (saved[m] = Null /\ m \in survived)

=============================================================================
