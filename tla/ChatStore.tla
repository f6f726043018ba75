------------------------------ MODULE ChatStore ------------------------------
(***************************************************************************)
(* The browser's copy of the chat rooms (src/utils/idb/chat-store.ts).     *)
(* The rooms of every account of the browser are rows of one metadata      *)
(* database; the messages of a room are in a database of its own, shared   *)
(* by the accounts that list the room, opened through the page's           *)
(* ConnectionPool and deleted with the room's row.  Name is the set of     *)
(* rooms here.                                                             *)
(*                                                                         *)
(* Transactions that write the same store are serialised, also between     *)
(* pages, and their handlers are part of them: each is one step, taken     *)
(* when it is created.  The metadata database is never deleted and is      *)
(* taken to be open.  A row's title and cursor, and the members of a room, *)
(* are in RoomMembers.                                                     *)
(***************************************************************************)
EXTENDS ConnectionPool, MessagePages

CONSTANTS Account, NoRow, NoDatabase, NoOp,
          Batch  \* the lists of messages that are added: a bound

ASSUME StoreAssumption == /\ Batch \subseteq SUBSET Message
                          /\ \A batch \in Batch : IsFiniteSet(batch)
                          /\ \A accounts \in SUBSET Account : accounts # NoRow
                          /\ \A msgs \in SUBSET Message : msgs # NoDatabase

VARIABLES
  rows,     \* store "rooms": per room, the accounts that list it, or NoRow
  stored,   \* per room, the messages in its database, or NoDatabase
  op,       \* per call, the method that made it
  kept      \* history: per room, the messages saved since its deletion was last
            \* asked for, with a row and while no deletion of its database was on its way

storeVars == <<rows, stored, op, kept>>

vars == <<poolVars, storeVars>>

Add(batch) == [kind |-> "addMessageBulk", batch |-> batch]

Op == [kind : {"addRoom", "deleteRoom"}] \cup {Add(batch) : batch \in Batch}

StoreTypeOK ==
  /\ TypeOK
  /\ rows \in [Name -> (SUBSET Account) \cup {NoRow}]
  /\ stored \in [Name -> (SUBSET Message) \cup {NoDatabase}]
  /\ op \in [Call -> Op \cup {NoOp}]
  /\ kept \in [Name -> SUBSET Message]

Init ==
  /\ PoolInit
  /\ permitted = Tab  \* another page does not get past the metadata database
  /\ rows = [n \in Name |-> NoRow]
  /\ stored = [n \in Name |-> NoDatabase]
  /\ op = [c \in Call |-> NoOp]
  /\ kept = [n \in Name |-> {}]

\* Mutant of AddRoom: the arguments are swapped, and the row lists the room.
AddRoomSwapped(c, a, n) ==
  /\ op[c] = NoOp
  /\ rows[n] = NoRow
  /\ rows' = [rows EXCEPT ![n] = {n}]
  /\ GetOrOpen(c, n)
  /\ op' = [op EXCEPT ![c] = [kind |-> "addRoom"]]
  /\ UNCHANGED <<stored, kept>>

(* addRoom of a room that has no row: the row is added and, from the       *)
(* handler of that request, the room's database opened.  The transaction   *)
(* may be aborted after that, when it is committed.                        *)
AddRoom(c, a, n) ==
  /\ op[c] = NoOp
  /\ rows[n] = NoRow
  /\ rows' \in {rows, [rows EXCEPT ![n] = {a}]}
  /\ GetOrOpen(c, n)
  /\ op' = [op EXCEPT ![c] = [kind |-> "addRoom"]]
  /\ UNCHANGED <<stored, kept>>

(* addRoom of a room that has a row: the account is added to it. *)
AddAccount(a, n) ==
  /\ rows[n] # NoRow
  /\ rows' = [rows EXCEPT ![n] = @ \cup {a}]
  /\ UNCHANGED <<poolVars, stored, op, kept>>

(* deleteRoom while other accounts list the room: it leaves the list. *)
DeleteAccount(a, n) ==
  /\ rows[n] # NoRow
  /\ rows[n] \ {a} # {}
  /\ rows' = [rows EXCEPT ![n] = @ \ {a}]
  /\ UNCHANGED <<poolVars, stored, op, kept>>

\* Mutant of DeleteRoom: any account that leaves takes the database with it.
DeleteRoomOfAll(c, a, n) ==
  /\ op[c] = NoOp
  /\ rows[n] # NoRow
  /\ rows' = [rows EXCEPT ![n] = IF @ \ {a} = {} THEN NoRow ELSE @ \ {a}]
  /\ Delete(c, n)
  /\ op' = [op EXCEPT ![c] = [kind |-> "deleteRoom"]]
  /\ kept' = [kept EXCEPT ![n] = IF rows[n] \ {a} = {} THEN {} ELSE @]
  /\ UNCHANGED stored

(* deleteRoom by the last account: the row is deleted and, from the        *)
(* handler of that request, the deletion of the database asked for; it     *)
(* happens even if the transaction is aborted when it is committed.        *)
DeleteRoom(c, a, n) ==
  /\ op[c] = NoOp
  /\ rows[n] # NoRow
  /\ rows[n] \ {a} = {}
  /\ rows' \in {rows, [rows EXCEPT ![n] = NoRow]}
  /\ Delete(c, n)
  /\ op' = [op EXCEPT ![c] = [kind |-> "deleteRoom"]]
  /\ kept' = [kept EXCEPT ![n] = {}]
  /\ UNCHANGED stored

(* addMessageBulk, and addMessage for a batch of one: await getDB.  The    *)
(* reads of a room do the same and store nothing: an empty batch.          *)
BeginAdd(c, n, batch) ==
  /\ op[c] = NoOp
  /\ GetOrOpen(c, n)
  /\ op' = [op EXCEPT ![c] = Add(batch)]
  /\ UNCHANGED <<rows, stored, kept>>

\* A deletion of the room's database is still on its way.
Deletion(n) == \E i \in DOMAIN requests[n] : requests[n][i].kind = "delete"

(* The transaction of addMessageBulk: a message that is there already      *)
(* fails its request, which aborts the whole transaction.                  *)
Accepted(c) == /\ got[c] # NoCall
               /\ link[got[c]] = "open"
               /\ op[c].batch \cap stored[at[c]] = {}

Stores(c) ==
  /\ stored' = [stored EXCEPT ![at[c]] = @ \cup op[c].batch]
  /\ kept' = [kept EXCEPT ![at[c]] =
                IF rows[at[c]] # NoRow /\ ~Deletion(at[c])
                THEN @ \cup op[c].batch ELSE @]

EndAdd(c) ==
  /\ pc[c] = "resolved"
  /\ op[c] \notin {NoOp} /\ op[c].kind = "addMessageBulk"
  /\ Continue(c)
  /\ op' = [op EXCEPT ![c] = NoOp]
  /\ \/ Accepted(c) /\ Stores(c)
     \/ UNCHANGED <<stored, kept>>   \* refused, lost or aborted: false
  /\ UNCHANGED rows

(* addRoom and deleteRoom resolve; so does an add whose getDB rejects. *)
EndCall(c) ==
  /\ op[c] # NoOp
  /\ op[c].kind = "addMessageBulk" => pc[c] = "rejected"
  /\ Continue(c)
  /\ op' = [op EXCEPT ![c] = NoOp]
  /\ UNCHANGED <<rows, stored, kept>>

(* The steps of the pool and of IndexedDB, with the databases on disk. *)
CreateDatabase(n) ==
  /\ ServeOpen(n)
  /\ stored' = [stored EXCEPT ![n] = IF @ = NoDatabase THEN {} ELSE @]
  /\ UNCHANGED <<rows, op, kept>>

DeleteDatabase(n) ==
  /\ EndDelete(n)
  /\ \/ stored' = [stored EXCEPT ![n] = NoDatabase]
     \/ UNCHANGED stored
  /\ UNCHANGED <<rows, op, kept>>

OtherPoolStep ==
  /\ \/ PageStep
     \/ \E n \in Name : FailOpen(n)
     \/ \E c \in Call : LoseConnection(c)
  /\ UNCHANGED storeVars

StoreNext ==
  \/ \E c \in Call, a \in Account, n \in Name : AddRoom(c, a, n) \/ DeleteRoom(c, a, n)
  \/ \E a \in Account, n \in Name : AddAccount(a, n) \/ DeleteAccount(a, n)
  \/ \E c \in Call, n \in Name, batch \in Batch : BeginAdd(c, n, batch)
  \/ \E c \in Call : EndAdd(c) \/ EndCall(c)
  \/ \E n \in Name : CreateDatabase(n) \/ DeleteDatabase(n)
  \/ OtherPoolStep

StoreSpec == Init /\ [][StoreNext]_vars

(***************************************************************************)
(* Properties                                                              *)
(***************************************************************************)

(* A message that was saved stays as long as any account of the browser    *)
(* lists the room, whichever page saved it and whichever accounts leave,   *)
(* and until its last account asks for the room to be deleted.             *)
(* Messages saved while a deletion from the room's earlier life is still   *)
(* on its way are not promised: the connection they were written through   *)
(* may be to the database that goes.                                       *)
KeptWhileListed ==
  \A n \in Name : kept[n] # {} => /\ stored[n] # NoDatabase
                                  /\ kept[n] \subseteq stored[n]

(* Whatever a room's database holds, the messages before one of them, that *)
(* one and those after it, each read without a limit, make up the whole    *)
(* list in the order of the index, equal timestamps included: nothing is   *)
(* shown twice or left out where two pages meet.  The list ends with the   *)
(* latest message; the count of the messages after one leaves out those of *)
(* its own timestamp, and no other.                                        *)
PagesExact ==
  \A n \in Name : stored[n] # NoDatabase =>
    /\ stored[n] # {} => LatestMessage(stored[n]) = <<Last(AllMessages(stored[n]))>>
    /\ \A target \in stored[n] :
         LET after == AfterMessages(stored[n], target, NoLimit) IN
           /\ BeforeMessages(stored[n], target, NoLimit) \o <<target>> \o after =
                AllMessages(stored[n])
           /\ CountAfterMessage(stored[n], target) + Cardinality(
                {i \in DOMAIN after : Stamp[after[i]] = Stamp[target]}) = Len(after)

(* With a limit, too, a message that does not come after the target is not *)
(* returned as one that does: "Prevent indirect exclusion checks from      *)
(* being invalidated by exceeding limit at the same timestamp."            *)
(* (chat-store.ts 537).                                                    *)
LimitKeepsExclusion ==
  \A n \in Name : stored[n] # NoDatabase =>
    \A target \in stored[n], limit \in 1 .. Cardinality(stored[n]) :
      LET page == AfterMessages(stored[n], target, limit)
      IN  \A i \in DOMAIN page : Precedes(target, page[i])
=============================================================================
