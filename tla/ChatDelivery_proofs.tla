------------------------ MODULE ChatDelivery_proofs ------------------------
(***************************************************************************)
(* Theorems about the delivery of a room's messages to the sockets of an   *)
(* account, for every set of sockets, messages and SYNC_CURSOR handlers    *)
(* and every `take`.                                                       *)
(***************************************************************************)
EXTENDS ChatDelivery, TLAPS

\* A socket whose room list has the room was tracked after the insertion; one
\* past a room list without it is told by INSERT_ROOM.
Rooms ==
  /\ entry = "outside" => knows = {} /\ listed = {}
  /\ \A s \in Sockets :
       /\ socket[s] = "listed" => s \in listed
       /\ s \in listed => socket[s] \in {"listed", "paged"}
       /\ s \in knows => s \in Tracked
       /\ socket[s] \in {"paged", "ready"} /\ s \notin listed /\ entry = "member"
            => s \in knows

\* The client has m, or the code need not send it.
Has(s, m) ==
  \/ m \in got[s] \cup page[s] \cup cut[s]
  \/ cursor[s] # NoMessage /\ ~(stamp[m] > stamp[cursor[s]])

\* m is still to come, as a message or with INSERT_ROOM.
ToCome(m) ==
  \/ post[m] = "stored"
  \/ m \in addressed
  \/ entry \in {"outside", "inserted", "loading", "stranded"}
  \/ entry = "loaded" /\ m \in roomPage \cup roomCut

\* What was sent or loaded is stored.
Sent ==
  /\ roomPage \subseteq Stored
  /\ \A m \in addressed : post[m] = "addressed"
  /\ \A s \in Sockets :
       /\ cursor[s] \in Stored \cup {NoMessage}
       /\ got[s] \subseteq Stored
       /\ page[s] \subseteq Stored
       /\ page[s] # {} => socket[s] = "paged"

\* Past the snapshot of a socket, no stored message falls between it and the pushes.
Gapless ==
  \A s \in Sockets, m \in Stored :
    socket[s] \in {"paged", "ready"} => Has(s, m) \/ ToCome(m)

InFlight == {k \in Syncs : sync[k] # Idle}

\* A SYNC_CURSOR finds the account's row and its message.
SyncsFind ==
  /\ entry = "outside" => lastMessage = NoMessage
  /\ InFlight # {} => entry # "outside"
  /\ \A k \in InFlight : sync[k].step = "query" => sync[k].message \in Stored

\* Without an overlap at most one SYNC_CURSOR is in flight, and nothing beside it.
Calm ==
  ~raced =>
    /\ entry \in {"outside", "inserted", "loading", "loaded"} => lastMessage = NoMessage
    /\ \A j, k \in InFlight : j = k
    /\ InFlight # {} =>
         /\ entry \notin {"inserted", "loading", "loaded"}
         /\ \A s \in Sockets : socket[s] \notin {"listed", "paged"}

\* Without an overlap, what a socket was told, or will be by INITIALIZE, of the
\* read cursor.
Cursors ==
  ~raced =>
    /\ \A s \in listed : mark[s] = lastMessage
    /\ InFlight = {} => \A s \in knows \ listed : told[s] = lastMessage
    /\ \A k \in InFlight :
         /\ sync[k].step = "done" => lastMessage = sync[k].message
         /\ \A s \in knows :
              /\ s = sync[k].from => told[s] = sync[k].message
              /\ s # sync[k].from /\ sync[k].step = "query" => told[s] = lastMessage

\* The inductive invariant.
IInv == TypeOK /\ Rooms /\ Sent /\ Gapless /\ SyncsFind /\ Calm /\ Cursors

-----------------------------------------------------------------------------
(* Types. *)

LEMMA TypeStep ==
  ASSUME DeliveryAssumption, IdleAssumption, TypeOK, [Next]_vars
  PROVE  TypeOK'
  <1> USE DEF TypeOK, posting, entering, greeting, received, syncing
  <1>1. ASSUME NEW m \in Messages, PostIssued(m) PROVE TypeOK'
    BY <1>1, DeliveryAssumption DEF PostIssued, DeliveryAssumption, Posts
  <1>2. ASSUME NEW m \in Messages, PostStored(m) PROVE TypeOK'
    BY <1>2 DEF PostStored, Posts
  <1>3. ASSUME NEW m \in Messages, PostFails(m) PROVE TypeOK'
    BY <1>3 DEF PostFails, Posts
  <1>4. ASSUME NEW m \in Messages, PostAddressed(m) PROVE TypeOK'
    BY <1>4 DEF PostAddressed, Posts
  <1>5. ASSUME NEW m \in Messages, PostSent(m) PROVE TypeOK'
    BY <1>5 DEF PostSent, Posts
  <1>6. CASE EnterExecutes
    BY <1>6 DEF EnterExecutes, Entries, Watch
  <1>7. CASE EnterResumes
    BY <1>7 DEF EnterResumes, Entries, Watch
  <1>8. CASE EnterLoads
    BY <1>8 DEF EnterLoads, Entries, Stored, Watch
  <1>9. CASE EnterAnnounces
    BY <1>9 DEF EnterAnnounces, Entries, Tracked, Watch
  <1>10. CASE EnterFails
    BY <1>10 DEF EnterFails, Entries, Watch
  <1>11. ASSUME NEW s \in Sockets, NEW c \in Messages \cup {NoMessage}, Connect(s, c)
         PROVE  TypeOK'
    BY <1>11 DEF Connect, GoTo, Phases, Watch
  <1>12. ASSUME NEW s \in Sockets, Track(s) PROVE TypeOK'
    BY <1>12 DEF Track, GoTo, Phases, Watch
  <1>13. ASSUME NEW s \in Sockets, ReadRoomList(s) PROVE TypeOK'
    BY <1>13 DEF ReadRoomList, GoTo, Phases, Watch
  <1>14. ASSUME NEW s \in Sockets, ReadMessages(s) PROVE TypeOK'
    BY <1>14 DEF ReadMessages, Candidates, Stored, GoTo, Phases, Watch
  <1>15. ASSUME NEW s \in Sockets, Initialize(s) PROVE TypeOK'
    BY <1>15 DEF Initialize, Loaded, GoTo, Phases, Watch
  <1>16. ASSUME NEW s \in Sockets, Close(s) PROVE TypeOK'
    BY <1>16 DEF Close, Forget, Phases, Watch
  <1>17. ASSUME NEW k \in Syncs, NEW s \in Sockets, NEW m \in Messages, SyncIssued(k, s, m)
         PROVE  TypeOK'
    BY <1>17 DEF SyncIssued, SyncRecords, Watch
  <1>18. ASSUME NEW k \in Syncs, SyncExecutes(k) PROVE TypeOK'
    BY <1>18 DEF SyncExecutes, SyncRecords, Stored, Watch
  <1>19. ASSUME NEW k \in Syncs, SyncResumes(k) PROVE TypeOK'
    BY <1>19 DEF SyncResumes, SyncRecords, Watch
  <1>20. ASSUME NEW k \in Syncs, SyncFails(k) PROVE TypeOK'
    BY <1>20 DEF SyncFails, Forget, SyncRecords, Phases, Watch
  <1>21. CASE Restart
    BY <1>21 DEF Restart, Forget, Posts, Entries, Phases
  <1>22. CASE UNCHANGED vars
    BY <1>22 DEF vars
  <1> QED
    BY <1>1, <1>2, <1>3, <1>4, <1>5, <1>6, <1>7, <1>8, <1>9, <1>10, <1>11, <1>12, <1>13,
       <1>14, <1>15, <1>16, <1>17, <1>18, <1>19, <1>20, <1>21, <1>22 DEF Next

-----------------------------------------------------------------------------
(* Who knows the room. *)

\* A step that changes neither connections nor the account's row.
LEMMA RoomsFrame ==
  ASSUME Rooms, UNCHANGED <<entry, socket, listed, knows>>
  PROVE  Rooms'
  BY DEF Rooms, Tracked

LEMMA RoomsStep ==
  ASSUME TypeOK, Rooms, [Next]_vars
  PROVE  Rooms'
  <1> USE DEF posting, entering, greeting, received, syncing
  <1>1. ASSUME NEW m \in Messages,
               PostIssued(m) \/ PostStored(m) \/ PostFails(m) \/ PostAddressed(m) \/ PostSent(m)
        PROVE  Rooms'
    BY <1>1, RoomsFrame DEF PostIssued, PostStored, PostFails, PostAddressed, PostSent
  <1>2. CASE EnterExecutes \/ EnterResumes \/ EnterLoads \/ EnterFails
    BY <1>2 DEF EnterExecutes, EnterResumes, EnterLoads, EnterFails, Rooms, Tracked
  <1>3. CASE EnterAnnounces
    BY <1>3 DEF EnterAnnounces, Rooms, Tracked
  <1>4. ASSUME NEW s \in Sockets, NEW c \in Messages \cup {NoMessage}, Connect(s, c)
        PROVE  Rooms'
    BY <1>4 DEF TypeOK, Connect, GoTo, Rooms, Tracked
  <1>5. ASSUME NEW s \in Sockets, Track(s) PROVE Rooms'
    BY <1>5 DEF TypeOK, Track, GoTo, Rooms, Tracked
  <1>6. ASSUME NEW s \in Sockets, ReadRoomList(s) PROVE Rooms'
    BY <1>6 DEF TypeOK, ReadRoomList, GoTo, Inserted, Rooms, Tracked
  <1>7. ASSUME NEW s \in Sockets, ReadMessages(s) PROVE Rooms'
    BY <1>7 DEF TypeOK, ReadMessages, GoTo, Rooms, Tracked
  <1>8. ASSUME NEW s \in Sockets, Initialize(s) PROVE Rooms'
    BY <1>8 DEF TypeOK, Initialize, Loaded, GoTo, Rooms, Tracked
  <1>9. ASSUME NEW s \in Sockets, Close(s) PROVE Rooms'
    BY <1>9 DEF TypeOK, Close, Forget, Rooms, Tracked
  <1>10. ASSUME NEW k \in Syncs, NEW s \in Sockets, NEW m \in Messages, SyncIssued(k, s, m)
         PROVE  Rooms'
    BY <1>10, RoomsFrame DEF SyncIssued
  <1>11. ASSUME NEW k \in Syncs, SyncExecutes(k) \/ SyncResumes(k) PROVE Rooms'
    BY <1>11, RoomsFrame DEF SyncExecutes, SyncResumes
  <1>12. ASSUME NEW k \in Syncs, SyncFails(k) PROVE Rooms'
    BY <1>12 DEF TypeOK, SyncFails, Forget, Rooms, Tracked
  <1>13. CASE Restart
    BY <1>13 DEF TypeOK, Restart, Forget, Inserted, Rooms, Tracked
  <1>14. CASE UNCHANGED vars
    BY <1>14, RoomsFrame DEF vars
  <1> QED
    BY <1>1, <1>2, <1>3, <1>4, <1>5, <1>6, <1>7, <1>8, <1>9, <1>10, <1>11, <1>12, <1>13,
       <1>14 DEF Next

-----------------------------------------------------------------------------
(* Messages. *)

\* A step that changes neither messages nor what was loaded or sent.
LEMMA SentFrame ==
  ASSUME Sent, UNCHANGED <<post, addressed, roomPage, cursor, got, page>>,
         \A s \in Sockets : socket[s] = "paged" => socket'[s] = "paged"
  PROVE  Sent'
  BY DEF Sent, Stored

LEMMA SentStep ==
  ASSUME TypeOK, Sent, [Next]_vars
  PROVE  Sent'
  <1> USE DEF posting, entering, greeting, received, syncing
  <1>1. ASSUME NEW m \in Messages,
               PostIssued(m) \/ PostStored(m) \/ PostFails(m) \/ PostAddressed(m)
        PROVE  Sent'
    BY <1>1 DEF PostIssued, PostStored, PostFails, PostAddressed, TypeOK, Sent, Stored
  <1>2. ASSUME NEW m \in Messages, PostSent(m) PROVE Sent'
    BY <1>2 DEF PostSent, TypeOK, Sent, Stored
  <1>3. CASE EnterExecutes \/ EnterResumes \/ EnterFails
    BY <1>3, SentFrame DEF EnterExecutes, EnterResumes, EnterFails
  <1>4. CASE EnterLoads
    BY <1>4 DEF EnterLoads, Sent, Stored
  <1>5. CASE EnterAnnounces
    BY <1>5 DEF EnterAnnounces, TypeOK, Sent, Stored
  <1>6. ASSUME NEW s \in Sockets, NEW c \in Messages \cup {NoMessage}, Connect(s, c)
        PROVE  Sent'
    BY <1>6 DEF Connect, GoTo, TypeOK, Sent, Stored
  <1>7. ASSUME NEW s \in Sockets, Track(s) \/ ReadRoomList(s) PROVE Sent'
    BY <1>7 DEF Track, ReadRoomList, GoTo, TypeOK, Sent, Stored
  <1>8. ASSUME NEW s \in Sockets, ReadMessages(s) PROVE Sent'
    BY <1>8 DEF ReadMessages, Candidates, GoTo, TypeOK, Sent, Stored
  <1>9. ASSUME NEW s \in Sockets, Initialize(s) PROVE Sent'
    BY <1>9 DEF Initialize, Loaded, GoTo, TypeOK, Sent, Stored
  <1>10. ASSUME NEW s \in Sockets, Close(s) PROVE Sent'
    BY <1>10 DEF Close, Forget, TypeOK, Sent, Stored
  <1>11. ASSUME NEW k \in Syncs, NEW s \in Sockets, NEW m \in Messages, SyncIssued(k, s, m)
         PROVE  Sent'
    BY <1>11, SentFrame DEF SyncIssued
  <1>12. ASSUME NEW k \in Syncs, SyncExecutes(k) \/ SyncResumes(k) PROVE Sent'
    BY <1>12, SentFrame DEF SyncExecutes, SyncResumes
  <1>13. ASSUME NEW k \in Syncs, SyncFails(k) PROVE Sent'
    BY <1>13 DEF SyncFails, Forget, TypeOK, Sent, Stored
  <1>14. CASE Restart
    BY <1>14 DEF Restart, Forget, TypeOK, Sent, Stored
  <1>15. CASE UNCHANGED vars
    BY <1>15, SentFrame DEF vars
  <1> QED
    BY <1>1, <1>2, <1>3, <1>4, <1>5, <1>6, <1>7, <1>8, <1>9, <1>10, <1>11, <1>12, <1>13,
       <1>14, <1>15 DEF Next

\* skip and cursor leave out only the cursor's row and rows no newer than it.
LEMMA CandidatesCover ==
  ASSUME TypeOK, DeliveryAssumption,
         NEW c \in Stored \cup {NoMessage}, NEW rows \in Candidates(c), NEW m \in Stored
  PROVE  m \in rows \/ (c # NoMessage /\ ~(stamp[m] > stamp[c]))
  <1>1. CASE c = NoMessage
    BY <1>1 DEF Candidates
  <1>2. CASE c # NoMessage
    <2> DEFINE eligible == {n \in Stored : stamp[n] >= stamp[c]}
    <2>1. PICK first \in eligible : stamp[first] = stamp[c] /\ rows = eligible \ {first}
      BY <1>2 DEF Candidates
    <2>2. stamp[m] \in Nat /\ stamp[c] \in Nat
      BY <1>2, DeliveryAssumption DEF TypeOK, Stored, DeliveryAssumption
    <2> QED BY <1>2, <2>1, <2>2
  <1> QED BY <1>1, <1>2

\* A step that sends nothing and takes no socket past its snapshot.
LEMMA GaplessFrame ==
  ASSUME Gapless,
         Stored' \subseteq Stored,
         \A m \in Stored : ToCome(m) => ToCome(m)',
         UNCHANGED <<stamp, cursor>>,
         \A s \in Sockets : socket'[s] \in {"paged", "ready"} =>
           /\ socket[s] \in {"paged", "ready"}
           /\ got[s] \cup page[s] \cup cut[s] \subseteq got'[s] \cup page'[s] \cup cut'[s]
  PROVE  Gapless'
  BY DEF Gapless, Has

LEMMA GaplessStep ==
  ASSUME DeliveryAssumption, TypeOK, Rooms, Sent, Gapless, [Next]_vars
  PROVE  Gapless'
  <1> USE DEF posting, entering, greeting, received, syncing
  <1>1. ASSUME NEW m \in Messages, PostIssued(m) PROVE Gapless'
    BY <1>1, DeliveryAssumption
       DEF PostIssued, TypeOK, Sent, Gapless, Has, ToCome, Stored, DeliveryAssumption
  <1>2. ASSUME NEW m \in Messages, PostStored(m) PROVE Gapless'
    BY <1>2 DEF PostStored, TypeOK, Gapless, Has, ToCome, Stored
  <1>3. ASSUME NEW m \in Messages, PostFails(m) PROVE Gapless'
    BY <1>3, GaplessFrame DEF PostFails, TypeOK, ToCome, Stored
  <1>4. ASSUME NEW m \in Messages, PostAddressed(m) PROVE Gapless'
    BY <1>4, GaplessFrame DEF PostAddressed, Inserted, TypeOK, ToCome, Stored
  <1>5. ASSUME NEW m \in Messages, PostSent(m) PROVE Gapless'
    BY <1>5 DEF PostSent, Tracked, TypeOK, Gapless, Has, ToCome, Stored
  <1>6. CASE EnterExecutes \/ EnterResumes \/ EnterFails
    BY <1>6, GaplessFrame DEF EnterExecutes, EnterResumes, EnterFails, ToCome, Stored
  <1>7. CASE EnterLoads
    BY <1>7, GaplessFrame DEF EnterLoads, ToCome, Stored
  <1>8. CASE EnterAnnounces
    BY <1>8 DEF EnterAnnounces, Tracked, TypeOK, Gapless, Has, ToCome, Stored
  <1>9. ASSUME NEW s \in Sockets, NEW c \in Messages \cup {NoMessage}, Connect(s, c)
        PROVE  Gapless'
    BY <1>9 DEF Connect, GoTo, TypeOK, Gapless, Has, ToCome, Stored
  <1>10. ASSUME NEW s \in Sockets, Track(s) PROVE Gapless'
    BY <1>10, GaplessFrame DEF Track, GoTo, TypeOK, ToCome, Stored
  <1>11. ASSUME NEW s \in Sockets, ReadRoomList(s) PROVE Gapless'
    <2>1. UNCHANGED <<post, stamp, cursor, got, page, cut, addressed, entry, roomPage, roomCut>>
      BY <1>11 DEF ReadRoomList
    <2>2. CASE socket' = [socket EXCEPT ![s] = "listed"]
      BY <2>1, <2>2, GaplessFrame DEF TypeOK, ToCome, Stored
    <2>3. CASE entry = "outside"
      BY <2>1, <2>3 DEF Gapless, ToCome
    <2> QED BY <1>11, <2>2, <2>3 DEF ReadRoomList, Inserted, GoTo
  <1>12. ASSUME NEW s \in Sockets, ReadMessages(s) PROVE Gapless'
    <2>1. PICK candidates \in Candidates(cursor[s]) : \E rows \in SUBSET candidates :
            /\ page' = [page EXCEPT ![s] = rows]
            /\ cut' = [cut EXCEPT ![s] = @ \cup (candidates \ rows)]
      BY <1>12 DEF ReadMessages
    <2>2. UNCHANGED <<post, stamp, cursor, got, addressed, entry, roomPage, roomCut>>
      BY <1>12 DEF ReadMessages
    <2>3. socket' = [socket EXCEPT ![s] = "paged"] /\ socket[s] = "listed"
      BY <1>12 DEF ReadMessages, GoTo
    <2>4. \A m \in Stored : m \in candidates => m \in page'[s] \cup cut'[s]
      BY <2>1 DEF TypeOK
    <2>5. \A m \in Stored : Has(s, m)'
      BY <2>2, <2>4, CandidatesCover, DeliveryAssumption DEF Sent, Has
    <2>6. \A t \in Sockets \ {s} : page'[t] = page[t] /\ cut'[t] = cut[t]
      BY <2>1 DEF TypeOK
    <2> QED BY <2>2, <2>3, <2>5, <2>6 DEF TypeOK, Gapless, Has, ToCome, Stored
  <1>13. ASSUME NEW s \in Sockets, Initialize(s) PROVE Gapless'
    BY <1>13, GaplessFrame DEF Initialize, Loaded, GoTo, TypeOK, ToCome, Stored
  <1>14. ASSUME NEW s \in Sockets, Close(s) PROVE Gapless'
    BY <1>14 DEF Close, Forget, TypeOK, Gapless, Has, ToCome, Stored
  <1>15. ASSUME NEW k \in Syncs, NEW s \in Sockets, NEW m \in Messages, SyncIssued(k, s, m)
         PROVE  Gapless'
    BY <1>15, GaplessFrame DEF SyncIssued, ToCome, Stored
  <1>16. ASSUME NEW k \in Syncs, SyncExecutes(k) \/ SyncResumes(k) PROVE Gapless'
    BY <1>16, GaplessFrame DEF SyncExecutes, SyncResumes, ToCome, Stored
  <1>17. ASSUME NEW k \in Syncs, SyncFails(k) PROVE Gapless'
    BY <1>17 DEF SyncFails, Forget, TypeOK, Gapless, Has, ToCome, Stored
  <1>18. CASE Restart
    BY <1>18 DEF Restart, Forget, TypeOK, Gapless
  <1>19. CASE UNCHANGED vars
    BY <1>19 DEF vars, Gapless, Has, ToCome, Stored
  <1> QED
    BY <1>1, <1>2, <1>3, <1>4, <1>5, <1>6, <1>7, <1>8, <1>9, <1>10, <1>11, <1>12, <1>13,
       <1>14, <1>15, <1>16, <1>17, <1>18, <1>19 DEF Next

-----------------------------------------------------------------------------
(* SYNC_CURSOR. *)

\* A step of no SYNC_CURSOR.
LEMMA SyncsFindFrame ==
  ASSUME SyncsFind, UNCHANGED <<lastMessage, sync>>, Stored \subseteq Stored',
         entry' = "outside" => entry = "outside"
  PROVE  SyncsFind'
  BY DEF SyncsFind, InFlight

LEMMA SyncsFindStep ==
  ASSUME IdleAssumption, TypeOK, Rooms, Sent, SyncsFind, [Next]_vars
  PROVE  SyncsFind'
  <1> USE DEF posting, entering, greeting, received, syncing
  <1>1. ASSUME NEW m \in Messages,
               PostIssued(m) \/ PostStored(m) \/ PostFails(m) \/ PostAddressed(m) \/ PostSent(m)
        PROVE  SyncsFind'
    BY <1>1, SyncsFindFrame
       DEF PostIssued, PostStored, PostFails, PostAddressed, PostSent, TypeOK, Stored
  <1>2. CASE EnterExecutes
    BY <1>2, SyncsFindFrame DEF EnterExecutes, Stored
  <1>3. CASE EnterResumes \/ EnterLoads \/ EnterAnnounces \/ EnterFails
    BY <1>3, SyncsFindFrame DEF EnterResumes, EnterLoads, EnterAnnounces, EnterFails, Stored
  <1>4. ASSUME NEW s \in Sockets, NEW c \in Messages \cup {NoMessage}, Connect(s, c)
        PROVE  SyncsFind'
    BY <1>4, SyncsFindFrame DEF Connect, Stored
  <1>5. ASSUME NEW s \in Sockets,
               Track(s) \/ ReadRoomList(s) \/ ReadMessages(s) \/ Initialize(s) \/ Close(s)
        PROVE  SyncsFind'
    BY <1>5, SyncsFindFrame
       DEF Track, ReadRoomList, ReadMessages, Initialize, Close, Stored
  <1>6. ASSUME NEW k \in Syncs, NEW s \in Sockets, NEW m \in Messages, SyncIssued(k, s, m)
        PROVE  SyncsFind'
    BY <1>6 DEF SyncIssued, TypeOK, Rooms, Sent, SyncsFind, InFlight, Stored
  <1>7. ASSUME NEW k \in Syncs, SyncExecutes(k) PROVE SyncsFind'
    BY <1>7, IdleAssumption
       DEF SyncExecutes, Inserted, TypeOK, SyncRecords, SyncsFind, InFlight, Stored
  <1>8. ASSUME NEW k \in Syncs, SyncResumes(k) PROVE SyncsFind'
    BY <1>8 DEF SyncResumes, TypeOK, SyncsFind, InFlight, Stored
  <1>9. ASSUME NEW k \in Syncs, SyncFails(k) PROVE SyncsFind'
    BY <1>9 DEF SyncFails, TypeOK, SyncsFind, InFlight, Stored
  <1>10. CASE Restart
    BY <1>10 DEF Restart, Inserted, TypeOK, SyncsFind, InFlight, Stored
  <1>11. CASE UNCHANGED vars
    BY <1>11, SyncsFindFrame DEF vars, Stored
  <1> QED
    BY <1>1, <1>2, <1>3, <1>4, <1>5, <1>6, <1>7, <1>8, <1>9, <1>10, <1>11 DEF Next

\* What Watch keeps out of a step that ends without an overlap.
Quiet ==
  ~raced =>
    /\ \A j, k \in InFlight : j = k
    /\ InFlight # {} =>
         /\ entry \notin {"inserted", "loading", "loaded"}
         /\ \A s \in Sockets : socket[s] \notin {"listed", "paged"}

LEMMA WatchQuiet ==
  ASSUME Watch
  PROVE  Quiet' /\ (~raced' => ~raced)
  BY DEF Watch, Quiet, InFlight

LEMMA CalmStep ==
  ASSUME TypeOK, SyncsFind, Calm, [Next]_vars
  PROVE  Calm'
  <1> USE DEF posting, entering, greeting, received, syncing
  <1>1. ASSUME UNCHANGED <<entry, socket, lastMessage, sync, raced>> PROVE Calm'
    BY <1>1 DEF Calm, InFlight
  <1>2. ASSUME Watch,
               UNCHANGED lastMessage,
               entry' \in {"outside", "inserted", "loading", "loaded"} =>
                 entry \in {"outside", "inserted", "loading", "loaded"}
        PROVE  Calm'
    BY <1>2, WatchQuiet DEF Calm, Quiet
  <1>3. ASSUME NEW m \in Messages,
               PostIssued(m) \/ PostStored(m) \/ PostFails(m) \/ PostAddressed(m) \/ PostSent(m)
        PROVE  Calm'
    BY <1>1, <1>3 DEF PostIssued, PostStored, PostFails, PostAddressed, PostSent
  <1>4. CASE EnterExecutes \/ EnterResumes \/ EnterLoads \/ EnterAnnounces \/ EnterFails
    BY <1>2, <1>4 DEF EnterExecutes, EnterResumes, EnterLoads, EnterAnnounces, EnterFails
  <1>5. ASSUME NEW s \in Sockets, NEW c \in Messages \cup {NoMessage}, Connect(s, c)
        PROVE  Calm'
    BY <1>2, <1>5 DEF Connect
  <1>6. ASSUME NEW s \in Sockets,
               Track(s) \/ ReadRoomList(s) \/ ReadMessages(s) \/ Initialize(s) \/ Close(s)
        PROVE  Calm'
    BY <1>2, <1>6 DEF Track, ReadRoomList, ReadMessages, Initialize, Close
  <1>7. ASSUME NEW k \in Syncs, NEW s \in Sockets, NEW m \in Messages, SyncIssued(k, s, m)
        PROVE  Calm'
    BY <1>2, <1>7 DEF SyncIssued
  <1>8. ASSUME NEW k \in Syncs, SyncExecutes(k) PROVE Calm'
    BY <1>8, WatchQuiet DEF SyncExecutes, SyncsFind, InFlight, Calm, Quiet
  <1>9. ASSUME NEW k \in Syncs, SyncResumes(k) \/ SyncFails(k) PROVE Calm'
    BY <1>2, <1>9 DEF SyncResumes, SyncFails
  <1>10. CASE Restart
    BY <1>10 DEF Restart, Forget, Inserted, SyncsFind, Calm, InFlight
  <1>11. CASE UNCHANGED vars
    BY <1>1, <1>11 DEF vars
  <1> QED
    BY <1>3, <1>4, <1>5, <1>6, <1>7, <1>8, <1>9, <1>10, <1>11 DEF Next

\* A step of no SYNC_CURSOR that sends no read cursor.
LEMMA CursorsFrame ==
  ASSUME Cursors, ~raced' => ~raced, UNCHANGED <<lastMessage, sync>>,
         \A s \in listed' : s \in listed /\ mark'[s] = mark[s],
         \A s \in knows' : s \in knows /\ told'[s] = told[s],
         \A s \in knows' : s \in listed => s \in listed'
  PROVE  Cursors'
  BY DEF Cursors, InFlight

LEMMA CursorsStep ==
  ASSUME IdleAssumption, TypeOK, Rooms, SyncsFind, Calm, Cursors, Calm', [Next]_vars
  PROVE  Cursors'
  <1> USE DEF posting, entering, greeting, received, syncing
  <1>1. ASSUME NEW m \in Messages,
               PostIssued(m) \/ PostStored(m) \/ PostFails(m) \/ PostAddressed(m) \/ PostSent(m)
        PROVE  Cursors'
    BY <1>1, CursorsFrame DEF PostIssued, PostStored, PostFails, PostAddressed, PostSent
  <1>2. CASE EnterExecutes \/ EnterResumes \/ EnterLoads \/ EnterFails
    BY <1>2, CursorsFrame, WatchQuiet DEF EnterExecutes, EnterResumes, EnterLoads, EnterFails
  <1>3. CASE EnterAnnounces
    BY <1>3, WatchQuiet DEF EnterAnnounces, TypeOK, Tracked, Calm, Cursors, InFlight
  <1>4. ASSUME NEW s \in Sockets, NEW c \in Messages \cup {NoMessage}, Connect(s, c)
        PROVE  Cursors'
    BY <1>4, CursorsFrame, WatchQuiet DEF Connect
  <1>5. ASSUME NEW s \in Sockets, Track(s) PROVE Cursors'
    BY <1>5, CursorsFrame, WatchQuiet DEF Track
  <1>6. ASSUME NEW s \in Sockets, ReadRoomList(s) PROVE Cursors'
    BY <1>6, WatchQuiet DEF ReadRoomList, TypeOK, Cursors, InFlight
  <1>7. ASSUME NEW s \in Sockets, ReadMessages(s) PROVE Cursors'
    BY <1>7, CursorsFrame, WatchQuiet DEF ReadMessages
  <1>8. ASSUME NEW s \in Sockets, Initialize(s) PROVE Cursors'
    BY <1>8, WatchQuiet DEF Initialize, Loaded, GoTo, TypeOK, Rooms, Calm, Cursors, InFlight
  <1>9. ASSUME NEW s \in Sockets, Close(s) PROVE Cursors'
    BY <1>9, CursorsFrame, WatchQuiet DEF Close, Forget, TypeOK
  <1>10. ASSUME NEW k \in Syncs, NEW s \in Sockets, NEW m \in Messages, SyncIssued(k, s, m)
         PROVE  Cursors'
    <2> SUFFICES ASSUME ~raced' PROVE Cursors'
      BY DEF Cursors
    <2>1. ~raced /\ Watch
      BY <1>10, WatchQuiet DEF SyncIssued
    <2>2. sync' = [sync EXCEPT ![k] = [from |-> s, message |-> m, step |-> "query"]]
      BY <1>10 DEF SyncIssued
    <2>3. InFlight' = {k} /\ InFlight = {}
      BY <1>10, <2>2, IdleAssumption DEF SyncIssued, TypeOK, Calm, InFlight, SyncRecords
    <2>4. listed = {} /\ listed' = {} /\ knows' = knows /\ lastMessage' = lastMessage
      BY <1>10, <2>3 DEF SyncIssued, Rooms, Calm, TypeOK
    <2>5. \A x \in knows : told[x] = lastMessage
      BY <2>1, <2>3, <2>4 DEF Cursors
    <2>6. told' = [told EXCEPT ![s] = m]
      BY <1>10 DEF SyncIssued
    <2> QED BY <2>2, <2>3, <2>4, <2>5, <2>6 DEF TypeOK, Cursors
  <1>11. ASSUME NEW k \in Syncs, SyncExecutes(k) PROVE Cursors'
    <2> SUFFICES ASSUME ~raced' PROVE Cursors'
      BY DEF Cursors
    <2>1. ~raced /\ Watch
      BY <1>11, WatchQuiet DEF SyncExecutes
    <2>2. sync' = [sync EXCEPT ![k].step = "done"] /\ sync[k] # Idle /\ sync[k].step = "query"
      BY <1>11 DEF SyncExecutes
    <2>3. sync'[k] = [sync[k] EXCEPT !.step = "done"] /\ sync'[k] # Idle
      BY <2>2, IdleAssumption DEF TypeOK, SyncRecords
    <2>4. InFlight = {k} /\ InFlight' = {k}
      BY <2>1, <2>2, <2>3 DEF TypeOK, Calm, InFlight
    <2>5. listed = {} /\ UNCHANGED <<listed, knows, told>>
      BY <1>11, <2>1, <2>4 DEF SyncExecutes, Rooms, Calm, TypeOK
    <2>6. lastMessage' = sync[k].message
      BY <1>11, <2>2, <2>4 DEF SyncExecutes, SyncsFind, Inserted
    <2> QED BY <2>1, <2>2, <2>3, <2>4, <2>5, <2>6 DEF TypeOK, SyncRecords, Cursors
  <1>12. ASSUME NEW k \in Syncs, SyncResumes(k) PROVE Cursors'
    <2> SUFFICES ASSUME ~raced' PROVE Cursors'
      BY DEF Cursors
    <2>1. ~raced /\ Watch
      BY <1>12, WatchQuiet DEF SyncResumes
    <2>2. sync' = [sync EXCEPT ![k] = Idle] /\ sync[k] # Idle /\ sync[k].step = "done"
      BY <1>12 DEF SyncResumes
    <2>3. InFlight = {k} /\ InFlight' = {}
      BY <2>1, <2>2 DEF TypeOK, Calm, InFlight
    <2>4. listed' = {} /\ knows' = knows /\ lastMessage' = lastMessage
      BY <1>12, <2>1, <2>3 DEF SyncResumes, Rooms, Calm, TypeOK
    <2>5. \A x \in knows : told'[x] = lastMessage
      BY <1>12, <2>1, <2>2, <2>3 DEF SyncResumes, TypeOK, Rooms, Cursors
    <2> QED BY <2>3, <2>4, <2>5 DEF Cursors
  <1>13. ASSUME NEW k \in Syncs, SyncFails(k) PROVE Cursors'
    <2> SUFFICES ASSUME ~raced' PROVE Cursors'
      BY DEF Cursors
    <2>1. ~raced /\ Watch
      BY <1>13, WatchQuiet DEF SyncFails
    <2>2. sync' = [sync EXCEPT ![k] = Idle] /\ sync[k] # Idle /\ sync[k].step = "query"
      BY <1>13 DEF SyncFails
    <2>3. InFlight = {k} /\ InFlight' = {}
      BY <2>1, <2>2 DEF TypeOK, Calm, InFlight
    <2>4. listed = {} /\ listed' = {} /\ lastMessage' = lastMessage
      BY <1>13, <2>1, <2>3 DEF SyncFails, Forget, Rooms, Calm, TypeOK
    <2>5. \A x \in knows' : x \in knows /\ x # sync[k].from /\ told'[x] = told[x]
      BY <1>13 DEF SyncFails, Forget, TypeOK
    <2> QED BY <2>1, <2>2, <2>3, <2>4, <2>5 DEF Cursors
  <1>14. CASE Restart
    BY <1>14 DEF Restart, Forget, TypeOK, Cursors, InFlight
  <1>15. CASE UNCHANGED vars
    BY <1>15, CursorsFrame DEF vars
  <1> QED
    BY <1>1, <1>2, <1>3, <1>4, <1>5, <1>6, <1>7, <1>8, <1>9, <1>10, <1>11, <1>12, <1>13,
       <1>14, <1>15 DEF Next

-----------------------------------------------------------------------------
(* The theorems. *)

\* The inductive invariant holds in every state of snapshot, pushes and cursors.
THEOREM Invariance == Spec => []IInv
  <1>1. Init => IInv
    <2> SUFFICES ASSUME Init PROVE IInv
      OBVIOUS
    <2>1. TypeOK
      <3>1. 0 \in 0..MaxStamp
        BY DeliveryAssumption DEF DeliveryAssumption
      <3> QED BY <3>1 DEF Init, TypeOK, Posts, Entries, Phases
    <2>2. Rooms /\ Sent /\ Gapless
      BY DEF Init, Rooms, Sent, Gapless, Tracked, Stored
    <2>3. InFlight = {}
      BY DEF Init, InFlight
    <2>4. SyncsFind /\ Calm /\ Cursors
      BY <2>3 DEF Init, SyncsFind, Calm, Cursors
    <2> QED BY <2>1, <2>2, <2>3, <2>4 DEF IInv
  <1>2. IInv /\ [Next]_vars => IInv'
    BY DeliveryAssumption, IdleAssumption, TypeStep, RoomsStep, SentStep, GaplessStep,
       SyncsFindStep, CalmStep, CursorsStep DEF IInv
  <1> QED BY <1>1, <1>2, PTL DEF Spec

\* Every variable keeps its type.
THEOREM TypeCorrect == Spec => []TypeOK
  <1>1. IInv => TypeOK
    BY DEF IInv
  <1> QED BY <1>1, Invariance, PTL

\* A client that was sent INITIALIZE knows the room its account entered, whether
\* the row was inserted before or after its room list was read.
THEOREM RoomIsKnown == Spec => []RoomKnown
  <1>1. IInv => RoomKnown
    BY DEF IInv, Rooms, RoomKnown
  <1> QED BY <1>1, Invariance, PTL

\* The snapshot of HANDSHAKE and the pushes leave no gap, for any number of
\* sockets and messages and any `take`.
THEOREM NoGap == Spec => []NothingMissed
  <1>1. IInv => NothingMissed
    BY DEF IInv, Sent, Gapless, Has, ToCome, Stored, NothingMissed
  <1> QED BY <1>1, Invariance, PTL

\* Without an overlap, the sockets of an account agree with the row on its cursor.
THEOREM CursorIsTold == Spec => []CursorTold
  <1>1. IInv => CursorTold
    BY DEF IInv, TypeOK, Rooms, Cursors, InFlight, CursorTold
  <1> QED BY <1>1, Invariance, PTL

=============================================================================
