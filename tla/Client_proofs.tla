---------------------------- MODULE Client_proofs ----------------------------
(***************************************************************************)
(* Theorems about parts of the client's libraries that share no state: the *)
(* registry of sockets (WebSocketRegistry), the members it stores of a     *)
(* room (RoomMembers), the buffer every message is built in (ByteBuffer)   *)
(* and the encodings of bytes as text (Codecs).  They hold for all sockets,*)
(* listeners, members and calls in flight, all items and all bytes.        *)
(***************************************************************************)
EXTENDS MCClient, Recursion_proofs

-----------------------------------------------------------------------------
(***************************************************************************)
(* WebSocketRegistry.                                                      *)
(***************************************************************************)

\* A socket that is connecting or open is the registered one, and its entry says
\* so; the registered one is not unused, and has no reference once it is closed.
SocketsRight ==
  \A s \in Socket :
    /\ wire[s] = "unused" => entry[s] = Initial /\ s # registered
    /\ wire[s] = "connecting" => s = registered /\ entry[s].state = "INITIAL" /\ entry[s].ref = s
    /\ wire[s] = "open" => s = registered /\ entry[s].ref = s
    /\ wire[s] = "closing" => s # registered
    /\ wire[s] = "closed" => entry[s].ref = Nobody

RegistryInv == RegistryTypeOK /\ SocketsRight /\ ListenersFollow

-----------------------------------------------------------------------------
LEMMA RegistryStarts == RegistryInit => RegistryInv
  BY RegistryAssumption
  DEF RegistryInit, RegistryInv, RegistryTypeOK, SocketsRight, ListenersFollow,
      WireStates, Views, Initial, SocketStates

LEMMA RegistryTypes ==
  ASSUME RegistryTypeOK, [RegistryNext]_registryVars
  PROVE  RegistryTypeOK'
  <1> USE DEF RegistryTypeOK, WireStates
  <1>0. /\ Initial \in Views /\ Shut \in Views
        /\ \A s \in Socket : Opened(s) \in Views
    BY DEF Initial, Shut, Opened, Views, SocketStates
  <1>1. ASSUME NEW s \in Socket, Register(s) PROVE RegistryTypeOK'
    BY <1>1 DEF Register, Views
  <1>2. ASSUME NEW s \in Socket, SocketOpens(s) PROVE RegistryTypeOK'
    BY <1>0, <1>2 DEF SocketOpens, TellAll
  <1>3. ASSUME NEW s \in Socket, SocketCloses(s) PROVE RegistryTypeOK'
    BY <1>0, <1>3 DEF SocketCloses, TellAll
  <1>4. ASSUME NEW s \in Socket, NEW p \in Packet, SocketReceives(s, p) PROVE RegistryTypeOK'
    BY <1>4 DEF SocketReceives, Views
  <1>5. CASE Unregister
    BY <1>5 DEF Unregister
  <1>6. ASSUME NEW l \in Listener, Listen(l) PROVE RegistryTypeOK'
    <2>1. Greeting(l) \in Views
      BY <1>0 DEF Greeting, Views
    <2> QED BY <1>6, <2>1 DEF Listen
  <1>7. ASSUME NEW l \in Listener, Unlisten(l) PROVE RegistryTypeOK'
    BY <1>0, <1>7 DEF Unlisten
  <1>8. CASE UNCHANGED registryVars
    BY <1>8 DEF registryVars
  <1> QED BY <1>1, <1>2, <1>3, <1>4, <1>5, <1>6, <1>7, <1>8 DEF RegistryNext

\* Each action, on the sockets and on the listeners.
LEMMA RegistryStep ==
  ASSUME RegistryInv, [RegistryNext]_registryVars
  PROVE  SocketsRight' /\ ListenersFollow'
  <1> USE DEF RegistryInv, RegistryTypeOK, SocketsRight, ListenersFollow
  <1>1. ASSUME NEW s \in Socket, Register(s) PROVE SocketsRight' /\ ListenersFollow'
    BY <1>1, RegistryAssumption DEF Register, Initial, Views
  <1>2. ASSUME NEW s \in Socket, SocketOpens(s) PROVE SocketsRight' /\ ListenersFollow'
    BY <1>2, RegistryAssumption DEF SocketOpens, TellAll, Opened
  <1>3. ASSUME NEW s \in Socket, SocketCloses(s) PROVE SocketsRight' /\ ListenersFollow'
    BY <1>3, RegistryAssumption DEF SocketCloses, TellAll, Shut
  <1>4. ASSUME NEW s \in Socket, NEW p \in Packet, SocketReceives(s, p)
        PROVE  SocketsRight' /\ ListenersFollow'
    BY <1>4, RegistryAssumption DEF SocketReceives, Views
  <1>5. CASE Unregister
    BY <1>5, RegistryAssumption DEF Unregister
  <1>6. ASSUME NEW l \in Listener, Listen(l) PROVE SocketsRight' /\ ListenersFollow'
    <2>1. SocketsRight'
      BY <1>6 DEF Listen
    <2>2. registered # Nobody =>
            LET e == entry[registered] IN
              /\ Greeting(l).ref = e.ref /\ Greeting(l).state = e.state
              /\ Greeting(l).last = IF e.last \in Wanted[l] THEN e.last ELSE Nobody
      BY DEF Greeting, Views
    <2>3. \A k \in Listener : view'[k] = IF k = l THEN Greeting(l) ELSE view[k]
      BY <1>6 DEF Listen
    <2>4. registered # Nobody /\ entry[registered].state # "INITIAL" =>
            (entry[registered].ref # Nobody => wire[entry[registered].ref] = "open")
      BY DEF WireStates
    <2>5. ListenersFollow'
      BY <1>6, <2>2, <2>3, <2>4 DEF Listen
    <2> QED BY <2>1, <2>5
  <1>7. ASSUME NEW l \in Listener, Unlisten(l) PROVE SocketsRight' /\ ListenersFollow'
    BY <1>7 DEF Unlisten
  <1>8. CASE UNCHANGED registryVars
    BY <1>8 DEF registryVars
  <1> QED BY <1>1, <1>2, <1>3, <1>4, <1>5, <1>6, <1>7, <1>8 DEF RegistryNext

\* The sockets', entries' and listeners' variables have their types.
THEOREM RegistryTypesHold == RegistrySpec => []RegistryTypeOK
  <1>1. RegistryInit => RegistryTypeOK
    BY RegistryStarts DEF RegistryInv
  <1> QED BY <1>1, RegistryTypes, PTL DEF RegistrySpec

\* However sockets replace each other under a name and listeners come and go, a
\* listener shows what the registered socket is, unless it was told of the end of
\* an earlier one last.
THEOREM ListenersFollowTheirSocket == RegistrySpec => []ListenersFollow
  <1>1. RegistryInv /\ [RegistryNext]_registryVars => RegistryInv'
    BY RegistryTypes, RegistryStep DEF RegistryInv
  <1>2. RegistryInv => ListenersFollow
    BY DEF RegistryInv
  <1> QED BY RegistryStarts, <1>1, <1>2, PTL DEF RegistrySpec

-----------------------------------------------------------------------------
(***************************************************************************)
(* RoomMembers.                                                            *)
(***************************************************************************)

\* A merge beside another call for its member, and a call while its member is not
\* kept, are known.
RacesKnown ==
  \A m \in Member :
    /\ ~Kept /\ CallsOf(memberCall, m) # {} => m \in raced
    /\ \A c, d \in CallsOf(memberCall, m) :
         c # d /\ memberCall[c].kind = "merge" => m \in raced

\* Member m is what the calls left of it, or what a failed deletion did; while a
\* deletion is on its way they left nothing; and what a merge has read of it is
\* still there.
MemberRight(m) ==
  /\ deletions = 0 => members[m] = saved[m] \/ (saved[m] = Null /\ m \in survived)
  /\ deletions # 0 => saved[m] = Null
  /\ \A c \in CallsOf(memberCall, m) :
       memberCall[c].kind = "merge" /\ memberCall[c].step = "second" =>
         memberCall[c].prev = members[m] /\ members[m] # Null

AllRight == \A m \in Member \ raced : MemberRight(m)

MembersInv == MembersTypeOK /\ RacesKnown /\ AllRight

-----------------------------------------------------------------------------
LEMMA MembersStart == MembersInit => MembersInv
  BY DEF MembersInit, MembersInv, AllRight, MembersTypeOK, RacesKnown, MemberRight, NoMembers, CallsOf

LEMMA WatchKnows ==
  ASSUME NEW settled, WatchMembers(settled)
  PROVE  /\ RacesKnown'
         /\ \A m \in Member \ raced' : m \in raced => m \in settled
  BY DEF WatchMembers, RacesKnown, CallsOf

LEMMA MembersTypes ==
  ASSUME MembersTypeOK, [MembersNext]_membersVars
  PROVE  MembersTypeOK'
  <1> USE DEF MembersTypeOK, NoMembers
  <1>0. ASSUME NEW settled, WatchMembers(settled) PROVE raced' \subseteq Member
    BY <1>0 DEF WatchMembers
  <1>1. ASSUME NEW title \in Title, NEW cursor \in Cursor \cup {Null},
               AddOrUpdateRoom(title, cursor)
        PROVE  MembersTypeOK'
    BY <1>0, <1>1 DEF AddOrUpdateRoom, PutRow, AddedRow, RoomRows
  <1>2. ASSUME NEW title \in Title, SetTitle(title) PROVE MembersTypeOK'
    BY <1>0, <1>2 DEF SetTitle, PutRow, RoomRows
  <1>3. ASSUME NEW cursor \in Cursor, SetFetchedMessageUUID(cursor)
        PROVE  MembersTypeOK'
    BY <1>0, <1>3 DEF SetFetchedMessageUUID, PutRow, RoomRows
  <1>4. CASE ForgetRoom
    BY <1>0, <1>4 DEF ForgetRoom
  <1>5. CASE RemoveDB \/ RemoveDBFails
    BY <1>0, <1>5 DEF RemoveDB, RemoveDBFails
  <1>6. ASSUME NEW c \in MemberCall,
               NEW kind \in {"put", "merge", "delete", "truncate"}, NEW m \in Member,
               NEW flags \in MemberFlags \cup {Null}, CallMember(c, kind, m, flags)
        PROVE  MembersTypeOK'
    BY <1>0, <1>6 DEF CallMember, MemberCalls
  <1>7. ASSUME NEW c \in MemberCall, NEW flags \in MemberFlags \cup {Null},
               memberCall[c] # Null, Leave(c, flags)
        PROVE  MembersTypeOK'
    BY <1>0, <1>7 DEF Leave, MemberCalls
  <1>8. ASSUME NEW c \in MemberCall, PutMember(c) \/ DeleteMember(c)
        PROVE  MembersTypeOK'
    <2>1. memberCall[c] # Null /\ memberCall[c].flags \in MemberFlags \cup {Null}
      BY <1>8 DEF PutMember, DeleteMember, MemberCallAt, MemberCalls
    <2> QED BY <1>7, <1>8, <2>1 DEF PutMember, DeleteMember
  <1>9. ASSUME NEW c \in MemberCall, TruncateMember(c) PROVE MembersTypeOK'
    BY <1>0, <1>9 DEF TruncateMember
  <1>10. ASSUME NEW c \in MemberCall, EndMemberCall(c) PROVE MembersTypeOK'
    BY <1>0, <1>10 DEF EndMemberCall
  <1>11. ASSUME NEW c \in MemberCall, MergeReads(c) PROVE MembersTypeOK'
    <2>1. CASE EndMemberCall(c)
      BY <1>10, <2>1
    <2>2. CASE ~EndMemberCall(c)
      <3> DEFINE q == memberCall[c]
                 one == [q EXCEPT !.step = "second"]
                 next == [one EXCEPT !.prev = members[q.member]]
      <3>1. q \in MemberCalls
        BY <1>11 DEF MergeReads, MemberCallAt
      <3>2. one \in MemberCalls /\ members[q.member] \in MemberFlags \cup {Null}
        BY <3>1 DEF MemberCalls
      <3>3. next \in MemberCalls
        <4> HIDE DEF one, q
        <4> QED BY <3>2 DEF MemberCalls
      <3>4. memberCall' = [memberCall EXCEPT ![c] = next]
        BY <1>11, <2>2 DEF MergeReads
      <3> HIDE DEF next
      <3> QED BY <1>0, <1>11, <2>2, <3>3, <3>4 DEF MergeReads
    <2> QED BY <2>1, <2>2
  <1>12. ASSUME NEW c \in MemberCall, MergePuts(c) PROVE MembersTypeOK'
    BY <1>0, <1>12 DEF MergePuts, MemberCallAt, MemberCalls, Merged
  <1>13. CASE UNCHANGED membersVars
    BY <1>13 DEF membersVars
  <1> QED
    BY <1>1, <1>2, <1>3, <1>4, <1>5, <1>6, <1>8, <1>9, <1>10, <1>11, <1>12, <1>13
    DEF MembersNext, MemberCallFails

\* The steps that leave members, what was saved and the deletion alone: a call
\* may begin or end, but none goes on to the second half of a merge.
LEMMA QuietRight ==
  ASSUME MembersInv, UNCHANGED <<members, saved, deletions, survived>>, WatchMembers({}),
         \A c \in MemberCall :
           memberCall'[c] # Null /\ memberCall'[c].step = "second" =>
             memberCall'[c] = memberCall[c]
  PROVE  \A m \in Member \ raced' : MemberRight(m)'
  BY WatchKnows DEF MembersInv, AllRight, MemberRight, CallsOf

LEMMA LeaveRight ==
  ASSUME MembersInv, NEW c \in MemberCall, NEW flags, memberCall[c] # Null,
         memberCall[c].kind # "truncate", Leave(c, flags)
  PROVE  \A m \in Member \ raced' : MemberRight(m)'
  <1>0. PICK n \in Member : n = memberCall[c].member
    BY DEF MembersInv, AllRight, MembersTypeOK, MemberCalls
  <1>1. c \in CallsOf(memberCall, n)
    BY <1>0 DEF CallsOf
  <1>2. /\ \A m \in Member : members'[m] = IF m = n THEN flags ELSE members[m]
        /\ \A m \in Member : saved'[m] = IF m = n THEN flags ELSE saved[m]
        /\ \A d \in MemberCall : memberCall'[d] = IF d = c THEN Null ELSE memberCall[d]
        /\ deletions' = deletions /\ survived' = survived \ {n}
    BY <1>0 DEF Leave, MembersInv, AllRight, MembersTypeOK
  <1>3. \A m \in Member \ raced' : m \in raced => m \in SettledBy(c)
    BY <1>0, WatchKnows DEF Leave
  <1>4. \A m \in Member : CallsOf(memberCall', m) = CallsOf(memberCall, m) \ {c}
    BY <1>2 DEF CallsOf
  <1>5. ASSUME NEW m \in Member \ raced', m # n PROVE MemberRight(m)'
    <2>1. CASE m \notin raced
      <3>1. MemberRight(m)
        BY <1>5, <2>1 DEF MembersInv, AllRight
      <3> QED BY <1>2, <1>4, <1>5, <3>1 DEF MemberRight, CallsOf
    <2>2. CASE m \in raced
      <3>1. Kept /\ CallsOf(memberCall, m) = {c} /\ memberCall[c].kind # "truncate"
        BY <1>3, <1>5, <2>2 DEF SettledBy
      <3> QED BY <1>0, <1>5, <3>1 DEF CallsOf
    <2> QED BY <2>1, <2>2
  <1>6. ASSUME n \notin raced' PROVE MemberRight(n)'
    <2>1. Kept
      BY <1>1, <1>3, <1>6 DEF MembersInv, AllRight, RacesKnown, SettledBy
    <2>2. ASSUME NEW d \in CallsOf(memberCall', n), memberCall'[d].kind = "merge"
          PROVE  FALSE
      <3>1. d \in CallsOf(memberCall, n) /\ d # c /\ memberCall[d].kind = "merge"
        BY <1>2, <1>4, <2>2 DEF CallsOf
      <3>2. n \in raced
        BY <1>1, <3>1 DEF MembersInv, AllRight, RacesKnown
      <3> QED BY <1>3, <1>6, <3>1, <3>2 DEF SettledBy
    <2> QED BY <1>1, <1>2, <2>1, <2>2 DEF MemberRight, Kept
  <1> QED BY <1>5, <1>6

LEMMA TruncateRight ==
  ASSUME MembersInv, NEW c \in MemberCall, TruncateMember(c)
  PROVE  \A m \in Member \ raced' : MemberRight(m)'
  <1>1. SUFFICES ASSUME NEW m \in Member \ raced' PROVE MemberRight(m)'
    OBVIOUS
  <1>2. m \in raced => CallsOf(memberCall, m) = {c}
    BY <1>1, WatchKnows DEF TruncateMember, SettledBy
  <1>3. /\ c \in CallsOf(memberCall, m)
        /\ CallsOf(memberCall', m) = CallsOf(memberCall, m) \ {c}
        /\ \A d \in MemberCall \ {c} : memberCall'[d] = memberCall[d]
    BY DEF TruncateMember, MemberCallAt, CallsOf, MembersInv, AllRight, MembersTypeOK
  <1>4. \A d \in CallsOf(memberCall', m) : memberCall'[d].kind # "merge"
    BY <1>2, <1>3 DEF MembersInv, AllRight, RacesKnown, CallsOf
  <1> QED BY <1>4 DEF TruncateMember, MemberRight, NoMembers

LEMMA MergeReadsRight ==
  ASSUME MembersInv, NEW c \in MemberCall, MergeReads(c)
  PROVE  \A m \in Member \ raced' : MemberRight(m)'
  <1> DEFINE q == memberCall[c]
             one == [q EXCEPT !.step = "second"]
             next == [one EXCEPT !.prev = members[q.member]]
  <1>1. CASE EndMemberCall(c)
    <2>1. \A d \in MemberCall : memberCall'[d] # Null => memberCall'[d] = memberCall[d]
      BY <1>1 DEF EndMemberCall, MembersInv, AllRight, MembersTypeOK
    <2> QED BY <1>1, <2>1, QuietRight DEF EndMemberCall
  <1>2. CASE ~EndMemberCall(c)
    <2>1. /\ q \in MemberCalls /\ q.kind = "merge" /\ members[q.member] # Null
          /\ memberCall' = [memberCall EXCEPT ![c] = next]
          /\ UNCHANGED <<members, deletions, saved, survived>> /\ WatchMembers({})
      BY <1>2 DEF MergeReads, MemberCallAt, MembersInv, AllRight, MembersTypeOK
    <2>2. one \in MemberCalls /\ one.member = q.member /\ one.kind = q.kind
      BY <2>1 DEF MemberCalls
    <2>3. next.member = q.member /\ next.kind = q.kind /\ next.prev = members[q.member]
      <3> HIDE DEF one
      <3> QED BY <2>2 DEF MemberCalls
    <2> HIDE DEF next
    <2>4. SUFFICES ASSUME NEW m \in Member \ raced' PROVE MemberRight(m)'
      OBVIOUS
    <2>5. MemberRight(m)
      BY <2>1, WatchKnows DEF MembersInv, AllRight
    <2>6. \A d \in MemberCall : memberCall'[d] = IF d = c THEN next ELSE memberCall[d]
      BY <2>1 DEF MembersInv, AllRight, MembersTypeOK
    <2>7. ASSUME NEW d \in CallsOf(memberCall', m),
                 memberCall'[d].kind = "merge", memberCall'[d].step = "second"
          PROVE  memberCall'[d].prev = members[m] /\ members[m] # Null
      <3>1. CASE d = c
        BY <2>1, <2>3, <2>6, <2>7, <3>1 DEF CallsOf
      <3>2. CASE d # c
        BY <2>5, <2>6, <2>7, <3>2 DEF CallsOf, MemberRight
      <3> QED BY <3>1, <3>2
    <2> QED BY <2>1, <2>5, <2>7 DEF MemberRight
  <1> QED BY <1>1, <1>2

LEMMA MergePutsRight ==
  ASSUME MembersInv, NEW c \in MemberCall, MergePuts(c)
  PROVE  \A m \in Member \ raced' : MemberRight(m)'
  <1>0. PICK n \in Member : n = memberCall[c].member
    BY DEF MergePuts, MemberCallAt, MembersInv, AllRight, MembersTypeOK, MemberCalls
  <1>1. c \in CallsOf(memberCall, n) /\ memberCall[c].kind = "merge" /\ memberCall[c].step = "second"
    BY <1>0 DEF MergePuts, MemberCallAt, CallsOf
  <1>2. /\ \A m \in Member \ {n} : members'[m] = members[m] /\ saved'[m] = saved[m]
        /\ members'[n] = Merged(memberCall[c].prev, memberCall[c].flags)
        /\ saved'[n] = IF saved[n] = Null THEN Null ELSE Merged(saved[n], memberCall[c].flags)
        /\ \A d \in MemberCall : memberCall'[d] = IF d = c THEN Null ELSE memberCall[d]
        /\ deletions' = deletions /\ survived' = survived
    BY <1>0 DEF MergePuts, MembersInv, AllRight, MembersTypeOK
  <1>3. raced \cap Member \subseteq raced'
    BY WatchKnows DEF MergePuts
  <1>4. \A m \in Member : CallsOf(memberCall', m) = CallsOf(memberCall, m) \ {c}
    BY <1>2 DEF CallsOf
  <1>5. ASSUME NEW m \in Member \ raced', m # n PROVE MemberRight(m)'
    <2>1. MemberRight(m)
      BY <1>3, <1>5 DEF MembersInv, AllRight
    <2> QED BY <1>2, <1>4, <1>5, <2>1 DEF MemberRight, CallsOf
  <1>6. ASSUME n \notin raced' PROVE MemberRight(n)'
    <2>1. deletions = 0
      BY <1>1, <1>3, <1>6 DEF MembersInv, AllRight, RacesKnown, Kept
    <2>2. CallsOf(memberCall', n) = {}
      <3>1. \A d \in CallsOf(memberCall, n) : d = c
        BY <1>1, <1>3, <1>6 DEF MembersInv, AllRight, RacesKnown
      <3> QED BY <1>4, <3>1
    <2>3. /\ memberCall[c].prev = members[n] /\ members[n] # Null
          /\ members[n] = saved[n] \/ (saved[n] = Null /\ n \in survived)
      BY <1>1, <1>3, <1>6, <2>1 DEF MembersInv, AllRight, MemberRight
    <2> QED BY <1>2, <2>1, <2>2, <2>3 DEF MemberRight
  <1> QED BY <1>5, <1>6

LEMMA MembersSteps == MembersInv /\ [MembersNext]_membersVars => MembersInv'
  <1> SUFFICES ASSUME MembersInv, [MembersNext]_membersVars PROVE MembersInv'
    OBVIOUS
  <1>1. MembersTypeOK'
    BY MembersTypes DEF MembersInv
  <1>2. ASSUME NEW row, PutRow(row) PROVE RacesKnown' /\ AllRight'
    BY <1>2, QuietRight, WatchKnows DEF PutRow, AllRight
  <1>3. ASSUME \/ \E title \in Title, cursor \in Cursor \cup {Null} : AddOrUpdateRoom(title, cursor)
               \/ \E title \in Title : SetTitle(title)
               \/ \E cursor \in Cursor : SetFetchedMessageUUID(cursor)
        PROVE  RacesKnown' /\ AllRight'
    <2>1. \E row : PutRow(row)
      BY <1>3 DEF AddOrUpdateRoom, SetTitle, SetFetchedMessageUUID
    <2> QED BY <1>2, <2>1
  <1>4. ASSUME ForgetRoom PROVE RacesKnown' /\ AllRight'
    <2>1. RacesKnown' /\ \A m \in Member \ raced' : m \notin raced
      BY <1>4, WatchKnows DEF ForgetRoom
    <2>2. SUFFICES ASSUME NEW m \in Member \ raced' PROVE MemberRight(m)'
      BY <2>1 DEF AllRight
    <2>3. MemberRight(m)
      BY <2>1 DEF MembersInv, AllRight
    <2>4. deletions' # 0
      BY <1>4 DEF ForgetRoom, MembersInv, MembersTypeOK
    <2> QED BY <1>4, <2>3, <2>4 DEF ForgetRoom, MemberRight, NoMembers, CallsOf
  <1>5. ASSUME RemoveDB \/ RemoveDBFails PROVE RacesKnown' /\ AllRight'
    <2> DEFINE gone == {m \in Member : saved[m] = Null /\ CallsOf(memberCall, m) = {}}
    <2>1. RacesKnown' /\ \A m \in Member \ raced' : m \in raced => m \in gone
      BY <1>5, WatchKnows DEF RemoveDB, RemoveDBFails
    <2>2. SUFFICES ASSUME NEW m \in Member \ raced' PROVE MemberRight(m)'
      BY <2>1 DEF AllRight
    <2>3. deletions # 0 /\ memberCall' = memberCall /\ saved' = saved
      BY <1>5 DEF RemoveDB, RemoveDBFails
    <2>4. CallsOf(memberCall, m) = {} /\ saved[m] = Null
      BY <2>1, <2>3 DEF MembersInv, AllRight, RacesKnown, MemberRight, Kept
    <2>5. CallsOf(memberCall', m) = {} /\ saved'[m] = Null
      BY <2>3, <2>4
    <2>6. members'[m] = Null \/ m \in survived'
      BY <1>5 DEF RemoveDB, RemoveDBFails, NoMembers
    <2> QED BY <2>5, <2>6 DEF MemberRight
  <1>6. ASSUME NEW c \in MemberCall, NEW kind, NEW m \in Member, NEW flags,
               CallMember(c, kind, m, flags)
        PROVE  RacesKnown' /\ AllRight'
    <2>1. \A d \in MemberCall : memberCall'[d] # Null /\ memberCall'[d].step = "second" =>
            memberCall'[d] = memberCall[d]
      BY <1>6 DEF CallMember, MembersInv, MembersTypeOK
    <2> QED BY <1>6, <2>1, QuietRight, WatchKnows DEF CallMember, AllRight
  <1>7. ASSUME NEW c \in MemberCall, PutMember(c) \/ DeleteMember(c) PROVE RacesKnown' /\ AllRight'
    BY <1>7, LeaveRight, WatchKnows DEF PutMember, DeleteMember, Leave, MemberCallAt, AllRight
  <1>8. ASSUME NEW c \in MemberCall, TruncateMember(c) PROVE RacesKnown' /\ AllRight'
    BY <1>8, TruncateRight, WatchKnows DEF TruncateMember, AllRight
  <1>9. ASSUME NEW c \in MemberCall, MergeReads(c) PROVE RacesKnown' /\ AllRight'
    BY <1>9, MergeReadsRight, WatchKnows DEF MergeReads, EndMemberCall, AllRight
  <1>10. ASSUME NEW c \in MemberCall, MergePuts(c) PROVE RacesKnown' /\ AllRight'
    BY <1>10, MergePutsRight, WatchKnows DEF MergePuts, AllRight
  <1>11. ASSUME NEW c \in MemberCall, EndMemberCall(c) PROVE RacesKnown' /\ AllRight'
    <2>1. \A d \in MemberCall : memberCall'[d] # Null => memberCall'[d] = memberCall[d]
      BY <1>11 DEF EndMemberCall, MembersInv, MembersTypeOK
    <2> QED BY <1>11, <2>1, QuietRight, WatchKnows DEF EndMemberCall, AllRight
  <1>12. ASSUME UNCHANGED membersVars PROVE RacesKnown' /\ AllRight'
    <2>1. RacesKnown'
      BY <1>12 DEF membersVars, MembersInv, RacesKnown, CallsOf, Kept
    <2>2. ASSUME NEW m \in Member \ raced' PROVE MemberRight(m)'
      <3>1. MemberRight(m)
        BY <1>12 DEF membersVars, MembersInv, AllRight
      <3> QED BY <1>12, <3>1 DEF membersVars, MemberRight, CallsOf
    <2> QED BY <2>1, <2>2 DEF AllRight
  <1>13. RacesKnown' /\ AllRight'
    <2> QED BY <1>3, <1>4, <1>5, <1>6, <1>7, <1>8, <1>9, <1>10, <1>11, <1>12
            DEF MembersNext, MemberCallFails
  <1> QED BY <1>1, <1>13 DEF MembersInv

\* The room's row, its members and the calls in flight have their types.
THEOREM MembersTypesHold == MembersSpec => []MembersTypeOK
  <1>1. MembersInv => MembersTypeOK
    BY DEF MembersInv
  <1> QED BY MembersStart, MembersSteps, <1>1, PTL DEF MembersSpec

\* Whatever calls run beside each other, and however often the room is deleted and
\* added again, a member is what its calls left since, or one that a failed
\* deletion left there, unless a call for it overlapped a merge or a deletion
\* (putMember, deleteMember, mergeMember, truncateMember, deleteRoom).
THEOREM SavedMembersKept == MembersSpec => []SavedIsKept
  <1>1. MembersInv => SavedIsKept
    BY DEF MembersInv, AllRight, MemberRight, SavedIsKept
  <1> QED BY MembersStart, MembersSteps, <1>1, PTL DEF MembersSpec

-----------------------------------------------------------------------------
(***************************************************************************)
(* ByteBuffer: what is written is read back, for every base of its bytes,  *)
(* every width, length and number of items.  A number's bytes are its      *)
(* quotients' remainders (NumberBack); the rows of an item lie one after   *)
(* the other behind what was written before it, which stays (PutRowsExact);*)
(* where they lie, the reader of its shape finds its value and goes on     *)
(* behind (GetExact); and behind the last byte it finds nothing            *)
(* (GetNothing).                                                           *)
(***************************************************************************)
-----------------------------------------------------------------------------
LEMMA DivMod ==
  ASSUME NEW n \in Int, NEW b \in Nat, b > 0
  PROVE  /\ n = b * (n \div b) + (n % b)
         /\ n % b \in 0 .. b - 1
         /\ n \div b \in Int
  OBVIOUS

LEMMA QuotientsExact ==
  ASSUME NEW n \in Int, NEW width \in Nat, NEW q, q = Quotients(n, width)
  PROVE  /\ q \in [0 .. width -> Int]
         /\ q[0] = n
         /\ \A i \in 1 .. width : q[i] = q[i - 1] \div Base
  <1> DEFINE Divides(f) == f = [i \in 0 .. width |-> IF i = 0 THEN n ELSE f[i - 1] \div Base]
             step == [p \in (1 .. width) \X Int |-> p[2] \div Base]
  <1>1. \A m \in Int : m \div Base \in Int
    BY BufferAssumption, DivMod DEF BufferAssumption
  <1>2. \E f : Recurs(f, width, Int, n, step)
    <2>1. step \in [(1 .. width) \X Int -> Int]
      BY <1>1
    <2> HIDE DEF step
    <2> QED BY <2>1, RecursionSolved, Zenon
  <1>3. PICK f : Recurs(f, width, Int, n, step)
    BY <1>2
  <1>4. /\ f \in [0 .. width -> Int] /\ f[0] = n
        /\ \A i \in 1 .. width : f[i] = step[<<i, f[i - 1]>>]
    BY <1>3 DEF Recurs
  <1>5. ASSUME NEW i \in 1 .. width PROVE f[i] = f[i - 1] \div Base
    <2>1. f[i - 1] \in Int
      BY <1>4
    <2> QED BY <1>4, <2>1
  <1>6. Divides(f)
    <2> HIDE DEF step
    <2> QED BY <1>4, <1>5
  <1>7. Divides(q)
    <2>1. q = CHOOSE g : Divides(g)
      BY DEF Quotients
    <2> HIDE DEF Divides
    <2> QED BY <1>6, <2>1
  <1>8. q[0] = n /\ \A i \in 1 .. width : q[i] = q[i - 1] \div Base
    <2>1. q = [i \in 0 .. width |-> IF i = 0 THEN n ELSE q[i - 1] \div Base]
      BY <1>7
    <2>2. 0 \in 0 .. width /\ \A i \in 1 .. width : i \in 0 .. width /\ i # 0
      OBVIOUS
    <2> QED BY <2>1, <2>2
  <1> DEFINE T == {k \in Nat : k <= width => q[k] \in Int}
  <1>9. Nat \subseteq T
    <2>1. 0 \in T
      BY <1>8
    <2>2. ASSUME NEW k \in Nat, k \in T PROVE k + 1 \in T
      BY <1>1, <1>8, <2>2
    <2> HIDE DEF T
    <2> QED BY <2>1, <2>2, NatSetInduction
  <1>10. q \in [0 .. width -> Int]
    <2>1. \A k \in 0 .. width : q[k] \in Int
      BY <1>9
    <2> QED BY <1>7, <2>1
  <1> QED BY <1>8, <1>10

LEMMA OrderedTwice ==
  ASSUME NEW S, NEW row \in Seq(S)
  PROVE  /\ Ordered(row) \in Seq(S)
         /\ Len(Ordered(row)) = Len(row)
         /\ Ordered(Ordered(row)) = row
  BY DEF Ordered, Reverse

LEMMA ToBytesExact ==
  ASSUME NEW n \in Int, NEW width \in Nat
  PROVE  /\ ToBytes(n, width) \in Seq(Byte)
         /\ Len(ToBytes(n, width)) = width
         /\ Ordered(ToBytes(n, width)) =
              [i \in 1 .. width |-> Quotients(n, width)[i - 1] % Base]
  <1> DEFINE q == Quotients(n, width)
  <1>1. [i \in 1 .. width |-> q[i - 1] % Base] \in Seq(Byte)
    <2>1. \A i \in 1 .. width : q[i - 1] \in Int
      BY QuotientsExact
    <2>2. \A i \in 1 .. width : q[i - 1] % Base \in Byte
      BY <2>1, BufferAssumption, DivMod DEF BufferAssumption, Byte
    <2> QED BY <2>2
  <1>2. ToBytes(n, width) = Ordered([i \in 1 .. width |-> q[i - 1] % Base])
    BY DEF ToBytes
  <1>3. Len([i \in 1 .. width |-> q[i - 1] % Base]) = width
    BY <1>1
  <1> DEFINE row == [i \in 1 .. width |-> q[i - 1] % Base]
  <1> HIDE DEF row
  <1>4. row \in Seq(Byte) /\ Len(row) = width /\ ToBytes(n, width) = Ordered(row)
    BY <1>1, <1>2, <1>3 DEF row
  <1>5. /\ ToBytes(n, width) \in Seq(Byte)
        /\ Len(ToBytes(n, width)) = width
        /\ Ordered(ToBytes(n, width)) = row
    BY <1>4, OrderedTwice
  <1> QED BY <1>5 DEF row

LEMMA ToBytesType ==
  ASSUME NEW n \in Int, NEW width \in Nat
  PROVE  ToBytes(n, width) \in Seq(Byte) /\ Len(ToBytes(n, width)) = width
  BY ToBytesExact

\* A number in the range of its width is what its bytes are read as.
LEMMA NumberBack ==
  ASSUME NEW n \in Int, NEW width \in Nat, width > 0, NEW signed \in BOOLEAN,
         Fits(n, width, signed)
  PROVE  FromBytes(ToBytes(n, width), signed) = n
  <1> DEFINE q == Quotients(n, width)
             row == ToBytes(n, width)
  <1>2. /\ q \in [0 .. width -> Int]
        /\ q[0] = n
        /\ \A i \in 1 .. width : q[i] = q[i - 1] \div Base
    <2>1. q \in [0 .. width -> Int]
      BY QuotientsExact
    <2>2. q[0] = n
      BY QuotientsExact
    <2>3. \A i \in 1 .. width : q[i] = q[i - 1] \div Base
      BY QuotientsExact
    <2> QED BY <2>1, <2>2, <2>3
  <1>3. q[width] = Sign(q[width - 1] % Base, signed)
    BY DEF Fits
  <1>r. Len(row) = width /\ Ordered(row) = [i \in 1 .. width |-> q[i - 1] % Base]
    BY ToBytesExact
  <1> HIDE DEF q
  <1>4. ASSUME NEW i \in 1 .. width
        PROVE  q[i - 1] = Base * q[i] + (q[i - 1] % Base) /\ q[i - 1] % Base \in Int
    <2>1. q[i - 1] \in Int /\ q[i] = q[i - 1] \div Base
      BY <1>2
    <2>2. Base \in Nat /\ Base > 0
      BY BufferAssumption DEF BufferAssumption
    <2>3. /\ q[i - 1] = Base * (q[i - 1] \div Base) + (q[i - 1] % Base)
          /\ q[i - 1] % Base \in 0 .. Base - 1
      BY <2>1, <2>2, DivMod
    <2> QED BY <2>1, <2>2, <2>3
  <1> DEFINE little == [i \in 1 .. width |-> q[i - 1] % Base]
             Sums(f) == f = [i \in 0 .. Len(row) |->
                               IF i = 0 THEN Sign(Ordered(row)[Len(row)], signed)
                               ELSE Base * f[i - 1] + Ordered(row)[Len(row) - i + 1]]
             sums == CHOOSE f : Sums(f)
  <1>5. FromBytes(ToBytes(n, width), signed) = sums[width]
    <2>1. FromBytes(row, signed) = sums[Len(row)]
      BY DEF FromBytes
    <2> HIDE DEF sums
    <2> QED BY <1>r, <2>1
  <1> HIDE DEF row
  <1>s. Ordered(row) = little /\ Len(row) = width
    BY <1>r
  <1>6. Sums([i \in 0 .. width |-> q[width - i]])
    <2>1. ASSUME NEW i \in 1 .. width
          PROVE  q[width - i] = Base * q[width - (i - 1)] + little[width - i + 1]
      <3>1. width - i + 1 \in 1 .. width /\ (width - i + 1) - 1 = width - i
            /\ width - (i - 1) = width - i + 1
        OBVIOUS
      <3>2. q[width - i] = Base * q[width - i + 1] + (q[width - i] % Base)
        BY <1>4, <3>1
      <3> QED BY <3>1, <3>2
    <2>2. q[width] = Sign(little[width], signed)
      BY <1>3
    <2>3. \A i \in 1 .. width : [j \in 0 .. width |-> q[width - j]][i - 1] = q[width - (i - 1)]
      OBVIOUS
    <2> HIDE DEF little
    <2> QED BY <1>s, <2>1, <2>2, <2>3
  <1>7. Sums(sums)
    <2> HIDE DEF Sums
    <2> QED BY <1>6
  <1>8. /\ sums[0] = q[width]
        /\ \A i \in 1 .. width : sums[i] = Base * sums[i - 1] + little[width - i + 1]
    <2>1. sums = [i \in 0 .. width |-> IF i = 0 THEN Sign(little[width], signed)
                                       ELSE Base * sums[i - 1] + little[width - i + 1]]
      <3> HIDE DEF sums, little
      <3> QED BY <1>s, <1>7
    <2>2. Sign(little[width], signed) = q[width]
      BY <1>3
    <2> HIDE DEF sums, little
    <2> QED BY <2>1, <2>2
  <1> HIDE DEF sums
  <1> DEFINE T == {k \in Nat : k <= width => sums[k] = q[width - k]}
  <1>9. 0 \in T
    BY <1>2, <1>8
  <1>10. ASSUME NEW k \in Nat, k \in T PROVE k + 1 \in T
    <2>1. SUFFICES ASSUME k + 1 <= width PROVE sums[k + 1] = q[width - (k + 1)]
      OBVIOUS
    <2>2. sums[k + 1] = Base * sums[k] + little[width - k]
      BY <1>8, <2>1
    <2>3. width - k \in 1 .. width /\ (width - k) - 1 = width - (k + 1)
      BY <2>1
    <2>4. q[width - (k + 1)] = Base * q[width - k] + little[width - k]
      BY <1>4, <2>3
    <2>5. sums[k] = q[width - k]
      BY <1>10, <2>1
    <2> QED BY <2>2, <2>4, <2>5
  <1>11. Nat \subseteq T
    <2> HIDE DEF T
    <2> QED BY <1>9, <1>10, NatSetInduction
  <1>12. sums[width] = q[0]
    BY <1>11
  <1> QED BY <1>2, <1>5, <1>12 DEF row

-----------------------------------------------------------------------------
Buffers == [memory : Seq(Byte), start : Nat, view : Nat, offset : Nat]

Sound(b) == /\ b \in Buffers
            /\ b.offset <= b.view
            /\ b.start + b.view <= Len(b.memory)

RowIn(s, at, row) ==
  /\ at + Len(row) <= Len(s)
  /\ \A x \in 1 .. Len(row) : s[at + x] = row[x]

\* The rows lie in s one after the other, and off says where.
RowsAt(s, off, rows) ==
  /\ off \in [0 .. Len(rows) -> Nat]
  /\ \A j \in 1 .. Len(rows) : /\ off[j] = off[j - 1] + Len(rows[j])
                               /\ RowIn(s, off[j - 1], rows[j])

RowsIn(s, from, to, rows) ==
  \E off : RowsAt(s, off, rows) /\ off[0] = from /\ off[Len(rows)] = to

LEMMA ByteRowExact ==
  ASSUME NEW n \in Nat
  PROVE  ByteRow(n) \in Seq(Byte) /\ Len(ByteRow(n)) = n
  <1>1. 0 \in Byte
    BY BufferAssumption DEF BufferAssumption, Byte
  <1> QED BY <1>1 DEF ByteRow

LEMMA SubSeqFacts ==
  ASSUME NEW S, NEW s \in Seq(S), NEW m \in Nat, NEW n \in Nat, m + n <= Len(s)
  PROVE  /\ SubSeq(s, m + 1, m + n) \in Seq(S)
         /\ Len(SubSeq(s, m + 1, m + n)) = n
         /\ \A x \in 1 .. n : SubSeq(s, m + 1, m + n)[x] = s[m + x]
  <1>1. SubSeq(s, m + 1, m + n) = [x \in 1 .. n |-> s[m + x]]
    OBVIOUS
  <1>2. \A x \in 1 .. n : s[m + x] \in S
    OBVIOUS
  <1> QED BY <1>1, <1>2

LEMMA ToArrayExact ==
  ASSUME NEW b, Sound(b)
  PROVE  /\ ToArray(b) \in Seq(Byte)
         /\ Len(ToArray(b)) = b.offset
         /\ \A x \in 1 .. b.offset : ToArray(b)[x] = b.memory[b.start + x]
  <1>1. /\ b.memory \in Seq(Byte) /\ b.start \in Nat /\ b.offset \in Nat
        /\ Len(b.memory) \in Nat /\ b.view \in Nat
        /\ b.start + b.offset <= Len(b.memory)
    BY DEF Sound, Buffers
  <1>2. PICK memory \in Seq(Byte), start \in Nat, offset \in Nat :
          memory = b.memory /\ start = b.start /\ offset = b.offset
    BY <1>1
  <1>3. start + offset <= Len(memory)
    BY <1>1, <1>2
  <1>4. ToArray(b) = SubSeq(memory, start + 1, start + offset)
    BY <1>2 DEF ToArray
  <1>5. /\ ToArray(b) \in Seq(Byte) /\ Len(ToArray(b)) = offset
        /\ \A x \in 1 .. offset : ToArray(b)[x] = memory[start + x]
    <2>1. PICK row : row = SubSeq(memory, start + 1, start + offset)
      OBVIOUS
    <2>2. row \in Seq(Byte) /\ Len(row) = offset
      BY <1>3, <2>1, SubSeqFacts
    <2>3. \A x \in 1 .. offset : row[x] = memory[start + x]
      BY <1>3, <2>1, SubSeqFacts
    <2> QED BY <1>4, <2>1, <2>2, <2>3, Zenon
  <1> QED BY <1>2, <1>5

LEMMA ToArrayCells ==
  ASSUME NEW b, Sound(b), b.start = 0
  PROVE  \A x \in 1 .. b.offset : ToArray(b)[x] = b.memory[x]
  <1>1. \A x \in 1 .. b.offset : b.start + x = x
    BY DEF Sound, Buffers
  <1> QED BY <1>1, ToArrayExact

LEMMA JoinFacts ==
  ASSUME NEW S, NEW r \in Seq(S), NEW s \in Seq(S)
  PROVE  /\ r \o s \in Seq(S) /\ Len(r \o s) = Len(r) + Len(s)
         /\ \A x \in 1 .. Len(r) : (r \o s)[x] = r[x]
         /\ \A x \in 1 .. Len(s) : (r \o s)[Len(r) + x] = s[x]
  OBVIOUS

LEMMA ReserveExact ==
  ASSUME NEW b, Sound(b), b.start = 0, NEW length \in Nat, b.offset <= length,
         NEW r, r = Reserve(b, length)
  PROVE  /\ Sound(r) /\ r.start = 0 /\ r.offset = b.offset /\ length <= r.view
         /\ \A x \in 1 .. b.offset : r.memory[x] = b.memory[x]
  <1>1. /\ b \in Buffers /\ b.memory \in Seq(Byte) /\ b.offset \in Nat /\ b.view \in Nat
        /\ Len(b.memory) \in Nat /\ b.offset <= b.view /\ b.view <= Len(b.memory)
    BY DEF Sound, Buffers
  <1>2. CASE Len(b.memory) < length
    <2> DEFINE size == IF 2 * Len(b.memory) > length THEN 2 * Len(b.memory) ELSE length
               kept == ToArray(b)
               new == kept \o ByteRow(size - Len(kept))
    <2>1. /\ kept \in Seq(Byte) /\ Len(kept) = b.offset
          /\ \A x \in 1 .. b.offset : kept[x] = b.memory[x]
      BY <1>1, ToArrayExact
    <2>2. size \in Nat /\ length <= size
      BY <1>1
    <2>3. r = [b EXCEPT !.memory = new, !.start = 0, !.view = size]
      BY <1>2 DEF Reserve
    <2> HIDE DEF size, kept
    <2>4. size - Len(kept) \in Nat
      BY <1>1, <1>2, <2>1, <2>2
    <2>5. /\ ByteRow(size - Len(kept)) \in Seq(Byte)
          /\ Len(ByteRow(size - Len(kept))) = size - Len(kept)
      BY <2>4, ByteRowExact
    <2>6. /\ new \in Seq(Byte) /\ Len(new) = size
          /\ \A x \in 1 .. b.offset : new[x] = b.memory[x]
      <3> DEFINE zeros == ByteRow(size - Len(kept))
      <3>1. zeros \in Seq(Byte) /\ Len(zeros) = size - Len(kept)
        BY <2>5
      <3> HIDE DEF zeros
      <3>2. /\ kept \o zeros \in Seq(Byte)
            /\ Len(kept \o zeros) = Len(kept) + Len(zeros)
            /\ \A x \in 1 .. Len(kept) : (kept \o zeros)[x] = kept[x]
        <4>1. kept \o zeros \in Seq(Byte) /\ Len(kept \o zeros) = Len(kept) + Len(zeros)
          BY <2>1, <3>1, JoinFacts
        <4>2. \A x \in 1 .. Len(kept) : (kept \o zeros)[x] = kept[x]
          BY <2>1, <3>1, JoinFacts
        <4> QED BY <4>1, <4>2
      <3>3. Len(kept \o zeros) = size
        BY <1>1, <2>1, <2>2, <3>1, <3>2
      <3> QED BY <2>1, <3>2, <3>3 DEF zeros
    <2> HIDE DEF new
    <2>7. /\ r.memory = new /\ r.start = 0 /\ r.view = size /\ r.offset = b.offset
          /\ r \in Buffers
      BY <1>1, <2>2, <2>3, <2>6 DEF Buffers
    <2> QED BY <1>1, <1>2, <2>2, <2>6, <2>7 DEF Sound
  <1>3. CASE Len(b.memory) >= length /\ b.view < length
    <2>1. r = [b EXCEPT !.view = length]
      BY <1>1, <1>3 DEF Reserve
    <2>2. /\ r.memory = b.memory /\ r.start = 0 /\ r.view = length /\ r.offset = b.offset
          /\ r \in Buffers
      BY <1>1, <2>1 DEF Buffers
    <2> QED BY <1>1, <1>3, <2>2 DEF Sound
  <1>4. CASE Len(b.memory) >= length /\ b.view >= length
    <2>1. r = b
      BY <1>1, <1>4 DEF Reserve
    <2> QED BY <1>4, <2>1
  <1> QED BY <1>1, <1>2, <1>3, <1>4

PutsRow(b, row, c) ==
  /\ Sound(c) /\ c.start = 0 /\ c.offset = b.offset + Len(row)
  /\ \A x \in 1 .. b.offset : c.memory[x] = b.memory[x]
  /\ \A x \in 1 .. Len(row) : c.memory[b.offset + x] = row[x]

LEMMA PutBytesExact ==
  ASSUME NEW b, Sound(b), b.start = 0, NEW row \in Seq(Byte)
  PROVE  PutsRow(b, row, PutBytes(b, row))
  <1> DEFINE c == PutBytes(b, row)
  <1> DEFINE length == b.offset + Len(row)
             r == Reserve(b, length)
  <1>1. b.offset \in Nat /\ Len(row) \in Nat /\ length \in Nat /\ b.offset <= length
    BY DEF Sound, Buffers
  <1>2. /\ Sound(r) /\ r.start = 0 /\ r.offset = b.offset /\ length <= r.view
        /\ \A x \in 1 .. b.offset : r.memory[x] = b.memory[x]
    <2> HIDE DEF length
    <2> QED BY <1>1, ReserveExact
  <1> DEFINE new == [i \in 1 .. Len(r.memory) |->
                       IF i - (r.start + r.offset) \in 1 .. Len(row)
                       THEN row[i - (r.start + r.offset)] ELSE r.memory[i]]
  <1>3. c = [r EXCEPT !.offset = r.offset + Len(row), !.memory = new]
    BY DEF PutBytes
  <1> HIDE DEF c
  <1>c. /\ c.memory = new /\ c.offset = length /\ c.start = 0 /\ c.view = r.view
        /\ c = [memory |-> new, start |-> 0, view |-> r.view, offset |-> length]
    <2> HIDE DEF r, new
    <2>1. r \in Buffers
      BY <1>2 DEF Sound
    <2> QED BY <1>2, <1>3, <2>1 DEF Buffers
  <1> HIDE DEF r, length
  <1>4. /\ r.memory \in Seq(Byte) /\ Len(r.memory) \in Nat /\ r.view \in Nat
        /\ r.view <= Len(r.memory)
    BY <1>2 DEF Sound, Buffers
  <1>5. new = [i \in 1 .. Len(r.memory) |->
                 IF i - b.offset \in 1 .. Len(row) THEN row[i - b.offset] ELSE r.memory[i]]
    BY <1>1, <1>2
  <1>6. new \in Seq(Byte) /\ Len(new) = Len(r.memory)
    <2>1. \A i \in 1 .. Len(r.memory) : r.memory[i] \in Byte
      BY <1>4
    <2>2. \A i \in 1 .. Len(row) : row[i] \in Byte
      OBVIOUS
    <2>3. \A i \in 1 .. Len(r.memory) : new[i] \in Byte
      BY <1>1, <1>5, <2>1, <2>2
    <2> QED BY <1>4, <1>5, <2>3
  <1>7. \A x \in 1 .. b.offset : new[x] = b.memory[x]
    <2>1. \A x \in 1 .. b.offset : x \in 1 .. Len(r.memory) /\ x - b.offset \notin 1 .. Len(row)
      BY <1>1, <1>2, <1>4 DEF length
    <2> QED BY <1>2, <1>5, <2>1
  <1>8. \A x \in 1 .. Len(row) : new[b.offset + x] = row[x]
    <2>1. \A x \in 1 .. Len(row) : /\ b.offset + x \in 1 .. Len(r.memory)
                                   /\ (b.offset + x) - b.offset = x
      BY <1>1, <1>2, <1>4 DEF length
    <2> QED BY <1>5, <2>1
  <1>9. length = b.offset + Len(row)
    BY DEF length
  <1> HIDE DEF new
  <1>10. Sound(c)
    <2>1. c \in Buffers
      BY <1>1, <1>4, <1>6, <1>c DEF Buffers
    <2> QED BY <1>2, <1>4, <1>6, <1>c, <2>1 DEF Sound
  <1> QED BY <1>7, <1>8, <1>9, <1>10, <1>c DEF c, PutsRow


\* c goes on where b ends.
Extends(b, c) ==
  /\ Sound(b) /\ b.start = 0 /\ Sound(c) /\ c.start = 0 /\ b.offset <= c.offset
  /\ \A x \in 1 .. b.offset : c.memory[x] = b.memory[x]

LEMMA RowStays ==
  ASSUME NEW b, NEW c, Extends(b, c),
         NEW at \in Nat, NEW row \in Seq(Byte), RowIn(ToArray(b), at, row)
  PROVE  RowIn(ToArray(c), at, row)
  <1>1. b.offset \in Nat /\ c.offset \in Nat /\ Len(row) \in Nat
    BY DEF Extends, Sound, Buffers
  <1>2. \A x \in 1 .. b.offset : ToArray(c)[x] = ToArray(b)[x]
    BY <1>1, ToArrayCells DEF Extends
  <1>3. Len(ToArray(b)) = b.offset /\ Len(ToArray(c)) = c.offset /\ b.offset <= c.offset
    BY ToArrayExact DEF Extends
  <1> QED BY <1>1, <1>2, <1>3 DEF RowIn

Writers == {b \in Buffers : Sound(b) /\ b.start = 0}

\* put says how the buffer grows, row after row.
Puts(put, b, rows) ==
  /\ put \in [0 .. Len(rows) -> Writers]
  /\ put[0] = b
  /\ \A i \in 1 .. Len(rows) : put[i] = PutBytes(put[i - 1], rows[i])

LEMMA PutRowsSolved ==
  ASSUME NEW b \in Writers, NEW rows \in Seq(Seq(Byte))
  PROVE  \E put : Puts(put, b, rows) /\ PutRows(b, rows) = put[Len(rows)]
  <1> DEFINE n == Len(rows)
             step == [p \in (1 .. n) \X Writers |-> PutBytes(p[2], rows[p[1]])]
             Puts0(f) == f = [i \in 0 .. n |-> IF i = 0 THEN b ELSE PutBytes(f[i - 1], rows[i])]
             put == CHOOSE f : Puts0(f)
  <1>n. n \in Nat
    OBVIOUS
  <1>1. ASSUME NEW x \in Writers, NEW i \in 1 .. n PROVE PutBytes(x, rows[i]) \in Writers
    <2>1. rows[i] \in Seq(Byte) /\ Sound(x) /\ x.start = 0
      BY DEF Writers
    <2>2. Sound(PutBytes(x, rows[i])) /\ PutBytes(x, rows[i]).start = 0
      BY <2>1, PutBytesExact DEF PutsRow
    <2> QED BY <2>2 DEF Sound, Writers
  <1>2. step \in [(1 .. n) \X Writers -> Writers]
    BY <1>1
  <1>3. \E f : Recurs(f, n, Writers, b, step)
    <2> HIDE DEF n, step
    <2> QED BY <1>n, <1>2, RecursionSolved, Zenon
  <1>4. PICK f : Recurs(f, n, Writers, b, step)
    BY <1>3
  <1>5. f \in [0 .. n -> Writers] /\ f[0] = b
    BY <1>4 DEF Recurs
  <1>6. ASSUME NEW i \in 1 .. n PROVE f[i] = PutBytes(f[i - 1], rows[i])
    <2>1. f[i] = step[<<i, f[i - 1]>>]
      <3> HIDE DEF n, step
      <3> QED BY <1>4 DEF Recurs
    <2>2. f[i - 1] \in Writers
      <3> HIDE DEF n, step
      <3> QED BY <1>5, <1>n
    <2> QED BY <2>1, <2>2
  <1>7. Puts0(f)
    <2> HIDE DEF n, step
    <2> QED BY <1>5, <1>6
  <1>8. Puts0(put)
    <2> HIDE DEF Puts0
    <2> QED BY <1>7
  <1>9. put[0] = b /\ \A i \in 1 .. n : put[i] = PutBytes(put[i - 1], rows[i])
    <2> HIDE DEF n, put
    <2> QED BY <1>n, <1>8
  <1>10. PutRows(b, rows) = put[n]
    BY DEF PutRows
  <1> DEFINE T == {k \in Nat : k <= n => put[k] \in Writers}
  <1> HIDE DEF put, n
  <1>11. Nat \subseteq T
    <2>1. 0 \in T
      BY <1>9
    <2>2. ASSUME NEW k \in Nat, k \in T PROVE k + 1 \in T
      <3>1. SUFFICES ASSUME k + 1 <= n PROVE put[k + 1] \in Writers
        OBVIOUS
      <3>2. k + 1 \in 1 .. n /\ put[k] \in Writers /\ (k + 1) - 1 = k
        BY <1>n, <2>2, <3>1
      <3> QED BY <1>1, <1>9, <3>2
    <2> HIDE DEF T
    <2> QED BY <2>1, <2>2, NatSetInduction
  <1>12. put \in [0 .. n -> Writers]
    <2>1. \A k \in 0 .. n : put[k] \in Writers
      BY <1>11, <1>n
    <2> QED BY <1>8, <2>1
  <1> QED BY <1>9, <1>10, <1>12 DEF Puts, n

\* What is written lies behind what had been written, which stays.
LEMMA PutRowsExact ==
  ASSUME NEW b, Sound(b), b.start = 0, NEW rows \in Seq(Seq(Byte)),
         NEW c, c = PutRows(b, rows)
  PROVE  /\ Extends(b, c)
         /\ RowsIn(ToArray(c), b.offset, c.offset, rows)
  <1>1. b \in Writers
    BY DEF Writers, Sound
  <1>2. PICK put : Puts(put, b, rows) /\ c = put[Len(rows)]
    BY <1>1, PutRowsSolved
  <1> DEFINE n == Len(rows)
             off == [i \in 0 .. n |-> put[i].offset]
  <1>n. n \in Nat /\ \A j \in 1 .. n : rows[j] \in Seq(Byte) /\ Len(rows[j]) \in Nat
    OBVIOUS
  <1>3. /\ put[0] = b /\ c = put[n]
        /\ \A i \in 0 .. n : Sound(put[i]) /\ put[i].start = 0 /\ put[i].offset \in Nat
        /\ \A i \in 1 .. n : put[i] = PutBytes(put[i - 1], rows[i])
    BY <1>2 DEF Puts, Writers, Buffers
  <1> HIDE DEF n
  <1>4. ASSUME NEW i \in 1 .. n
        PROVE  /\ put[i].offset = put[i - 1].offset + Len(rows[i])
               /\ put[i - 1].offset <= put[i].offset
               /\ \A x \in 1 .. put[i - 1].offset : put[i].memory[x] = put[i - 1].memory[x]
               /\ RowIn(ToArray(put[i]), put[i - 1].offset, rows[i])
    <2>1. i - 1 \in 0 .. n /\ i \in 0 .. n
      BY <1>n
    <2>2. /\ Sound(put[i - 1]) /\ put[i - 1].start = 0 /\ put[i - 1].offset \in Nat
          /\ Sound(put[i]) /\ put[i].start = 0
          /\ put[i] = PutBytes(put[i - 1], rows[i]) /\ rows[i] \in Seq(Byte)
      BY <1>3, <1>n, <2>1
    <2>p. PutsRow(put[i - 1], rows[i], put[i])
      BY <2>2, PutBytesExact
    <2>3. /\ put[i].offset = put[i - 1].offset + Len(rows[i])
          /\ \A x \in 1 .. put[i - 1].offset : put[i].memory[x] = put[i - 1].memory[x]
          /\ \A x \in 1 .. Len(rows[i]) : put[i].memory[put[i - 1].offset + x] = rows[i][x]
      BY <2>p DEF PutsRow
    <2>4. Len(rows[i]) \in Nat
      BY <1>n
    <2>5. \A x \in 1 .. Len(rows[i]) : ToArray(put[i])[put[i - 1].offset + x] = rows[i][x]
      <3>1. \A x \in 1 .. Len(rows[i]) : put[i - 1].offset + x \in 1 .. put[i].offset
        BY <2>2, <2>3, <2>4
      <3>2. \A x \in 1 .. put[i].offset : ToArray(put[i])[x] = put[i].memory[x]
        BY <2>2, ToArrayCells
      <3> QED BY <2>3, <3>1, <3>2
    <2>6. Len(ToArray(put[i])) = put[i].offset
      BY <2>2, ToArrayExact
    <2> QED BY <2>2, <2>3, <2>4, <2>5, <2>6 DEF RowIn
  <1> DEFINE Holds(k) ==
               /\ b.offset <= put[k].offset
               /\ \A x \in 1 .. b.offset : put[k].memory[x] = b.memory[x]
               /\ \A j \in 1 .. k : RowIn(ToArray(put[k]), put[j - 1].offset, rows[j])
             T == {k \in Nat : k <= n => Holds(k)}
  <1>5. 0 \in T
    BY <1>3, <1>n
  <1>6. ASSUME NEW k \in Nat, k \in T PROVE k + 1 \in T
    <2>1. SUFFICES ASSUME k + 1 <= n PROVE Holds(k + 1)
      <3> HIDE DEF Holds
      <3> QED OBVIOUS
    <2>2. Holds(k)
      <3>1. k <= n
        BY <1>n, <2>1
      <3>2. k <= n => Holds(k)
        <4> HIDE DEF Holds
        <4> QED BY <1>6
      <3> HIDE DEF Holds
      <3> QED BY <3>1, <3>2
    <2>3. /\ k + 1 \in 1 .. n /\ (k + 1) - 1 = k /\ k \in 0 .. n /\ k + 1 \in 0 .. n
      BY <1>n, <2>1
    <2>4. /\ put[k].offset <= put[k + 1].offset
          /\ \A x \in 1 .. put[k].offset : put[k + 1].memory[x] = put[k].memory[x]
          /\ RowIn(ToArray(put[k + 1]), put[k].offset, rows[k + 1])
      BY <1>4, <2>3
    <2>5. /\ Sound(put[k]) /\ put[k].start = 0 /\ put[k].offset \in Nat
          /\ Sound(put[k + 1]) /\ put[k + 1].start = 0 /\ put[k + 1].offset \in Nat
          /\ b.offset \in Nat
      BY <1>3, <2>3 DEF Sound, Buffers
    <2>6. ASSUME NEW j \in 1 .. k + 1
          PROVE  RowIn(ToArray(put[k + 1]), put[j - 1].offset, rows[j])
      <3>1. CASE j = k + 1
        BY <2>3, <2>4, <3>1
      <3>2. CASE j # k + 1
        <4>1. j \in 1 .. k /\ j \in 1 .. n /\ j - 1 \in 0 .. n
          BY <1>n, <2>1, <3>2
        <4>2. rows[j] \in Seq(Byte) /\ put[j - 1].offset \in Nat
          BY <1>3, <1>n, <4>1
        <4>3. RowIn(ToArray(put[k]), put[j - 1].offset, rows[j])
          BY <2>2, <4>1
        <4>4. Extends(put[k], put[k + 1])
          BY <2>4, <2>5 DEF Extends
        <4> QED BY <4>2, <4>3, <4>4, RowStays
      <3> QED BY <3>1, <3>2
    <2> QED BY <2>2, <2>4, <2>5, <2>6
  <1>7. Holds(n)
    <2> HIDE DEF Holds
    <2>1. Nat \subseteq T
      <3> HIDE DEF T
      <3> QED BY <1>5, <1>6, NatSetInduction
    <2> QED BY <1>n, <2>1
  <1>8. RowsAt(ToArray(c), off, rows)
    <2>1. off \in [0 .. n -> Nat]
      BY <1>3
    <2>2. \A j \in 1 .. n : /\ off[j] = off[j - 1] + Len(rows[j])
                            /\ RowIn(ToArray(c), off[j - 1], rows[j])
      <3>1. \A j \in 1 .. n : j \in 0 .. n /\ j - 1 \in 0 .. n
        BY <1>n
      <3>2. \A j \in 0 .. n : off[j] = put[j].offset
        OBVIOUS
      <3> HIDE DEF off
      <3> QED BY <1>3, <1>4, <1>7, <3>1, <3>2
    <2> HIDE DEF off
    <2> QED BY <2>1, <2>2 DEF RowsAt, n
  <1>9. off[0] = b.offset /\ off[n] = c.offset
    BY <1>3, <1>n
  <1>10. RowsIn(ToArray(c), b.offset, c.offset, rows)
    <2> HIDE DEF off
    <2> QED BY <1>8, <1>9 DEF RowsIn, n
  <1> QED BY <1>3, <1>7, <1>10, <1>n DEF Extends


-----------------------------------------------------------------------------
View == SubSeq(buffer.memory, buffer.start + 1, buffer.start + buffer.view)

LEMMA ViewExact ==
  ASSUME Sound(buffer)
  PROVE  /\ View \in Seq(Byte) /\ Len(View) = buffer.view
         /\ \A x \in 1 .. buffer.view : View[x] = buffer.memory[buffer.start + x]
  <1>1. /\ buffer.memory \in Seq(Byte) /\ buffer.start \in Nat /\ buffer.view \in Nat
        /\ buffer.start + buffer.view <= Len(buffer.memory)
    BY DEF Sound, Buffers
  <1>2. PICK s \in Seq(Byte), m \in Nat, n \in Nat :
          s = buffer.memory /\ m = buffer.start /\ n = buffer.view
    BY <1>1
  <1>3. View = SubSeq(s, m + 1, m + n) /\ m + n <= Len(s)
    BY <1>1, <1>2 DEF View
  <1>4. /\ View \in Seq(Byte) /\ Len(View) = n
        /\ \A x \in 1 .. n : View[x] = s[m + x]
    BY <1>3, SubSeqFacts
  <1> QED BY <1>2, <1>4

LEMMA GetBytesExact ==
  ASSUME Sound(buffer), NEW at \in Nat, NEW row \in Seq(Byte), RowIn(View, at, row)
  PROVE  GetBytes(at, Len(row)) = [value |-> row, at |-> at + Len(row)]
  <1>1. /\ buffer.memory \in Seq(Byte) /\ buffer.start \in Nat /\ buffer.view \in Nat
        /\ Len(buffer.memory) \in Nat /\ Len(row) \in Nat
        /\ buffer.start + buffer.view <= Len(buffer.memory)
    BY DEF Sound, Buffers
  <1>2. at + Len(row) <= buffer.view
    BY ViewExact DEF RowIn
  <1> DEFINE m == buffer.start + at
             n == Len(row)
             got == SubSeq(buffer.memory, m + 1, m + n)
  <1>3. m \in Nat /\ n \in Nat /\ m + n <= Len(buffer.memory)
    <2>1. PICK s \in Nat, v \in Nat, l \in Nat, r \in Nat :
            s = buffer.start /\ v = buffer.view /\ l = Len(buffer.memory) /\ r = Len(row)
      BY <1>1
    <2>2. s + v <= l /\ at + r <= v
      BY <1>1, <1>2, <2>1
    <2>3. s + at \in Nat /\ (s + at) + r <= l
      BY <2>2
    <2> QED BY <2>1, <2>3
  <1>4. /\ got \in Seq(Byte) /\ Len(got) = n
        /\ \A x \in 1 .. n : got[x] = buffer.memory[m + x]
    <2> HIDE DEF m, n
    <2> QED BY <1>1, <1>3, SubSeqFacts
  <1>5. ASSUME NEW x \in 1 .. n PROVE got[x] = row[x]
    <2>1. View[at + x] = row[x]
      BY DEF RowIn
    <2>2. at + x \in 1 .. buffer.view /\ buffer.start + (at + x) = m + x
      BY <1>1, <1>2
    <2>3. View[at + x] = buffer.memory[m + x]
      BY <2>2, ViewExact
    <2> HIDE DEF m, n, got
    <2> QED BY <1>4, <2>1, <2>3
  <1>6. got = row
    <2> HIDE DEF m, got
    <2> QED BY <1>4, <1>5
  <1>7. GetBytes(at, n) = [value |-> got, at |-> at + n]
    <2>1. ~(at < 0 \/ buffer.view < at + n)
      BY <1>1, <1>2
    <2> QED BY <2>1 DEF GetBytes
  <1> QED BY <1>6, <1>7

\* What a reader finds at an offset, and goes on from.
Reads(value, at) == [value |-> value, at |-> at]

LEMMA ReadsParts ==
  ASSUME NEW value, NEW at
  PROVE  Reads(value, at).value = value /\ Reads(value, at).at = at
  BY DEF Reads

LEMMA ReadsSomething ==
  ASSUME NEW value, NEW at \in Nat
  PROVE  Reads(value, at) # Underflow
  BY DEF Reads, Underflow

LEMMA GetNumberExact ==
  ASSUME Sound(buffer), NEW at \in Nat, NEW n \in Int, NEW width \in Nat, width > 0,
         NEW signed \in BOOLEAN, Fits(n, width, signed),
         RowIn(View, at, ToBytes(n, width))
  PROVE  GetNumber(at, width, signed) = Reads(<<n>>, at + width)
  <1> DEFINE row == ToBytes(n, width)
  <1>1. row \in Seq(Byte) /\ Len(row) = width
    BY ToBytesType
  <1>2. GetBytes(at, width) = [value |-> row, at |-> at + width]
    <2> HIDE DEF row
    <2>1. RowIn(View, at, row)
      BY DEF row
    <2> QED BY <1>1, <2>1, GetBytesExact
  <1>3. FromBytes(row, signed) = n
    BY NumberBack
  <1>4. GetBytes(at, width) # Underflow
    BY <1>2 DEF Underflow
  <1> HIDE DEF row
  <1> QED BY <1>2, <1>3, <1>4 DEF GetNumber, Reads

LEMMA ByteFits ==
  ASSUME NEW n \in Byte
  PROVE  n \in Int /\ Fits(n, 1, FALSE)
  <1> DEFINE q == Quotients(n, 1)
  <1>1. Base \in Nat /\ Base > 1 /\ n \in Int /\ 0 <= n /\ n < Base
    BY BufferAssumption DEF BufferAssumption, Byte
  <1>2. q[0] = n /\ q[1] = q[0] \div Base
    <2>1. \A i \in 1 .. 1 : q[i] = q[i - 1] \div Base
      BY <1>1, QuotientsExact
    <2>2. q[0] = n
      BY <1>1, QuotientsExact
    <2> HIDE DEF q
    <2> QED BY <2>1, <2>2
  <1>3. n \div Base = 0
    BY <1>1
  <1> QED BY <1>1, <1>2, <1>3 DEF Fits, Sign

\* The row alone, from offset to offset.
RowFrom(s, from, to, row) == RowIn(s, from, row) /\ from \in Nat /\ to = from + Len(row)

LEMMA RowsInOne ==
  ASSUME NEW s, NEW from, NEW to, NEW row \in Seq(Byte), RowsIn(s, from, to, <<row>>)
  PROVE  RowFrom(s, from, to, row)
  <1>1. PICK off : RowsAt(s, off, <<row>>) /\ off[0] = from /\ off[Len(<<row>>)] = to
    BY DEF RowsIn
  <1>2. Len(<<row>>) = 1 /\ <<row>>[1] = row
    OBVIOUS
  <1>3. off \in [0 .. 1 -> Nat] /\ off[1] = off[0] + Len(row) /\ RowIn(s, off[0], row)
    BY <1>1, <1>2 DEF RowsAt
  <1> QED BY <1>1, <1>2, <1>3 DEF RowFrom

LEMMA RowsInPair ==
  ASSUME NEW s, NEW from, NEW to, NEW row \in Seq(Byte), NEW next \in Seq(Byte),
         RowsIn(s, from, to, <<row, next>>)
  PROVE  \E mid : RowFrom(s, from, mid, row) /\ RowFrom(s, mid, to, next)
  <1>1. PICK off : RowsAt(s, off, <<row, next>>) /\ off[0] = from /\ off[Len(<<row, next>>)] = to
    BY DEF RowsIn
  <1>2. Len(<<row, next>>) = 2 /\ <<row, next>>[1] = row /\ <<row, next>>[2] = next
    OBVIOUS
  <1>3. /\ off \in [0 .. 2 -> Nat]
        /\ off[1] = off[0] + Len(row) /\ RowIn(s, off[0], row)
        /\ off[2] = off[1] + Len(next) /\ RowIn(s, off[1], next)
    BY <1>1, <1>2 DEF RowsAt
  <1>4. off[0] \in Nat /\ off[1] \in Nat
    BY <1>3
  <1> QED BY <1>1, <1>2, <1>3, <1>4 DEF RowFrom

LEMMA RowsInSplit ==
  ASSUME NEW s, NEW from, NEW to, NEW first \in Seq(Seq(Byte)), NEW rest \in Seq(Seq(Byte)),
         RowsIn(s, from, to, first \o rest)
  PROVE  \E mid \in Nat : RowsIn(s, from, mid, first) /\ RowsIn(s, mid, to, rest)
  <1> DEFINE m == Len(first)
             n == Len(rest)
  <1>1. /\ m \in Nat /\ n \in Nat /\ Len(first \o rest) = m + n
        /\ \A j \in 1 .. m : (first \o rest)[j] = first[j]
        /\ \A j \in 1 .. n : (first \o rest)[m + j] = rest[j]
    OBVIOUS
  <1>2. PICK off : RowsAt(s, off, first \o rest) /\ off[0] = from /\ off[m + n] = to
    BY <1>1 DEF RowsIn
  <1> HIDE DEF m, n
  <1>3. /\ off \in [0 .. m + n -> Nat]
        /\ \A j \in 1 .. m + n : /\ off[j] = off[j - 1] + Len((first \o rest)[j])
                                 /\ RowIn(s, off[j - 1], (first \o rest)[j])
    BY <1>1, <1>2 DEF RowsAt
  <1> DEFINE a == [j \in 0 .. m |-> off[j]]
             b == [j \in 0 .. n |-> off[m + j]]
  <1>4. RowsAt(s, a, first) /\ a[0] = from /\ a[m] = off[m]
    <2>1. a \in [0 .. m -> Nat] /\ a[0] = from /\ a[m] = off[m]
      BY <1>1, <1>2, <1>3
    <2>2. ASSUME NEW j \in 1 .. m
          PROVE  a[j] = a[j - 1] + Len(first[j]) /\ RowIn(s, a[j - 1], first[j])
      <3>1. j \in 1 .. m + n /\ j \in 0 .. m /\ j - 1 \in 0 .. m
        BY <1>1
      <3>2. a[j] = off[j] /\ a[j - 1] = off[j - 1] /\ (first \o rest)[j] = first[j]
        BY <1>1, <3>1
      <3> HIDE DEF a
      <3> QED BY <1>3, <3>1, <3>2
    <2> HIDE DEF a
    <2> QED BY <2>1, <2>2 DEF RowsAt, m
  <1>5. RowsAt(s, b, rest) /\ b[0] = off[m] /\ b[n] = to
    <2>1. b \in [0 .. n -> Nat] /\ b[0] = off[m] /\ b[n] = to
      BY <1>1, <1>2, <1>3
    <2>2. ASSUME NEW j \in 1 .. n
          PROVE  b[j] = b[j - 1] + Len(rest[j]) /\ RowIn(s, b[j - 1], rest[j])
      <3>1. m + j \in 1 .. m + n /\ j \in 0 .. n /\ j - 1 \in 0 .. n /\ m + (j - 1) = (m + j) - 1
        BY <1>1
      <3>2. b[j] = off[m + j] /\ b[j - 1] = off[(m + j) - 1] /\ (first \o rest)[m + j] = rest[j]
        BY <1>1, <3>1
      <3> HIDE DEF b
      <3> QED BY <1>3, <3>1, <3>2
    <2> HIDE DEF b
    <2> QED BY <2>1, <2>2 DEF RowsAt, n
  <1>6. off[m] \in Nat
    BY <1>1, <1>3
  <1> HIDE DEF a, b
  <1>7. RowsIn(s, from, off[m], first) /\ RowsIn(s, off[m], to, rest)
    BY <1>4, <1>5 DEF RowsIn, m, n
  <1> QED BY <1>6, <1>7

LEMMA LengthRowsExact ==
  ASSUME NEW n \in Nat
  PROVE  LengthRows(n) \in Seq(Seq(Byte))
  <1>1. Base - 1 \in Int /\ 1 \in Nat /\ 4 \in Nat
    BY BufferAssumption DEF BufferAssumption
  <1>2. /\ ToBytes(Base - 1, 1) \in Seq(Byte) /\ ToBytes(n, 4) \in Seq(Byte)
        /\ ToBytes(n, 1) \in Seq(Byte)
    BY <1>1, ToBytesType
  <1> QED BY <1>2 DEF LengthRows

LEMMA GetLengthExact ==
  ASSUME Sound(buffer), NEW n \in Nat, Fits(n, 4, FALSE),
         NEW from, NEW to, RowsIn(View, from, to, LengthRows(n))
  PROVE  GetLength(from) = Reads(<<n>>, to) /\ to \in Nat
  <1> DEFINE escape == ToBytes(Base - 1, 1)
             long == ToBytes(n, 4)
             short == ToBytes(n, 1)
  <1>1. Base \in Nat /\ Base > 1 /\ Base - 1 \in Int /\ Base - 1 \in Byte /\ n \in Int
    BY BufferAssumption DEF BufferAssumption, Byte
  <1>2. escape \in Seq(Byte) /\ Len(escape) = 1
    BY <1>1, ToBytesType
  <1>3. long \in Seq(Byte) /\ Len(long) = 4
    BY <1>1, ToBytesType
  <1>4. short \in Seq(Byte) /\ Len(short) = 1
    BY <1>1, ToBytesType
  <1>5. CASE n >= Base - 1
    <2>1. LengthRows(n) = <<escape, long>>
      BY <1>5 DEF LengthRows
    <2>2. ASSUME RowIn(View, from, escape), RowIn(View, from + 1, long),
                 from \in Nat, to = from + 1 + 4
          PROVE  GetLength(from) = Reads(<<n>>, to) /\ to \in Nat
      <3>1. Fits(Base - 1, 1, FALSE)
        BY <1>1, ByteFits
      <3>2. GetNumber(from, 1, FALSE) = Reads(<<Base - 1>>, from + 1)
        <4>1. 1 \in Nat /\ 1 > 0 /\ FALSE \in BOOLEAN
          OBVIOUS
        <4> QED BY <1>1, <2>2, <3>1, <4>1, GetNumberExact, Zenon
      <3>3. GetNumber(from + 1, 4, FALSE) = Reads(<<n>>, from + 1 + 4)
        <4>1. from + 1 \in Nat /\ 4 \in Nat /\ 4 > 0 /\ FALSE \in BOOLEAN
          BY <2>2
        <4> QED BY <1>1, <2>2, <4>1, GetNumberExact, Zenon
      <3>4. GetLength(from) = GetNumber(from + 1, 4, FALSE)
        <4> DEFINE one == GetNumber(from, 1, FALSE)
        <4>1. GetLength(from) = IF one.value = <<Base - 1>> THEN GetNumber(one.at, 4, FALSE) ELSE one
          BY DEF GetLength
        <4>2. one = Reads(<<Base - 1>>, from + 1)
          BY <3>2, Zenon
        <4> HIDE DEF one
        <4>3. one.value = <<Base - 1>> /\ one.at = from + 1
          BY <4>2, ReadsParts, Zenon
        <4> QED BY <4>1, <4>3, Zenon
      <3>5. GetLength(from) = Reads(<<n>>, from + 1 + 4)
        BY <3>3, <3>4, Zenon
      <3>6. to \in Nat
        BY <2>2
      <3> QED BY <2>2, <3>5, <3>6, Zenon
    <2> HIDE DEF escape, long
    <2>3. RowsIn(View, from, to, <<escape, long>>)
      BY <2>1
    <2>4. PICK mid : RowFrom(View, from, mid, escape) /\ RowFrom(View, mid, to, long)
      BY <1>2, <1>3, <2>3, RowsInPair
    <2>5. mid = from + 1 /\ to = from + 1 + 4 /\ from \in Nat
      BY <1>2, <1>3, <2>4 DEF RowFrom
    <2> QED BY <2>2, <2>4, <2>5 DEF RowFrom
  <1>6. CASE n < Base - 1
    <2>1. LengthRows(n) = <<short>>
      BY <1>1, <1>6 DEF LengthRows
    <2>2. n \in Byte
      BY <1>1, <1>6 DEF Byte
    <2>3. ASSUME RowIn(View, from, short), from \in Nat, to = from + 1
          PROVE  GetLength(from) = Reads(<<n>>, to) /\ to \in Nat
      <3>1. Fits(n, 1, FALSE)
        BY <2>2, ByteFits
      <3>2. GetNumber(from, 1, FALSE) = Reads(<<n>>, from + 1)
        <4>1. 1 \in Nat /\ 1 > 0 /\ FALSE \in BOOLEAN
          OBVIOUS
        <4> QED BY <1>1, <2>3, <3>1, <4>1, GetNumberExact, Zenon
      <3>3. <<n>> # <<Base - 1>>
        BY <1>1, <1>6
      <3>4. GetLength(from) = GetNumber(from, 1, FALSE)
        <4> DEFINE one == GetNumber(from, 1, FALSE)
        <4>1. GetLength(from) = IF one.value = <<Base - 1>> THEN GetNumber(one.at, 4, FALSE) ELSE one
          BY DEF GetLength
        <4>2. one = Reads(<<n>>, from + 1)
          BY <3>2, Zenon
        <4>3. one.value # <<Base - 1>>
          <5> HIDE DEF one
          <5> QED BY <3>3, <4>2, ReadsParts, Zenon
        <4> QED BY <4>1, <4>3, Zenon
      <3>5. GetLength(from) = Reads(<<n>>, from + 1)
        BY <3>2, <3>4, Zenon
      <3>6. to \in Nat
        BY <2>3
      <3> QED BY <2>3, <3>5, <3>6, Zenon
    <2> HIDE DEF short
    <2>4. RowsIn(View, from, to, <<short>>)
      BY <2>1
    <2>5. RowFrom(View, from, to, short)
      BY <1>4, <2>4, RowsInOne
    <2> QED BY <1>4, <2>3, <2>5 DEF RowFrom
  <1> QED BY <1>1, <1>5, <1>6


\* One turn of readArray.
Another(got, width, signed) ==
  LET next == GetNumber(got.at, width, signed)
  IN  IF next = Underflow THEN next ELSE [next EXCEPT !.value = got.value \o @]

EachRow(value, width) == [i \in 1 .. Len(value) |-> ToBytes(value[i], width)]

LEMMA EachRowExact ==
  ASSUME NEW value \in Seq(Int), NEW width \in Nat
  PROVE  /\ EachRow(value, width) \in Seq(Seq(Byte))
         /\ Len(EachRow(value, width)) = Len(value)
         /\ \A i \in 1 .. Len(value) : EachRow(value, width)[i] = ToBytes(value[i], width)
  <1>1. \A i \in 1 .. Len(value) : ToBytes(value[i], width) \in Seq(Byte)
    <2>1. \A i \in 1 .. Len(value) : value[i] \in Int
      OBVIOUS
    <2> QED BY <2>1, ToBytesType
  <1> QED BY <1>1 DEF EachRow

LEMMA AnotherExact ==
  ASSUME Sound(buffer), NEW before, NEW at \in Nat, NEW n \in Int, NEW width \in Nat, width > 0,
         NEW signed \in BOOLEAN, Fits(n, width, signed),
         RowIn(View, at, ToBytes(n, width))
  PROVE  Another(Reads(before, at), width, signed) = Reads(before \o <<n>>, at + width)
  <1> DEFINE next == GetNumber(at, width, signed)
  <1>1. next = Reads(<<n>>, at + width)
    BY GetNumberExact
  <1>2. Another(Reads(before, at), width, signed) =
          IF next = Underflow THEN next ELSE [next EXCEPT !.value = before \o @]
    <2>1. Reads(before, at).at = at /\ Reads(before, at).value = before
      BY ReadsParts
    <2> QED BY <2>1, Zenon DEF Another
  <1>3. next # Underflow
    <2>1. at + width \in Nat
      OBVIOUS
    <2> HIDE DEF next
    <2> QED BY <1>1, <2>1, ReadsSomething
  <1>4. [next EXCEPT !.value = before \o @] = Reads(before \o <<n>>, at + width)
    <2> HIDE DEF next
    <2>1. next.value = <<n>>
      BY <1>1, ReadsParts, Zenon
    <2>2. [next EXCEPT !.value = before \o @] = [next EXCEPT !.value = before \o <<n>>]
      BY <2>1, Zenon
    <2> DEFINE after == before \o <<n>>
               one == <<n>>
    <2>3. next = [value |-> one, at |-> at + width]
      BY <1>1 DEF Reads
    <2> HIDE DEF after, one
    <2>4. [next EXCEPT !.value = after] = [value |-> after, at |-> at + width]
      BY <2>3
    <2> QED BY <2>2, <2>4, Zenon DEF after, Reads
  <1> QED BY <1>2, <1>3, <1>4, Zenon

LEMMA GetNumbersExact ==
  ASSUME Sound(buffer), NEW value \in Seq(Int), NEW width \in Nat, width > 0,
         NEW signed \in BOOLEAN, \A i \in 1 .. Len(value) : Fits(value[i], width, signed),
         NEW from, NEW to, RowsIn(View, from, to, EachRow(value, width))
  PROVE  GetNumbers(from, Len(value), width, signed) = Reads(value, to) /\ to \in Nat
  <1> DEFINE n == Len(value)
             rows == EachRow(value, width)
             prefix == [i \in 0 .. n |-> SubSeq(value, 1, i)]
             Gets(f) == f = [i \in 0 .. n |-> IF i = 0 THEN [value |-> <<>>, at |-> from]
                                             ELSE Another(f[i - 1], width, signed)]
             got == CHOOSE f : Gets(f)
  <1>1. n \in Nat /\ \A i \in 1 .. n : value[i] \in Int /\ Fits(value[i], width, signed)
    OBVIOUS
  <1>2. Len(rows) = n /\ \A i \in 1 .. n : rows[i] = ToBytes(value[i], width) /\ Len(rows[i]) = width
    <2>1. \A i \in 1 .. n : Len(ToBytes(value[i], width)) = width
      BY <1>1, ToBytesType
    <2> QED BY <2>1, EachRowExact
  <1>3. PICK off : RowsAt(View, off, rows) /\ off[0] = from /\ off[n] = to
    BY <1>2 DEF RowsIn
  <1>4. /\ off \in [0 .. n -> Nat]
        /\ \A i \in 1 .. n : /\ off[i] = off[i - 1] + width
                             /\ RowIn(View, off[i - 1], ToBytes(value[i], width))
    <2> HIDE DEF rows, n
    <2> QED BY <1>2, <1>3 DEF RowsAt
  <1>5. /\ prefix[0] = <<>> /\ prefix[n] = value
        /\ \A i \in 1 .. n : prefix[i] = prefix[i - 1] \o <<value[i]>>
    <2>1. SubSeq(value, 1, 0) = <<>> /\ SubSeq(value, 1, n) = value
      OBVIOUS
    <2>2. \A i \in 1 .. n : SubSeq(value, 1, i) = SubSeq(value, 1, i - 1) \o <<value[i]>>
      OBVIOUS
    <2>3. \A i \in 1 .. n : i \in 0 .. n /\ i - 1 \in 0 .. n
      BY <1>1
    <2>4. 0 \in 0 .. n /\ n \in 0 .. n
      BY <1>1
    <2> QED BY <2>1, <2>2, <2>3, <2>4
  <1> HIDE DEF prefix
  <1>6. ASSUME NEW i \in 1 .. n
        PROVE  Reads(prefix[i], off[i]) = Another(Reads(prefix[i - 1], off[i - 1]), width, signed)
    <2>1. off[i - 1] \in Nat /\ value[i] \in Int /\ Fits(value[i], width, signed)
      <3> HIDE DEF n, rows
      <3>1. i - 1 \in 0 .. n
        BY <1>1
      <3>2. off[i - 1] \in Nat
        BY <1>4, <3>1
      <3> QED BY <1>1, <3>2
    <2>2. RowIn(View, off[i - 1], ToBytes(value[i], width))
      BY <1>4
    <2>3. Another(Reads(prefix[i - 1], off[i - 1]), width, signed) =
            Reads(prefix[i - 1] \o <<value[i]>>, off[i - 1] + width)
      BY <2>1, <2>2, AnotherExact, Zenon
    <2> QED BY <1>4, <1>5, <2>3
  <1>7. Reads(prefix[0], off[0]) = [value |-> <<>>, at |-> from]
    BY <1>3, <1>5 DEF Reads
  <1> HIDE DEF n
  <1>8. Gets([i \in 0 .. n |-> Reads(prefix[i], off[i])])
    <2> DEFINE f == [i \in 0 .. n |-> Reads(prefix[i], off[i])]
    <2>1. \A i \in 1 .. n : f[i - 1] = Reads(prefix[i - 1], off[i - 1])
      BY <1>1
    <2>2. \A i \in 0 .. n : f[i] = IF i = 0 THEN [value |-> <<>>, at |-> from]
                                   ELSE Another(f[i - 1], width, signed)
      <3>1. \A i \in 0 .. n : f[i] = Reads(prefix[i], off[i])
        OBVIOUS
      <3>2. \A i \in 0 .. n : i # 0 => i \in 1 .. n
        BY <1>1
      <3> HIDE DEF f
      <3> QED BY <1>6, <1>7, <2>1, <3>1, <3>2, Zenon
    <2>3. f = [i \in 0 .. n |-> f[i]]
      OBVIOUS
    <2> HIDE DEF f
    <2>4. Gets(f)
      BY <2>2, <2>3
    <2> QED BY <2>4 DEF f
  <1>9. Gets(got)
    <2> HIDE DEF Gets
    <2> QED BY <1>8
  <1>10. /\ got[0] = Reads(prefix[0], off[0])
         /\ \A i \in 1 .. n : got[i] = Another(got[i - 1], width, signed)
    <2>1. 0 \in 0 .. n /\ \A i \in 1 .. n : i \in 0 .. n /\ i # 0
      BY <1>1
    <2> HIDE DEF got
    <2> QED BY <1>7, <1>9, <2>1
  <1> DEFINE T == {k \in Nat : k <= n => got[k] = Reads(prefix[k], off[k])}
  <1>11. GetNumbers(from, n, width, signed) = got[n]
    BY DEF GetNumbers, Another
  <1> HIDE DEF got
  <1>12. Nat \subseteq T
    <2>1. 0 \in T
      BY <1>10
    <2>2. ASSUME NEW k \in Nat, k \in T PROVE k + 1 \in T
      <3>1. SUFFICES ASSUME k + 1 <= n PROVE got[k + 1] = Reads(prefix[k + 1], off[k + 1])
        OBVIOUS
      <3>2. k + 1 \in 1 .. n /\ (k + 1) - 1 = k /\ got[k] = Reads(prefix[k], off[k])
        BY <1>1, <2>2, <3>1
      <3> QED BY <1>6, <1>10, <3>2
    <2> HIDE DEF T
    <2> QED BY <2>1, <2>2, NatSetInduction
  <1>13. got[n] = Reads(prefix[n], off[n])
    BY <1>1, <1>12
  <1>14. to \in Nat
    BY <1>1, <1>3, <1>4
  <1> QED BY <1>3, <1>5, <1>11, <1>13, <1>14 DEF n

-----------------------------------------------------------------------------
\* What the reader of an item's shape gives back for it.
Expected(item) ==
  IF item.type = "sentinel" /\ item.value = <<NullValue>> THEN <<>> ELSE item.value

RowsByType(item) ==
  /\ item.type = "number" => Rows(item) = EachRow(item.value, item.width)
  /\ item.type = "bytes" => Rows(item) = <<item.value>>
  /\ item.type = "string" => Rows(item) = LengthRows(Len(item.value)) \o <<item.value>>
  /\ item.type = "array" =>
       Rows(item) = LengthRows(Len(item.value)) \o EachRow(item.value, item.width)
  /\ item.type = "nullable" =>
       Rows(item) = <<ToBytes(Len(item.value), 1)>> \o EachRow(item.value, item.width)
  /\ item.type = "sentinel" =>
       Rows(item) = EachRow(IF item.value = <<>> THEN <<NullValue>> ELSE item.value, item.width)

LEMMA RowsOfTypes ==
  ASSUME NEW item
  PROVE  RowsByType(item)
  <1>1. item.type = "number" => Rows(item) = EachRow(item.value, item.width)
    BY DEF Rows, EachRow
  <1>2. item.type = "bytes" => Rows(item) = <<item.value>>
    BY DEF Rows
  <1>3. item.type = "string" => Rows(item) = LengthRows(Len(item.value)) \o <<item.value>>
    BY DEF Rows
  <1>4. item.type = "array" =>
          Rows(item) = LengthRows(Len(item.value)) \o EachRow(item.value, item.width)
    BY DEF Rows, EachRow
  <1>5. item.type = "nullable" =>
          Rows(item) = <<ToBytes(Len(item.value), 1)>> \o EachRow(item.value, item.width)
    BY DEF Rows, EachRow
  <1>6. item.type = "sentinel" =>
          Rows(item) = EachRow(IF item.value = <<>> THEN <<NullValue>> ELSE item.value, item.width)
    BY DEF Rows, EachRow
  <1> QED BY <1>1, <1>2, <1>3, <1>4, <1>5, <1>6 DEF RowsByType

LEMMA ItemFacts ==
  ASSUME NEW item, WellFormed(item)
  PROVE  /\ item.width \in Nat /\ item.signed \in BOOLEAN /\ item.value \in Seq(Int)
         /\ Len(item.value) \in Nat
         /\ item.type # "string" => item.width > 0
  BY DEF WellFormed

LEMMA RowsJoin ==
  ASSUME NEW rows \in Seq(Seq(Byte)), NEW more \in Seq(Seq(Byte))
  PROVE  rows \o more \in Seq(Seq(Byte))
  OBVIOUS

LEMMA OneRow ==
  ASSUME NEW row \in Seq(Byte)
  PROVE  <<row>> \in Seq(Seq(Byte))
  OBVIOUS

LEMMA RowsExact ==
  ASSUME NEW item, WellFormed(item)
  PROVE  Rows(item) \in Seq(Seq(Byte))
  <1>1. /\ item.width \in Nat /\ item.value \in Seq(Int) /\ Len(item.value) \in Nat
        /\ NullValue \in Int
    BY ItemFacts, BufferAssumption DEF BufferAssumption
  <1>2. EachRow(item.value, item.width) \in Seq(Seq(Byte))
    BY <1>1, EachRowExact
  <1>3. LengthRows(Len(item.value)) \in Seq(Seq(Byte))
    BY <1>1, LengthRowsExact
  <1>4. ToBytes(Len(item.value), 1) \in Seq(Byte)
    <2>1. Len(item.value) \in Int /\ 1 \in Nat
      BY <1>1
    <2> QED BY <2>1, ToBytesType
  <1>5. EachRow(IF item.value = <<>> THEN <<NullValue>> ELSE item.value, item.width) \in Seq(Seq(Byte))
    <2>1. (IF item.value = <<>> THEN <<NullValue>> ELSE item.value) \in Seq(Int)
      BY <1>1
    <2> QED BY <1>1, <2>1, EachRowExact
  <1>6. RowsByType(item)
    BY RowsOfTypes
  <1>7. CASE item.type = "number"
    BY <1>2, <1>6, <1>7 DEF RowsByType
  <1>8. CASE item.type = "bytes"
    <2>1. item.value \in Seq(Byte)
      BY <1>8 DEF WellFormed
    <2> QED BY <1>6, <1>8, <2>1, OneRow DEF RowsByType
  <1>9. CASE item.type = "string"
    <2>1. <<item.value>> \in Seq(Seq(Byte))
      BY <1>9, OneRow DEF WellFormed
    <2> QED BY <1>3, <1>6, <1>9, <2>1, RowsJoin DEF RowsByType
  <1>10. CASE item.type = "array"
    BY <1>2, <1>3, <1>6, <1>10, RowsJoin DEF RowsByType
  <1>11. CASE item.type = "nullable"
    <2>1. <<ToBytes(Len(item.value), 1)>> \in Seq(Seq(Byte))
      BY <1>4, OneRow
    <2> QED BY <1>2, <1>6, <1>11, <2>1, RowsJoin DEF RowsByType
  <1>12. CASE item.type = "sentinel"
    BY <1>5, <1>6, <1>12 DEF RowsByType
  <1> QED BY <1>7, <1>8, <1>9, <1>10, <1>11, <1>12 DEF WellFormed

LEMMA GetOneExact ==
  ASSUME Sound(buffer), NEW n \in Int, NEW width \in Nat, width > 0,
         NEW signed \in BOOLEAN, Fits(n, width, signed),
         NEW from, NEW to, RowsIn(View, from, to, EachRow(<<n>>, width))
  PROVE  GetNumber(from, width, signed) = Reads(<<n>>, to) /\ to \in Nat /\ from \in Nat
  <1>1. EachRow(<<n>>, width) = <<ToBytes(n, width)>>
    BY DEF EachRow
  <1>2. ToBytes(n, width) \in Seq(Byte) /\ Len(ToBytes(n, width)) = width
    BY ToBytesType
  <1>3. RowFrom(View, from, to, ToBytes(n, width))
    BY <1>1, <1>2, RowsInOne
  <1>4. from \in Nat /\ RowIn(View, from, ToBytes(n, width)) /\ to = from + width
    BY <1>2, <1>3 DEF RowFrom
  <1>5. GetNumber(from, width, signed) = Reads(<<n>>, from + width)
    BY <1>4, GetNumberExact, Zenon
  <1> QED BY <1>4, <1>5

LEMMA NoRows ==
  ASSUME NEW s, NEW from, NEW to, NEW rows, Len(rows) = 0, RowsIn(s, from, to, rows)
  PROVE  from = to /\ to \in Nat
  BY DEF RowsIn, RowsAt

LEMMA OneValue ==
  ASSUME NEW value \in Seq(Int), Len(value) = 1
  PROVE  value = <<value[1]>> /\ value[1] \in Int /\ value # <<>>
  OBVIOUS

LEMMA NoValue ==
  ASSUME NEW value \in Seq(Int), Len(value) = 0
  PROVE  value = <<>>
  OBVIOUS

-----------------------------------------------------------------------------
\* Where an item's rows lie, its reader finds what is expected and goes on behind.
GetsBack(item, from, to) ==
  Get(from, item) = Reads(Expected(item), to) /\ to \in Nat

LEMMA GetNumberItem ==
  ASSUME Sound(buffer), NEW item, WellFormed(item), item.type = "number",
         NEW from, NEW to, RowsIn(View, from, to, Rows(item))
  PROVE  GetsBack(item, from, to)
  <1>1. /\ item.width \in Nat /\ item.width > 0 /\ item.signed \in BOOLEAN
        /\ item.value \in Seq(Int) /\ Len(item.value) = 1 /\ FitsAll(item.value, item)
    BY DEF WellFormed
  <1>2. PICK n \in Int : item.value = <<n>> /\ n = item.value[1]
    BY <1>1, OneValue
  <1>3. Fits(n, item.width, item.signed)
    BY <1>1, <1>2 DEF FitsAll
  <1>4. RowsIn(View, from, to, EachRow(<<n>>, item.width))
    BY <1>2, RowsOfTypes DEF RowsByType
  <1>5. GetNumber(from, item.width, item.signed) = Reads(<<n>>, to) /\ to \in Nat
    BY <1>1, <1>3, <1>4, GetOneExact
  <1>6. Get(from, item) = GetNumber(from, item.width, item.signed)
    BY DEF Get
  <1>7. Expected(item) = <<n>>
    BY <1>2 DEF Expected
  <1> QED BY <1>5, <1>6, <1>7, Zenon DEF GetsBack

LEMMA GetBytesItem ==
  ASSUME Sound(buffer), NEW item, WellFormed(item), item.type = "bytes",
         NEW from, NEW to, RowsIn(View, from, to, Rows(item))
  PROVE  GetsBack(item, from, to)
  <1>1. item.value \in Seq(Byte) /\ Len(item.value) = item.width
    BY DEF WellFormed
  <1>2. RowsIn(View, from, to, <<item.value>>)
    BY RowsOfTypes DEF RowsByType
  <1>3. RowFrom(View, from, to, item.value)
    BY <1>1, <1>2, RowsInOne
  <1>4. GetBytes(from, Len(item.value)) = [value |-> item.value, at |-> from + Len(item.value)]
    BY <1>1, <1>3, GetBytesExact DEF RowFrom
  <1>5. GetBytes(from, Len(item.value)) = Reads(item.value, to) /\ to \in Nat
    BY <1>1, <1>3, <1>4 DEF Reads, RowFrom
  <1>6. Get(from, item) = GetBytes(from, item.width)
    BY DEF Get
  <1>7. Expected(item) = item.value
    BY DEF Expected
  <1> QED BY <1>1, <1>5, <1>6, <1>7, Zenon DEF GetsBack

LEMMA GetStringItem ==
  ASSUME Sound(buffer), NEW item, WellFormed(item), item.type = "string",
         NEW from, NEW to, RowsIn(View, from, to, Rows(item))
  PROVE  GetsBack(item, from, to)
  <1> DEFINE n == Len(item.value)
  <1>1. item.value \in Seq(Byte) /\ n \in Nat /\ Fits(n, 4, FALSE)
    <2>1. item.value \in Seq(Byte) /\ Fits(n, 4, FALSE)
      BY Zenon DEF WellFormed
    <2> QED BY <2>1, ItemFacts
  <1>2. RowsIn(View, from, to, LengthRows(n) \o <<item.value>>)
    BY RowsOfTypes DEF RowsByType
  <1>3. PICK mid \in Nat : /\ RowsIn(View, from, mid, LengthRows(n))
                           /\ RowsIn(View, mid, to, <<item.value>>)
    <2>1. LengthRows(n) \in Seq(Seq(Byte)) /\ <<item.value>> \in Seq(Seq(Byte))
      BY <1>1, LengthRowsExact, OneRow
    <2> HIDE DEF n
    <2> QED BY <1>2, <2>1, RowsInSplit
  <1>4. GetLength(from) = Reads(<<n>>, mid)
    <2> HIDE DEF n
    <2> QED BY <1>1, <1>3, GetLengthExact
  <1>5. RowFrom(View, mid, to, item.value)
    BY <1>1, <1>3, RowsInOne
  <1>6. GetBytes(mid, n) = Reads(item.value, to) /\ to \in Nat
    <2>1. GetBytes(mid, n) = [value |-> item.value, at |-> mid + n]
      BY <1>1, <1>5, GetBytesExact DEF RowFrom
    <2> QED BY <1>1, <1>5, <2>1 DEF Reads, RowFrom
  <1>7. Get(from, item) = GetBytes(mid, n)
    <2> DEFINE length == GetLength(from)
    <2>1. Get(from, item) = IF length = Underflow THEN length
                            ELSE GetBytes(length.at, length.value[1])
      BY DEF Get
    <2> HIDE DEF n
    <2>2. length.at = mid /\ length.value = <<n>> /\ <<n>>[1] = n /\ length # Underflow
      <3>1. length.at = mid /\ length.value = <<n>>
        <4>1. length = Reads(<<n>>, mid)
          BY <1>4
        <4> HIDE DEF length
        <4> QED BY <4>1, ReadsParts, Zenon
      <3>2. length # Underflow
        BY <1>4, ReadsSomething, Zenon
      <3>3. <<n>>[1] = n
        OBVIOUS
      <3> QED BY <3>1, <3>2, <3>3
    <2> HIDE DEF length
    <2> QED BY <2>1, <2>2, Zenon
  <1>8. Expected(item) = item.value
    BY DEF Expected
  <1> QED BY <1>6, <1>7, <1>8, Zenon DEF GetsBack

LEMMA GetArrayItem ==
  ASSUME Sound(buffer), NEW item, WellFormed(item), item.type = "array",
         NEW from, NEW to, RowsIn(View, from, to, Rows(item))
  PROVE  GetsBack(item, from, to)
  <1> DEFINE n == Len(item.value)
  <1>1. /\ item.width \in Nat /\ item.width > 0 /\ item.signed \in BOOLEAN
        /\ item.value \in Seq(Int) /\ n \in Nat /\ Fits(n, 4, FALSE)
        /\ \A i \in 1 .. n : Fits(item.value[i], item.width, item.signed)
    <2>1. FitsAll(item.value, item) /\ Fits(n, 4, FALSE)
      BY Zenon DEF WellFormed
    <2>2. \A i \in 1 .. n : Fits(item.value[i], item.width, item.signed)
      BY <2>1, Zenon DEF FitsAll
    <2>3. item.type # "string"
      OBVIOUS
    <2> QED BY <2>1, <2>2, <2>3, ItemFacts, Zenon
  <1>2. RowsIn(View, from, to, LengthRows(n) \o EachRow(item.value, item.width))
    BY RowsOfTypes DEF RowsByType
  <1>3. PICK mid \in Nat : /\ RowsIn(View, from, mid, LengthRows(n))
                           /\ RowsIn(View, mid, to, EachRow(item.value, item.width))
    <2>1. LengthRows(n) \in Seq(Seq(Byte)) /\ EachRow(item.value, item.width) \in Seq(Seq(Byte))
      BY <1>1, LengthRowsExact, EachRowExact
    <2> HIDE DEF n
    <2> QED BY <1>2, <2>1, RowsInSplit
  <1>4. GetLength(from) = Reads(<<n>>, mid)
    <2> HIDE DEF n
    <2> QED BY <1>1, <1>3, GetLengthExact
  <1>5. GetNumbers(mid, n, item.width, item.signed) = Reads(item.value, to) /\ to \in Nat
    BY <1>1, <1>3, GetNumbersExact
  <1>6. Get(from, item) = GetNumbers(mid, n, item.width, item.signed)
    <2> DEFINE length == GetLength(from)
    <2>1. Get(from, item) = IF length = Underflow THEN length
                            ELSE GetNumbers(length.at, length.value[1], item.width, item.signed)
      BY DEF Get
    <2> HIDE DEF n
    <2>2. length.at = mid /\ length.value = <<n>> /\ <<n>>[1] = n /\ length # Underflow
      <3>1. length.at = mid /\ length.value = <<n>>
        <4>1. length = Reads(<<n>>, mid)
          BY <1>4
        <4> HIDE DEF length
        <4> QED BY <4>1, ReadsParts, Zenon
      <3>2. length # Underflow
        BY <1>4, ReadsSomething, Zenon
      <3>3. <<n>>[1] = n
        OBVIOUS
      <3> QED BY <3>1, <3>2, <3>3
    <2> HIDE DEF length
    <2> QED BY <2>1, <2>2, Zenon
  <1>7. Expected(item) = item.value
    BY DEF Expected
  <1> QED BY <1>5, <1>6, <1>7, Zenon DEF GetsBack

LEMMA GetNullableItem ==
  ASSUME Sound(buffer), NEW item, WellFormed(item), item.type = "nullable",
         NEW from, NEW to, RowsIn(View, from, to, Rows(item))
  PROVE  GetsBack(item, from, to)
  <1> DEFINE n == Len(item.value)
             flag == GetNumber(from, 1, FALSE)
             none == [flag EXCEPT !.value = <<>>]
  <1>1. /\ item.width \in Nat /\ item.width > 0 /\ item.signed \in BOOLEAN
        /\ item.value \in Seq(Int) /\ n \in 0 .. 1 /\ FitsAll(item.value, item)
    <2>1. n <= 1 /\ FitsAll(item.value, item)
      BY Zenon DEF WellFormed
    <2>2. n \in Nat /\ item.type # "string"
      BY ItemFacts
    <2> HIDE DEF n
    <2> QED BY <2>1, <2>2, ItemFacts
  <1>2. RowsIn(View, from, to, <<ToBytes(n, 1)>> \o EachRow(item.value, item.width))
    BY RowsOfTypes DEF RowsByType
  <1>3. n \in Byte /\ n \in Int /\ 1 \in Nat /\ 1 > 0 /\ FALSE \in BOOLEAN
    <2> HIDE DEF n
    <2>1. Base \in Nat /\ Base > 1
      BY BufferAssumption DEF BufferAssumption
    <2> QED BY <1>1, <2>1 DEF Byte
  <1>4. PICK mid \in Nat : /\ RowsIn(View, from, mid, <<ToBytes(n, 1)>>)
                           /\ RowsIn(View, mid, to, EachRow(item.value, item.width))
    <2>1. <<ToBytes(n, 1)>> \in Seq(Seq(Byte)) /\ EachRow(item.value, item.width) \in Seq(Seq(Byte))
      BY <1>1, <1>3, ToBytesType, OneRow, EachRowExact
    <2> HIDE DEF n
    <2> QED BY <1>2, <2>1, RowsInSplit
  <1>5. flag = Reads(<<n>>, mid)
    <2>1. EachRow(<<n>>, 1) = <<ToBytes(n, 1)>>
      BY DEF EachRow
    <2>2. Fits(n, 1, FALSE)
      BY <1>3, ByteFits
    <2> HIDE DEF n
    <2>3. RowsIn(View, from, mid, EachRow(<<n>>, 1))
      BY <1>4, <2>1, Zenon
    <2> QED BY <1>3, <2>2, <2>3, GetOneExact, Zenon
  <1>6. Get(from, item) = IF flag.value = <<0>> THEN none
                          ELSE GetNumber(flag.at, item.width, item.signed)
    BY DEF Get
  <1> HIDE DEF none, flag
  <1>7. flag.value = <<n>> /\ flag.at = mid
    BY <1>5, ReadsParts, Zenon
  <1>8. Expected(item) = item.value
    BY DEF Expected
  <1>9. CASE n = 0
    <2>1. item.value = <<>>
      BY <1>1, <1>9, NoValue
    <2>2. Len(EachRow(item.value, item.width)) = 0
      BY <1>1, <1>9, EachRowExact
    <2>3. mid = to /\ to \in Nat
      BY <1>4, <2>2, NoRows
    <2>4. none = Reads(<<>>, mid)
      <3> HIDE DEF n
      <3> QED BY <1>5 DEF none, Reads
    <2> QED BY <1>6, <1>7, <1>8, <1>9, <2>1, <2>3, <2>4, Zenon DEF GetsBack
  <1>10. CASE n = 1
    <2>1. PICK v \in Int : item.value = <<v>> /\ v = item.value[1]
      BY <1>1, <1>10, OneValue
    <2>2. Fits(v, item.width, item.signed)
      BY <1>1, <1>10, <2>1 DEF FitsAll
    <2>3. RowsIn(View, mid, to, EachRow(<<v>>, item.width))
      BY <1>4, <2>1
    <2>4. GetNumber(mid, item.width, item.signed) = Reads(<<v>>, to) /\ to \in Nat
      BY <1>1, <2>2, <2>3, GetOneExact
    <2>5. <<n>> # <<0>>
      BY <1>10
    <2> QED BY <1>6, <1>7, <1>8, <2>1, <2>4, <2>5, Zenon DEF GetsBack
  <1> QED BY <1>1, <1>9, <1>10

LEMMA GetSentinelItem ==
  ASSUME Sound(buffer), NEW item, WellFormed(item), item.type = "sentinel",
         NEW from, NEW to, RowsIn(View, from, to, Rows(item))
  PROVE  GetsBack(item, from, to)
  <1> DEFINE number == GetNumber(from, item.width, item.signed)
             none == [number EXCEPT !.value = <<>>]
  <1>1. /\ item.width \in Nat /\ item.width > 0 /\ item.signed \in BOOLEAN
        /\ item.value \in Seq(Int) /\ Len(item.value) \in 0 .. 1
        /\ FitsAll(item.value, item) /\ FitsAll(<<NullValue>>, item) /\ NullValue \in Int
    BY BufferAssumption DEF WellFormed, BufferAssumption
  <1>2. PICK n \in Int : /\ (IF item.value = <<>> THEN <<NullValue>> ELSE item.value) = <<n>>
                         /\ Fits(n, item.width, item.signed)
    <2>1. CASE Len(item.value) = 0
      <3>1. item.value = <<>>
        BY <1>1, <2>1, NoValue
      <3>2. Fits(NullValue, item.width, item.signed)
        BY <1>1 DEF FitsAll
      <3> QED BY <1>1, <3>1, <3>2
    <2>2. CASE Len(item.value) = 1
      <3>1. item.value = <<item.value[1]>> /\ item.value[1] \in Int /\ item.value # <<>>
        BY <1>1, <2>2, OneValue
      <3>2. Fits(item.value[1], item.width, item.signed)
        BY <1>1, <2>2 DEF FitsAll
      <3> QED BY <3>1, <3>2
    <2> QED BY <1>1, <2>1, <2>2
  <1>3. RowsIn(View, from, to, EachRow(<<n>>, item.width))
    BY <1>2, RowsOfTypes DEF RowsByType
  <1>4. number = Reads(<<n>>, to) /\ to \in Nat
    BY <1>1, <1>2, <1>3, GetOneExact
  <1>5. Get(from, item) = IF number.value = <<NullValue>> THEN none ELSE number
    BY DEF Get
  <1> HIDE DEF none, number
  <1>6. number.value = <<n>> /\ none = Reads(<<>>, to)
    <2>1. number.value = <<n>>
      BY <1>4, ReadsParts, Zenon
    <2>2. none = Reads(<<>>, to)
      BY <1>4 DEF none, Reads
    <2> QED BY <2>1, <2>2
  <1>7. CASE n = NullValue
    <2>1. Expected(item) = <<>>
      <3>1. <<n>> = <<NullValue>>
        BY <1>7
      <3> QED BY <1>2, <3>1, Zenon DEF Expected
    <2> QED BY <1>4, <1>5, <1>6, <1>7, <2>1, Zenon DEF GetsBack
  <1>8. CASE n # NullValue
    <2>1. <<n>> # <<NullValue>>
      BY <1>8
    <2>2. Expected(item) = <<n>>
      BY <1>2, <2>1, Zenon DEF Expected
    <2> QED BY <1>4, <1>5, <1>6, <2>1, <2>2, Zenon DEF GetsBack
  <1> QED BY <1>7, <1>8

LEMMA GetExact ==
  ASSUME Sound(buffer), NEW item, WellFormed(item),
         NEW from, NEW to, RowsIn(View, from, to, Rows(item))
  PROVE  GetsBack(item, from, to)
  <1>1. item.type \in {"number", "bytes", "string", "array", "nullable", "sentinel"}
    BY DEF WellFormed
  <1> QED BY <1>1, GetNumberItem, GetBytesItem, GetStringItem, GetArrayItem, GetNullableItem,
             GetSentinelItem

\* Behind the last byte there is nothing to read.
LEMMA GetNothing ==
  ASSUME Sound(buffer), NEW item, WellFormed(item)
  PROVE  Get(buffer.view, item) = Underflow
  <1>1. buffer.view \in Nat
    BY DEF Sound, Buffers
  <1>2. ASSUME NEW n \in Nat, n > 0 PROVE GetBytes(buffer.view, n) = Underflow
    BY <1>1, <1>2 DEF GetBytes
  <1>3. ASSUME NEW n \in Nat, n > 0, NEW signed
        PROVE  GetNumber(buffer.view, n, signed) = Underflow
    BY <1>2, <1>3 DEF GetNumber
  <1>4. Underflow.value = <<>> /\ Underflow.at = -1
    BY DEF Underflow
  <1>5. ASSUME NEW n, NEW signed PROVE GetNumber(-1, n, signed) = Underflow
    <2>1. GetBytes(-1, n) = Underflow
      BY DEF GetBytes
    <2> QED BY <2>1 DEF GetNumber
  <1>6. GetNumber(buffer.view, 1, FALSE) = Underflow
    <2>1. 1 \in Nat /\ 1 > 0
      OBVIOUS
    <2> QED BY <1>3, <2>1, Zenon
  <1>7. ASSUME NEW n PROVE <<>> # <<n>>
    OBVIOUS
  <1>8. GetLength(buffer.view) = Underflow
    BY <1>4, <1>6, <1>7, Zenon DEF GetLength
  <1>9. item.type # "string" => item.width \in Nat /\ item.width > 0
    BY DEF WellFormed
  <1>10. CASE item.type = "number"
    <2>1. Get(buffer.view, item) = GetNumber(buffer.view, item.width, item.signed)
      BY <1>10 DEF Get
    <2> QED BY <1>3, <1>9, <1>10, <2>1
  <1>11. CASE item.type = "bytes"
    <2>1. Get(buffer.view, item) = GetBytes(buffer.view, item.width)
      BY <1>11 DEF Get
    <2> QED BY <1>2, <1>9, <1>11, <2>1
  <1>12. CASE item.type = "string" \/ item.type = "array"
    <2>1. GetLength(buffer.view) = Underflow => Get(buffer.view, item) = Underflow
      BY <1>12 DEF Get
    <2> QED BY <1>8, <2>1
  <1>13. CASE item.type = "nullable"
    <2> DEFINE flag == GetNumber(buffer.view, 1, FALSE)
    <2>1. Get(buffer.view, item) = IF flag.value = <<0>> THEN [flag EXCEPT !.value = <<>>]
                                   ELSE GetNumber(flag.at, item.width, item.signed)
      BY <1>13 DEF Get
    <2>2. flag.value # <<0>> /\ flag.at = -1
      BY <1>4, <1>6, <1>7, Zenon
    <2>3. GetNumber(flag.at, item.width, item.signed) = Underflow
      BY <1>5, <2>2, Zenon
    <2> HIDE DEF flag
    <2> QED BY <2>1, <2>2, <2>3, Zenon
  <1>14. CASE item.type = "sentinel"
    <2> DEFINE number == GetNumber(buffer.view, item.width, item.signed)
    <2>1. Get(buffer.view, item) = IF number.value = <<NullValue>>
                                   THEN [number EXCEPT !.value = <<>>] ELSE number
      BY <1>14 DEF Get
    <2>2. number = Underflow
      BY <1>3, <1>9, <1>14
    <2> HIDE DEF number
    <2>3. number.value # <<NullValue>>
      BY <1>4, <1>7, <2>2, Zenon
    <2> QED BY <2>1, <2>2, <2>3, Zenon
  <1> QED BY <1>10, <1>11, <1>12, <1>13, <1>14 DEF WellFormed

-----------------------------------------------------------------------------
\* s goes on in t.
GoesOnIn(s, t) ==
  /\ s \in Seq(Byte) /\ t \in Seq(Byte) /\ Len(s) <= Len(t)
  /\ \A x \in 1 .. Len(s) : t[x] = s[x]

LEMMA RowsStay ==
  ASSUME NEW s, NEW t, GoesOnIn(s, t), NEW rows \in Seq(Seq(Byte)), NEW from, NEW to,
         RowsIn(s, from, to, rows)
  PROVE  RowsIn(t, from, to, rows)
  <1>1. PICK off : RowsAt(s, off, rows) /\ off[0] = from /\ off[Len(rows)] = to
    BY DEF RowsIn
  <1> DEFINE n == Len(rows)
  <1>2. n \in Nat /\ \A j \in 1 .. n : rows[j] \in Seq(Byte) /\ Len(rows[j]) \in Nat
    OBVIOUS
  <1>3. /\ off \in [0 .. n -> Nat]
        /\ \A j \in 1 .. n : off[j] = off[j - 1] + Len(rows[j]) /\ RowIn(s, off[j - 1], rows[j])
    BY <1>1 DEF RowsAt
  <1> HIDE DEF n
  <1>4. ASSUME NEW j \in 1 .. n PROVE RowIn(t, off[j - 1], rows[j])
    <2>1. off[j - 1] \in Nat /\ Len(rows[j]) \in Nat
      BY <1>2, <1>3
    <2>2. off[j - 1] + Len(rows[j]) <= Len(s) /\ \A x \in 1 .. Len(rows[j]) : s[off[j - 1] + x] = rows[j][x]
      BY <1>3 DEF RowIn
    <2>3. Len(s) \in Nat /\ Len(t) \in Nat /\ Len(s) <= Len(t) /\ \A x \in 1 .. Len(s) : t[x] = s[x]
      BY DEF GoesOnIn
    <2>4. ASSUME NEW x \in 1 .. Len(rows[j]) PROVE t[off[j - 1] + x] = rows[j][x]
      <3>1. off[j - 1] + x \in 1 .. Len(s)
        <4>1. off[j - 1] + Len(rows[j]) <= Len(s) /\ Len(s) \in Nat
          BY <2>2, <2>3
        <4> QED BY <2>1, <4>1
      <3> QED BY <2>2, <2>3, <3>1
    <2>5. off[j - 1] + Len(rows[j]) <= Len(t)
      BY <2>1, <2>2, <2>3
    <2> QED BY <2>4, <2>5 DEF RowIn
  <1>5. RowsAt(t, off, rows)
    BY <1>3, <1>4 DEF RowsAt, n
  <1> QED BY <1>1, <1>5 DEF RowsIn

\* The rows of the items lie in s one after the other and fill it: ends says where.
Lies(s, ends, all) ==
  /\ ends \in [0 .. Len(all) -> 0 .. Len(s)]
  /\ ends[0] = 0 /\ ends[Len(all)] = Len(s)
  /\ \A i \in 1 .. Len(all) : RowsIn(s, ends[i - 1], ends[i], all[i])

LEMMA LiesMore ==
  ASSUME NEW s, NEW t, GoesOnIn(s, t), NEW all \in Seq(Seq(Seq(Byte))), NEW ends, Lies(s, ends, all),
         NEW rows \in Seq(Seq(Byte)), RowsIn(t, Len(s), Len(t), rows)
  PROVE  \E longer : Lies(t, longer, Append(all, rows))
  <1> DEFINE n == Len(all)
             new == Append(all, rows)
             longer == [i \in 0 .. n + 1 |-> IF i = n + 1 THEN Len(t) ELSE ends[i]]
  <1>1. /\ n \in Nat /\ Len(new) = n + 1 /\ new[n + 1] = rows
        /\ \A i \in 1 .. n : new[i] = all[i] /\ all[i] \in Seq(Seq(Byte))
    OBVIOUS
  <1>2. Len(s) \in Nat /\ Len(t) \in Nat /\ Len(s) <= Len(t)
    BY DEF GoesOnIn
  <1>3. /\ ends \in [0 .. n -> 0 .. Len(s)] /\ ends[0] = 0 /\ ends[n] = Len(s)
        /\ \A i \in 1 .. n : RowsIn(s, ends[i - 1], ends[i], all[i])
    BY DEF Lies
  <1> HIDE DEF n, new
  <1>4. /\ longer \in [0 .. n + 1 -> 0 .. Len(t)]
        /\ longer[0] = 0 /\ longer[n + 1] = Len(t) /\ longer[n] = Len(s)
        /\ \A i \in 1 .. n : longer[i] = ends[i] /\ longer[i - 1] = ends[i - 1]
    <2>1. ASSUME NEW i \in 0 .. n PROVE ends[i] \in 0 .. Len(t)
      <3>1. ends[i] \in 0 .. Len(s)
        BY <1>3
      <3> QED BY <1>2, <3>1
    <2> QED BY <1>1, <1>2, <1>3, <2>1
  <1> HIDE DEF longer
  <1>5. ASSUME NEW i \in 1 .. n + 1 PROVE RowsIn(t, longer[i - 1], longer[i], new[i])
    <2>1. CASE i = n + 1
      <3>1. i - 1 = n
        BY <1>1, <2>1
      <3> QED BY <1>1, <1>4, <2>1, <3>1
    <2>2. CASE i # n + 1
      <3>1. i \in 1 .. n
        BY <1>1, <2>2
      <3>2. RowsIn(t, ends[i - 1], ends[i], all[i])
        BY <1>1, <1>3, <3>1, RowsStay
      <3> QED BY <1>1, <1>4, <3>1, <3>2
    <2> QED BY <2>1, <2>2
  <1>6. Lies(t, longer, new)
    BY <1>1, <1>4, <1>5 DEF Lies
  <1> QED BY <1>6 DEF new

-----------------------------------------------------------------------------
LEMMA AppendIs ==
  ASSUME NEW S, NEW s \in Seq(S), NEW e
  PROVE  Append(s, e) = [i \in 1 .. Len(s) + 1 |-> IF i = Len(s) + 1 THEN e ELSE s[i]]
  <1> DEFINE a == Append(s, e)
  <1>1. /\ a \in Seq(S \cup {e}) /\ Len(a) = Len(s) + 1 /\ Len(s) \in Nat
        /\ \A i \in 1 .. Len(s) + 1 : a[i] = IF i = Len(s) + 1 THEN e ELSE s[i]
    OBVIOUS
  <1> HIDE DEF a
  <1>2. a = [i \in 1 .. Len(s) + 1 |-> a[i]]
    BY <1>1
  <1>3. a = [i \in 1 .. Len(s) + 1 |-> IF i = Len(s) + 1 THEN e ELSE s[i]]
    BY <1>1, <1>2
  <1> QED BY <1>3 DEF a

\* What was written, as the rows of each item.
Layout == [i \in 1 .. Len(items) |-> Rows(items[i])]

LEMMA LayoutExact ==
  ASSUME items \in Seq(Items)
  PROVE  /\ Layout \in Seq(Seq(Seq(Byte))) /\ Len(Layout) = Len(items)
         /\ \A i \in 1 .. Len(items) : /\ items[i] \in Items /\ WellFormed(items[i])
                                       /\ Layout[i] = Rows(items[i])
  <1>1. \A i \in 1 .. Len(items) : items[i] \in Items
    OBVIOUS
  <1>2. \A i \in 1 .. Len(items) : WellFormed(items[i])
    BY <1>1, BufferAssumption DEF BufferAssumption
  <1>3. \A i \in 1 .. Len(items) : Rows(items[i]) \in Seq(Seq(Byte))
    BY <1>2, RowsExact
  <1>4. Layout \in Seq(Seq(Seq(Byte))) /\ Len(Layout) = Len(items)
    BY <1>3 DEF Layout
  <1>5. \A i \in 1 .. Len(items) : Layout[i] = Rows(items[i])
    BY DEF Layout
  <1> QED BY <1>1, <1>2, <1>4, <1>5

\* While the byte order stays, an item is written as the same bytes.
LEMMA RowsKept ==
  ASSUME endian' = endian
  PROVE  \A item : Rows(item)' = Rows(item)
  <1>1. \A row : Ordered(row)' = Ordered(row)
    BY DEF Ordered
  <1>2. \A n, width : ToBytes(n, width)' = ToBytes(n, width)
    BY <1>1 DEF ToBytes
  <1>3. \A n : LengthRows(n)' = LengthRows(n)
    BY <1>2 DEF LengthRows
  <1>4. \A value, width : EachRow(value, width)' = EachRow(value, width)
    BY <1>2 DEF EachRow
  <1> QED BY <1>2, <1>3, <1>4 DEF Rows, EachRow

LEMMA LayoutKept ==
  ASSUME UNCHANGED <<endian, items>>
  PROVE  Layout' = Layout
  BY RowsKept DEF Layout

\* What was read of it, up to the offset.
ReadTo(ends) ==
  /\ found \in Seq(Seq(Int)) /\ Len(found) <= Len(items)
  /\ buffer.offset = ends[Len(found)]
  /\ \A i \in 1 .. Len(found) : found[i] = Expected(items[i])
  /\ mode = "thrown" => Len(found) = Len(items)

BufferInv ==
  /\ Sound(buffer) /\ endian \in BOOLEAN /\ items \in Seq(Items)
  /\ mode \in {"write", "read", "thrown"}
  /\ mode = "write" => /\ buffer.start = 0 /\ found = <<>>
                       /\ \E ends : Lies(ToArray(buffer), ends, Layout)
  /\ mode # "write" => \E ends : Lies(View, ends, Layout) /\ ReadTo(ends)

LEMMA BufferStarts == BufferInit => BufferInv
  <1> SUFFICES ASSUME BufferInit PROVE BufferInv
    OBVIOUS
  <1>1. PICK length \in Lengths :
          buffer = [memory |-> ByteRow(length), start |-> 0, view |-> length, offset |-> 0]
    BY DEF BufferInit
  <1>2. length \in Nat
    BY BufferAssumption DEF BufferAssumption
  <1>3. ByteRow(length) \in Seq(Byte) /\ Len(ByteRow(length)) = length
    BY <1>2, ByteRowExact
  <1>4. Sound(buffer) /\ buffer.start = 0 /\ buffer.offset = 0
    BY <1>1, <1>2, <1>3 DEF Sound, Buffers
  <1>5. Len(ToArray(buffer)) = 0
    BY <1>4, ToArrayExact
  <1>6. items = <<>> /\ found = <<>> /\ mode = "write" /\ endian \in BOOLEAN
    BY DEF BufferInit
  <1>7. Len(Layout) = 0
    BY <1>6 DEF Layout
  <1>8. Lies(ToArray(buffer), [i \in 0 .. 0 |-> 0], Layout)
    BY <1>5, <1>7 DEF Lies
  <1> QED BY <1>4, <1>6, <1>8 DEF BufferInv

LEMMA WriteKeeps ==
  ASSUME BufferInv, NEW item \in Items, WriteItem(item)
  PROVE  BufferInv'
  <1>1. /\ mode = "write" /\ items' = Append(items, item)
        /\ buffer' = PutRows(buffer, Rows(item)) /\ UNCHANGED <<endian, found, mode>>
    BY DEF WriteItem
  <1>2. /\ Sound(buffer) /\ buffer.start = 0 /\ found = <<>> /\ items \in Seq(Items)
        /\ endian \in BOOLEAN
    BY <1>1 DEF BufferInv
  <1>3. PICK ends : Lies(ToArray(buffer), ends, Layout)
    BY <1>1 DEF BufferInv
  <1>4. WellFormed(item)
    BY BufferAssumption DEF BufferAssumption
  <1>5. Rows(item) \in Seq(Seq(Byte))
    BY <1>4, RowsExact
  <1>6. PICK b, c, rows : b = buffer /\ c = buffer' /\ rows = Rows(item)
    OBVIOUS
  <1>7. Extends(b, c) /\ RowsIn(ToArray(c), b.offset, c.offset, rows)
    BY <1>1, <1>2, <1>5, <1>6, PutRowsExact
  <1>8. GoesOnIn(ToArray(b), ToArray(c)) /\ Len(ToArray(b)) = b.offset /\ Len(ToArray(c)) = c.offset
    <2>1. Sound(b) /\ b.start = 0 /\ Sound(c) /\ c.start = 0 /\ b.offset <= c.offset
      BY <1>7 DEF Extends
    <2>2. b.offset \in Nat /\ c.offset \in Nat
      BY <2>1 DEF Sound, Buffers
    <2>3. /\ ToArray(b) \in Seq(Byte) /\ Len(ToArray(b)) = b.offset
          /\ ToArray(c) \in Seq(Byte) /\ Len(ToArray(c)) = c.offset
      BY <2>1, ToArrayExact
    <2>4. \A x \in 1 .. b.offset : ToArray(c)[x] = ToArray(b)[x]
      <3>1. \A x \in 1 .. b.offset : ToArray(b)[x] = b.memory[x]
        BY <2>1, ToArrayCells
      <3>2. \A x \in 1 .. c.offset : ToArray(c)[x] = c.memory[x]
        BY <2>1, ToArrayCells
      <3>3. \A x \in 1 .. b.offset : c.memory[x] = b.memory[x] /\ x \in 1 .. c.offset
        BY <1>7, <2>1, <2>2 DEF Extends
      <3> QED BY <3>1, <3>2, <3>3
    <2> QED BY <2>1, <2>3, <2>4 DEF GoesOnIn
  <1>9. Layout' = Append(Layout, Rows(item))
    <2>1. Layout \in Seq(Seq(Seq(Byte))) /\ Len(Layout) = Len(items) /\ Len(items) \in Nat
      BY <1>2, LayoutExact
    <2>2. Len(items') = Len(items) + 1
      BY <1>1, <1>2
    <2>3. Layout' = [i \in 1 .. Len(items) + 1 |-> Rows(items'[i])]
      <3>1. \A x : Rows(x)' = Rows(x)
        BY <1>1, RowsKept
      <3>2. Layout' = [i \in 1 .. Len(items') |-> Rows(items[i])']
        BY DEF Layout
      <3> QED BY <2>2, <3>1, <3>2
    <2>4. items'[Len(items) + 1] = item /\ \A i \in 1 .. Len(items) : items'[i] = items[i]
      BY <1>1, <1>2
    <2>5. \A i \in 1 .. Len(items) : Layout[i] = Rows(items[i])
      BY DEF Layout
    <2>6. Layout' = [i \in 1 .. Len(items) + 1 |->
                       IF i = Len(items) + 1 THEN Rows(item) ELSE Layout[i]]
      BY <2>1, <2>3, <2>4, <2>5
    <2>7. Append(Layout, Rows(item)) =
            [i \in 1 .. Len(Layout) + 1 |-> IF i = Len(Layout) + 1 THEN Rows(item) ELSE Layout[i]]
      BY <2>1, AppendIs
    <2> QED BY <2>1, <2>6, <2>7
  <1>10. \E longer : Lies(ToArray(c), longer, Layout')
    <2>1. PICK all \in Seq(Seq(Seq(Byte))) : all = Layout
      BY <1>2, LayoutExact
    <2>2. Lies(ToArray(b), ends, all)
      BY <1>3, <1>6, <2>1
    <2>3. rows \in Seq(Seq(Byte)) /\ RowsIn(ToArray(c), Len(ToArray(b)), Len(ToArray(c)), rows)
      BY <1>5, <1>6, <1>7, <1>8
    <2>4. \E longer : Lies(ToArray(c), longer, Append(all, rows))
      BY <1>8, <2>2, <2>3, LiesMore, Zenon
    <2> QED BY <1>6, <1>9, <2>1, <2>4
  <1>11. Sound(buffer') /\ buffer'.start = 0
    BY <1>6, <1>7 DEF Extends
  <1>12. items' \in Seq(Items)
    BY <1>1, <1>2
  <1>13. \E longer : Lies(ToArray(buffer'), longer, Layout')
    BY <1>6, <1>10
  <1> QED BY <1>1, <1>2, <1>11, <1>12, <1>13 DEF BufferInv

LEMMA ShrinkKeeps ==
  ASSUME BufferInv, Shrink
  PROVE  BufferInv'
  <1>1. /\ mode = "write" /\ buffer' = [buffer EXCEPT !.view = buffer.offset]
        /\ UNCHANGED <<endian, items, found, mode>>
    BY DEF Shrink
  <1>2. Sound(buffer) /\ buffer.start = 0
    BY <1>1 DEF BufferInv
  <1>3. /\ buffer'.memory = buffer.memory /\ buffer'.start = 0
        /\ buffer'.offset = buffer.offset /\ buffer'.view = buffer.offset /\ buffer' \in Buffers
    BY <1>1, <1>2 DEF Sound, Buffers
  <1>4. Sound(buffer')
    BY <1>2, <1>3 DEF Sound, Buffers
  <1>5. ToArray(buffer') = ToArray(buffer)
    BY <1>2, <1>3 DEF ToArray
  <1>6. Layout' = Layout
    BY <1>1, LayoutKept
  <1> QED BY <1>1, <1>3, <1>4, <1>5, <1>6 DEF BufferInv

LEMMA SameRow ==
  ASSUME NEW S, NEW r \in Seq(S), NEW s \in Seq(S), Len(r) = Len(s),
         \A x \in 1 .. Len(s) : r[x] = s[x]
  PROVE  r = s
  OBVIOUS

LEMMA SentInPool ==
  ASSUME NEW before \in Seq(Byte), NEW sent \in Seq(Byte), NEW after \in Seq(Byte),
         NEW n \in Nat, n = Len(sent)
  PROVE  /\ before \o sent \o after \in Seq(Byte)
         /\ Len(before \o sent \o after) = Len(before) + n + Len(after)
         /\ SubSeq(before \o sent \o after, Len(before) + 1, Len(before) + n) = sent
  <1>1. PICK m \in Nat : m = Len(before)
    OBVIOUS
  <1>2. PICK c \in Seq(Byte) :
          /\ c = before \o sent /\ Len(c) = m + n
          /\ \A x \in 1 .. n : c[m + x] = sent[x]
    <2>1. /\ before \o sent \in Seq(Byte) /\ Len(before \o sent) = Len(before) + Len(sent)
          /\ \A x \in 1 .. Len(sent) : (before \o sent)[Len(before) + x] = sent[x]
      BY JoinFacts
    <2> QED BY <1>1, <2>1
  <1>3. PICK d \in Seq(Byte) :
          /\ d = c \o after /\ Len(d) = m + n + Len(after)
          /\ \A x \in 1 .. m + n : d[x] = c[x]
    <2>1. /\ c \o after \in Seq(Byte) /\ Len(c \o after) = Len(c) + Len(after)
          /\ \A x \in 1 .. Len(c) : (c \o after)[x] = c[x]
      BY JoinFacts
    <2> QED BY <1>2, <2>1
  <1>4. Len(after) \in Nat /\ m + n <= Len(d)
    BY <1>3
  <1> DEFINE got == SubSeq(d, m + 1, m + n)
  <1>5. got \in Seq(Byte) /\ Len(got) = n /\ \A x \in 1 .. n : got[x] = d[m + x]
    BY <1>4, SubSeqFacts
  <1> HIDE DEF got
  <1>6. ASSUME NEW x \in 1 .. n PROVE got[x] = sent[x]
    <2>1. m + x \in 1 .. m + n
      OBVIOUS
    <2> QED BY <1>2, <1>3, <1>5, <2>1
  <1>7. got = sent
    BY <1>5, <1>6, SameRow
  <1> QED BY <1>1, <1>2, <1>3, <1>7 DEF got

LEMMA TransferKeeps ==
  ASSUME BufferInv, NEW start \in Starts, Transfer(start)
  PROVE  BufferInv'
  <1> DEFINE sent == ToArray(buffer)
             pool == [i \in 1 .. start + 1 |-> Base - 1]
             all == Tail(pool) \o sent \o pool
  <1>1. /\ mode = "write" /\ mode' = "read" /\ UNCHANGED <<endian, items, found>>
        /\ buffer' = [memory |-> all, start |-> start, view |-> Len(sent), offset |-> 0]
    BY DEF Transfer
  <1>2. /\ Sound(buffer) /\ found = <<>> /\ endian \in BOOLEAN /\ items \in Seq(Items)
        /\ \E ends : Lies(sent, ends, Layout)
    BY <1>1 DEF BufferInv
  <1>3. start \in Nat
    BY BufferAssumption DEF BufferAssumption
  <1>4. sent \in Seq(Byte) /\ Len(sent) \in Nat
    BY <1>2, ToArrayExact
  <1> HIDE DEF sent
  <1>5. /\ all \in Seq(Byte) /\ Len(all) = start + Len(sent) + start + 1
        /\ SubSeq(all, start + 1, start + Len(sent)) = sent
    <2>1. Base - 1 \in Byte
      BY BufferAssumption DEF BufferAssumption, Byte
    <2>2. pool \in Seq(Byte) /\ Len(pool) = start + 1
      BY <1>3, <2>1
    <2>3. Tail(pool) \in Seq(Byte) /\ Len(Tail(pool)) = start
      BY <1>3, <2>1
    <2>4. PICK before \in Seq(Byte), after \in Seq(Byte), n \in Nat :
            before = Tail(pool) /\ after = pool /\ n = Len(sent)
      BY <1>4, <2>2, <2>3
    <2> HIDE DEF pool
    <2>5. /\ before \o sent \o after \in Seq(Byte)
          /\ Len(before \o sent \o after) = Len(before) + n + Len(after)
          /\ SubSeq(before \o sent \o after, Len(before) + 1, Len(before) + n) = sent
      BY <1>4, <2>4, SentInPool
    <2>6. all = before \o sent \o after
      BY <2>4
    <2> HIDE DEF all
    <2>7. Len(before) = start /\ Len(after) = start + 1 /\ n = Len(sent)
      BY <2>2, <2>3, <2>4
    <2>8. PICK c : c = before \o sent \o after
      OBVIOUS
    <2>9. /\ c \in Seq(Byte) /\ Len(c) = start + n + (start + 1)
          /\ SubSeq(c, start + 1, start + n) = sent
      BY <2>5, <2>7, <2>8
    <2>10. all = c
      BY <2>6, <2>8
    <2>11. all \in Seq(Byte) /\ Len(all) = start + Len(sent) + start + 1
      BY <1>3, <1>4, <2>7, <2>9, <2>10
    <2>12. SubSeq(all, start + 1, start + Len(sent)) = sent
      BY <2>7, <2>9, <2>10
    <2> QED BY <2>11, <2>12
  <1> HIDE DEF pool, all
  <1>6. /\ buffer'.memory = all /\ buffer'.start = start /\ buffer'.view = Len(sent)
        /\ buffer'.offset = 0 /\ buffer' \in Buffers
    BY <1>1, <1>3, <1>4, <1>5 DEF Buffers
  <1>7. Sound(buffer')
    BY <1>3, <1>4, <1>5, <1>6 DEF Sound
  <1>8. View' = sent
    BY <1>5, <1>6 DEF View
  <1>9. Layout' = Layout
    BY <1>1, LayoutKept
  <1>10. PICK ends : Lies(sent, ends, Layout)
    BY <1>2
  <1>11. ends[0] = 0
    BY <1>10 DEF Lies
  <1>12. ReadTo(ends)'
    BY <1>1, <1>2, <1>6, <1>11 DEF ReadTo
  <1> QED BY <1>1, <1>2, <1>7, <1>8, <1>9, <1>10, <1>12 DEF BufferInv

LEMMA ReadKeeps ==
  ASSUME BufferInv, NEW item \in Items, ReadItem(item)
  PROVE  BufferInv'
  <1> DEFINE k == Len(found)
             got == Get(buffer.offset, item)
  <1>1. /\ mode = "read" /\ UNCHANGED <<endian, items>>
        /\ k < Len(items) => item = items[k + 1]
        /\ got = Underflow => mode' = "thrown" /\ UNCHANGED <<buffer, found>>
        /\ got # Underflow => /\ found' = Append(found, got.value)
                              /\ buffer' = [buffer EXCEPT !.offset = got.at]
                              /\ mode' = mode
    BY DEF ReadItem
  <1>2. Sound(buffer) /\ endian \in BOOLEAN /\ items \in Seq(Items)
    BY DEF BufferInv
  <1>3. PICK ends : Lies(View, ends, Layout) /\ ReadTo(ends)
    BY <1>1 DEF BufferInv
  <1>4. /\ found \in Seq(Seq(Int)) /\ k \in Nat /\ Len(items) \in Nat /\ k <= Len(items)
        /\ buffer.offset = ends[k]
        /\ \A i \in 1 .. k : found[i] = Expected(items[i])
    BY <1>2, <1>3 DEF ReadTo
  <1>5. /\ Len(Layout) = Len(items)
        /\ \A i \in 1 .. Len(items) : WellFormed(items[i]) /\ Layout[i] = Rows(items[i])
    BY <1>2, LayoutExact
  <1>6. /\ ends \in [0 .. Len(items) -> 0 .. Len(View)] /\ ends[Len(items)] = Len(View)
        /\ \A i \in 1 .. Len(items) : RowsIn(View, ends[i - 1], ends[i], Layout[i])
    BY <1>3, <1>5 DEF Lies
  <1>7. Len(View) = buffer.view /\ buffer.view \in Nat
    BY <1>2, ViewExact DEF Sound, Buffers
  <1>8. Layout' = Layout
    BY <1>1, LayoutKept
  <1>9. WellFormed(item)
    BY BufferAssumption DEF BufferAssumption
  <1> HIDE DEF k, got
  <1>10. CASE k = Len(items)
    <2>1. buffer.offset = buffer.view
      BY <1>4, <1>6, <1>7, <1>10
    <2>2. got = Underflow
      BY <1>2, <1>9, <2>1, GetNothing DEF got
    <2>3. mode' = "thrown" /\ UNCHANGED <<buffer, found>>
      BY <1>1, <2>2
    <2>4. ReadTo(ends)'
      BY <1>1, <1>3, <1>10, <2>3 DEF ReadTo, k
    <2>5. View' = View
      BY <2>3 DEF View
    <2> QED BY <1>1, <1>2, <1>3, <1>8, <2>3, <2>4, <2>5 DEF BufferInv
  <1>11. CASE k < Len(items)
    <2>1. k + 1 \in 1 .. Len(items) /\ (k + 1) - 1 = k /\ item = items[k + 1]
      BY <1>1, <1>4, <1>11
    <2>2. RowsIn(View, ends[k], ends[k + 1], Rows(item))
      BY <1>5, <1>6, <2>1
    <2>3. got = Reads(Expected(item), ends[k + 1]) /\ ends[k + 1] \in Nat
      BY <1>2, <1>4, <1>9, <2>2, GetExact DEF GetsBack, got
    <2>4. got # Underflow /\ got.value = Expected(item) /\ got.at = ends[k + 1]
      <3>1. got # Underflow
        BY <2>3, ReadsSomething, Zenon
      <3>2. got.value = Expected(item) /\ got.at = ends[k + 1]
        <4>1. got = Reads(Expected(item), ends[k + 1])
          BY <2>3
        <4>2. PICK e, m : e = Expected(item) /\ m = ends[k + 1]
          OBVIOUS
        <4>3. got = Reads(e, m)
          BY <4>1, <4>2
        <4>4. got.value = e /\ got.at = m
          BY <4>3, ReadsParts, Zenon
        <4> QED BY <4>2, <4>4
      <3> QED BY <3>1, <3>2
    <2>5. /\ found' = Append(found, Expected(item))
          /\ buffer' = [buffer EXCEPT !.offset = ends[k + 1]] /\ mode' = "read"
      BY <1>1, <2>4
    <2>6. Expected(item) \in Seq(Int)
      <3>1. item.value \in Seq(Int)
        BY <1>9, ItemFacts
      <3> QED BY <3>1 DEF Expected
    <2>7. /\ found' \in Seq(Seq(Int)) /\ Len(found') = k + 1 /\ found'[k + 1] = Expected(item)
          /\ \A i \in 1 .. k : found'[i] = found[i]
      <3> DEFINE e == Expected(item)
      <3> HIDE DEF e
      <3> QED BY <1>4, <2>5, <2>6 DEF e, k
    <2>8. ends[k + 1] \in 0 .. buffer.view
      BY <1>6, <1>7, <2>1
    <2>9. /\ buffer'.memory = buffer.memory /\ buffer'.start = buffer.start
          /\ buffer'.view = buffer.view /\ buffer'.offset = ends[k + 1] /\ buffer' \in Buffers
      BY <1>2, <2>3, <2>5 DEF Sound, Buffers
    <2>10. Sound(buffer')
      BY <1>2, <2>8, <2>9 DEF Sound
    <2>11. View' = View
      BY <2>9 DEF View
    <2>12. \A i \in 1 .. k + 1 : found'[i] = Expected(items[i])
      <3>1. \A i \in 1 .. k + 1 : i \in 1 .. k \/ i = k + 1
        BY <1>4
      <3>2. \A i \in 1 .. k : found'[i] = Expected(items[i])
        BY <1>4, <2>7
      <3> QED BY <2>1, <2>7, <3>1, <3>2
    <2>13. ReadTo(ends)'
      <3>1. k + 1 <= Len(items')
        BY <1>1, <2>1
      <3>2. items' = items
        BY <1>1
      <3> QED BY <2>5, <2>7, <2>9, <2>12, <3>1, <3>2 DEF ReadTo
    <2> QED BY <1>1, <1>2, <1>3, <1>8, <2>5, <2>10, <2>11, <2>13 DEF BufferInv
  <1> QED BY <1>4, <1>10, <1>11

LEMMA RewindKeeps ==
  ASSUME BufferInv, Rewind
  PROVE  BufferInv'
  <1>1. /\ mode = "read" /\ buffer' = [buffer EXCEPT !.offset = 0] /\ found' = <<>>
        /\ UNCHANGED <<endian, items, mode>>
    BY DEF Rewind
  <1>2. Sound(buffer) /\ endian \in BOOLEAN /\ items \in Seq(Items)
    BY DEF BufferInv
  <1>3. PICK ends : Lies(View, ends, Layout)
    BY <1>1 DEF BufferInv
  <1>4. /\ buffer'.memory = buffer.memory /\ buffer'.start = buffer.start
        /\ buffer'.view = buffer.view /\ buffer'.offset = 0 /\ buffer' \in Buffers
    BY <1>1, <1>2 DEF Sound, Buffers
  <1>5. Sound(buffer')
    BY <1>2, <1>4 DEF Sound, Buffers
  <1>6. View' = View
    BY <1>4 DEF View
  <1>7. Layout' = Layout
    BY <1>1, LayoutKept
  <1>8. ends[0] = 0
    BY <1>3 DEF Lies
  <1>9. ReadTo(ends)'
    BY <1>1, <1>2, <1>4, <1>8 DEF ReadTo
  <1> QED BY <1>1, <1>2, <1>3, <1>5, <1>6, <1>7, <1>9 DEF BufferInv

LEMMA BufferStep == BufferInv /\ [BufferNext]_bufferVars => BufferInv'
  <1> SUFFICES ASSUME BufferInv, [BufferNext]_bufferVars PROVE BufferInv'
    OBVIOUS
  <1>1. CASE UNCHANGED bufferVars
    <2>1. UNCHANGED <<buffer, endian, items, found, mode>>
      BY <1>1 DEF bufferVars
    <2>2. Layout' = Layout /\ View' = View
      BY <2>1, LayoutKept DEF View
    <2>3. \A ends : ReadTo(ends)' = ReadTo(ends)
      BY <2>1 DEF ReadTo
    <2> QED BY <2>1, <2>2, <2>3 DEF BufferInv
  <1> QED BY <1>1, WriteKeeps, ShrinkKeeps, TransferKeeps, ReadKeeps, RewindKeeps
          DEF BufferNext

LEMMA BufferHolds == BufferInv => BufferTypeOK /\ ReadsBack
  <1> SUFFICES ASSUME BufferInv PROVE BufferTypeOK /\ ReadsBack
    OBVIOUS
  <1>1. BufferTypeOK
    <2>1. /\ buffer.memory \in Seq(Byte) /\ buffer.start \in Nat /\ buffer.offset \in Nat
          /\ buffer.view \in Nat /\ buffer.offset <= buffer.view
          /\ buffer.start + buffer.view <= Len(buffer.memory)
      BY DEF BufferInv, Sound, Buffers
    <2>2. \A i \in 1 .. Len(buffer.memory) : buffer.memory[i] \in Byte
      BY <2>1
    <2> QED BY <2>1, <2>2 DEF BufferInv, BufferTypeOK
  <1>2. CASE mode = "write"
    <2>1. found = <<>> /\ items \in Seq(Items) /\ mode # "thrown" /\ mode # "read"
      BY <1>2 DEF BufferInv
    <2>2. Len(found) = 0 /\ Len(items) \in Nat
      BY <2>1
    <2> QED BY <1>1, <2>1, <2>2 DEF ReadsBack
  <1>3. CASE mode # "write"
    <2>1. PICK ends : Lies(View, ends, Layout) /\ ReadTo(ends)
      BY <1>3 DEF BufferInv
    <2>2. Sound(buffer) /\ items \in Seq(Items)
      BY DEF BufferInv
    <2>3. ends[Len(items)] = buffer.view
      <3>1. Len(Layout) = Len(items)
        BY <2>2, LayoutExact
      <3>2. ends[Len(Layout)] = Len(View)
        BY <2>1 DEF Lies
      <3> QED BY <2>2, <3>1, <3>2, ViewExact
    <2>4. /\ Len(found) <= Len(items) /\ buffer.offset = ends[Len(found)]
          /\ \A i \in 1 .. Len(found) : found[i] = Expected(items[i])
          /\ mode = "thrown" => Len(found) = Len(items)
      BY <2>1 DEF ReadTo
    <2>5. Len(found) = Len(items) => buffer.offset = buffer.view
      BY <2>3, <2>4
    <2> QED BY <1>1, <2>4, <2>5, Zenon DEF ReadsBack, Expected
  <1> QED BY <1>1, <1>2, <1>3

\* The buffer keeps its types, and its offset and view stay in its memory, however
\* it grows, shrinks, and is sent and read (byte-buffer.ts).
THEOREM BufferTypesHold == BufferSpec => []BufferTypeOK
  <1>1. BufferInv => BufferTypeOK
    BY BufferHolds
  <1> QED BY <1>1, BufferStarts, BufferStep, PTL DEF BufferSpec

\* A message of any number of items, each of any type the writers take, of any
\* width and length, in either byte order and at any place of the memory it
\* arrives in, is read back as it was written, to the last byte and no further
\* (byte-buffer.ts).
THEOREM WrittenIsReadBack == BufferSpec => []ReadsBack
  <1>1. BufferInv => ReadsBack
    BY BufferHolds
  <1> QED BY <1>1, BufferStarts, BufferStep, PTL DEF BufferSpec

-----------------------------------------------------------------------------
(***************************************************************************)
(* Codecs: the encodings are exact for every row of bytes.  Letter i of a  *)
(* text in base 32 is five bits of one byte, or of one and the next        *)
(* (LetterOf), which is what the reference says (ReferenceExact).  After m *)
(* bytes the encoder has written all their full letters and carries the    *)
(* bits that are left (EncodedTo); after m letters the decoder has written *)
(* all their full bytes and carries the others' first bits, in their place *)
(* (DecodedTo).  Eight letters are five bytes, so each loop is in one of   *)
(* five or eight places, and a step takes it to the next.                  *)
(***************************************************************************)

Byte8 == 0 .. 255

\* byte j, 0 behind the last
At(arr, j) == IF j \in 1 .. Len(arr) THEN arr[j] ELSE 0

\* A letter is five bits of one byte, or of one and the next; eight letters are
\* five bytes.
LetterOf(arr, g, r) ==
  CASE r = 0 -> At(arr, 5 * g + 1) \div 8
    [] r = 1 -> (At(arr, 5 * g + 1) % 8) * 4 + At(arr, 5 * g + 2) \div 64
    [] r = 2 -> (At(arr, 5 * g + 2) \div 2) % 32
    [] r = 3 -> (At(arr, 5 * g + 2) % 2) * 16 + At(arr, 5 * g + 3) \div 16
    [] r = 4 -> (At(arr, 5 * g + 3) % 16) * 2 + At(arr, 5 * g + 4) \div 128
    [] r = 5 -> (At(arr, 5 * g + 4) \div 4) % 32
    [] r = 6 -> (At(arr, 5 * g + 4) % 4) * 8 + At(arr, 5 * g + 5) \div 32
    [] r = 7 -> At(arr, 5 * g + 5) % 32

Letter(arr, i) == LetterOf(arr, (i - 1) \div 8, (i - 1) % 8)

LEMMA AtType ==
  ASSUME NEW arr \in Seq(Byte8), NEW j \in Int
  PROVE  At(arr, j) \in Byte8
  <1>1. 0 \in Byte8
    BY DEF Byte8
  <1>2. \A i \in 1 .. Len(arr) : arr[i] \in Byte8
    OBVIOUS
  <1> QED BY <1>1, <1>2 DEF At

LEMMA LetterIs ==
  ASSUME NEW arr \in Seq(Byte8), NEW g \in Nat, NEW r \in 0 .. 7
  PROVE  Letter(arr, 8 * g + r + 1) = LetterOf(arr, g, r)
  <1>1. ((8 * g + r + 1) - 1) \div 8 = g /\ ((8 * g + r + 1) - 1) % 8 = r
    OBVIOUS
  <1> QED BY <1>1 DEF Letter

LEMMA Octave ==
  ASSUME NEW i \in Nat, i > 0
  PROVE  \E g \in Nat, r \in 0 .. 7 : i = 8 * g + r + 1
  <1> DEFINE g == (i - 1) \div 8
             r == (i - 1) % 8
  <1>1. g \in Nat /\ r \in 0 .. 7
    OBVIOUS
  <1>2. i = 8 * g + r + 1
    OBVIOUS
  <1> HIDE DEF g, r
  <1> QED BY <1>1, <1>2

LEMMA Powers ==
  /\ Power(0) = 1 /\ Power(1) = 2 /\ Power(2) = 4 /\ Power(3) = 8 /\ Power(4) = 16
  /\ Power(5) = 32 /\ Power(6) = 64 /\ Power(7) = 128 /\ Power(8) = 256
  BY DEF Power

\* bit x of byte b
LEMMA BitIs ==
  ASSUME bytes \in Seq(Byte8), NEW b \in Nat, NEW x \in 1 .. 8
  PROVE  Bit(8 * b + x) = (At(bytes, b + 1) \div Power(8 - x)) % 2
  <1> DEFINE j == 8 * b + x
  <1>1. /\ (j - 1) \div 8 + 1 = b + 1 /\ 7 - ((j - 1) % 8) = 8 - x
        /\ j \in Nat /\ Len(bytes) \in Nat
    OBVIOUS
  <1>2. CASE j > 8 * Len(bytes)
    <2>1. ~ (b + 1 \in 1 .. Len(bytes))
      BY <1>2
    <2>2. At(bytes, b + 1) = 0
      BY <2>1 DEF At
    <2>3. \A p \in {1, 2, 4, 8, 16, 32, 64, 128} : (0 \div p) % 2 = 0
      OBVIOUS
    <2>4. Power(8 - x) \in {1, 2, 4, 8, 16, 32, 64, 128}
      <3>1. x \in {1, 2, 3, 4, 5, 6, 7, 8}
        OBVIOUS
      <3> QED BY <3>1, Powers
    <2>5. Bit(j) = 0
      BY <1>2 DEF Bit
    <2> HIDE DEF j
    <2> QED BY <2>2, <2>3, <2>4, <2>5 DEF j
  <1>3. CASE ~ (j > 8 * Len(bytes))
    <2>1. b + 1 \in 1 .. Len(bytes)
      BY <1>1, <1>3
    <2>2. At(bytes, b + 1) = bytes[b + 1]
      BY <2>1 DEF At
    <2>3. Bit(j) = (bytes[(j - 1) \div 8 + 1] \div Power(7 - ((j - 1) % 8))) % 2
      BY <1>3 DEF Bit
    <2> HIDE DEF j
    <2>4. Bit(j) = (At(bytes, b + 1) \div Power(8 - x)) % 2
      BY <1>1, <2>2, <2>3
    <2> QED BY <2>4 DEF j
  <1> QED BY <1>2, <1>3

\* Bits of a byte, in a row, as a number.
LEMMA FiveBits ==
  ASSUME NEW a \in Byte8
  PROVE  /\ 16 * ((a \div 128) % 2) + 8 * ((a \div 64) % 2) + 4 * ((a \div 32) % 2)
              + 2 * ((a \div 16) % 2) + ((a \div 8) % 2) = a \div 8
         /\ 16 * ((a \div 64) % 2) + 8 * ((a \div 32) % 2) + 4 * ((a \div 16) % 2)
              + 2 * ((a \div 8) % 2) + ((a \div 4) % 2) = (a \div 4) % 32
         /\ 16 * ((a \div 32) % 2) + 8 * ((a \div 16) % 2) + 4 * ((a \div 8) % 2)
              + 2 * ((a \div 4) % 2) + ((a \div 2) % 2) = (a \div 2) % 32
         /\ 16 * ((a \div 16) % 2) + 8 * ((a \div 8) % 2) + 4 * ((a \div 4) % 2)
              + 2 * ((a \div 2) % 2) + (a % 2) = a % 32
  <1>1. 16 * ((a \div 128) % 2) + 8 * ((a \div 64) % 2) + 4 * ((a \div 32) % 2)
         + 2 * ((a \div 16) % 2) + ((a \div 8) % 2) = a \div 8
    BY DEF Byte8
  <1>2. 16 * ((a \div 64) % 2) + 8 * ((a \div 32) % 2) + 4 * ((a \div 16) % 2)
         + 2 * ((a \div 8) % 2) + ((a \div 4) % 2) = (a \div 4) % 32
    BY DEF Byte8
  <1>3. 16 * ((a \div 32) % 2) + 8 * ((a \div 16) % 2) + 4 * ((a \div 8) % 2)
         + 2 * ((a \div 4) % 2) + ((a \div 2) % 2) = (a \div 2) % 32
    BY DEF Byte8
  <1>4. 16 * ((a \div 16) % 2) + 8 * ((a \div 8) % 2) + 4 * ((a \div 4) % 2)
         + 2 * ((a \div 2) % 2) + (a % 2) = a % 32
    BY DEF Byte8
  <1> QED BY <1>1, <1>2, <1>3, <1>4

LEMMA FirstBits ==
  ASSUME NEW a \in Byte8
  PROVE  /\ (a \div 128) % 2 = a \div 128
         /\ 2 * ((a \div 128) % 2) + ((a \div 64) % 2) = a \div 64
         /\ 4 * ((a \div 128) % 2) + 2 * ((a \div 64) % 2) + ((a \div 32) % 2) = a \div 32
         /\ 8 * ((a \div 128) % 2) + 4 * ((a \div 64) % 2) + 2 * ((a \div 32) % 2)
              + ((a \div 16) % 2) = a \div 16
  BY DEF Byte8

LEMMA LastBits ==
  ASSUME NEW a \in Byte8
  PROVE  /\ 2 * ((a \div 2) % 2) + (a % 2) = a % 4
         /\ 4 * ((a \div 4) % 2) + 2 * ((a \div 2) % 2) + (a % 2) = a % 8
         /\ 8 * ((a \div 8) % 2) + 4 * ((a \div 4) % 2) + 2 * ((a \div 2) % 2) + (a % 2) = a % 16
  BY DEF Byte8

LEMMA BitTypes ==
  ASSUME NEW a \in Byte8
  PROVE  /\ (a \div 128) % 2 \in Int /\ (a \div 64) % 2 \in Int /\ (a \div 32) % 2 \in Int
         /\ (a \div 16) % 2 \in Int /\ (a \div 8) % 2 \in Int /\ (a \div 4) % 2 \in Int
         /\ (a \div 2) % 2 \in Int /\ a % 2 \in Int
  BY DEF Byte8

LEMMA Weigh ==
  ASSUME NEW p \in Int, NEW q \in Int, NEW s \in Int, NEW t \in Int, NEW u \in Int
  PROVE  /\ 16 * p + 8 * q + 4 * s + 2 * t + u = p * 16 + (8 * q + 4 * s + 2 * t + u)
         /\ 16 * p + 8 * q + 4 * s + 2 * t + u = (2 * p + q) * 8 + (4 * s + 2 * t + u)
         /\ 16 * p + 8 * q + 4 * s + 2 * t + u = (4 * p + 2 * q + s) * 4 + (2 * t + u)
         /\ 16 * p + 8 * q + 4 * s + 2 * t + u = (8 * p + 4 * q + 2 * s + t) * 2 + u
  OBVIOUS

Reference(i) ==
  16 * Bit(5 * i - 4) + 8 * Bit(5 * i - 3) + 4 * Bit(5 * i - 2) + 2 * Bit(5 * i - 1) + Bit(5 * i)

\* The RFC's letters are these.
LEMMA ReferenceIs ==
  ASSUME bytes \in Seq(Byte8), NEW g \in Nat, NEW r \in 0 .. 7
  PROVE  Reference(8 * g + r + 1) = LetterOf(bytes, g, r)
  <1> DEFINE i == 8 * g + r + 1
             A(j) == At(bytes, 5 * g + j)
             b == 5 * g
  <1>1. ASSUME NEW j \in 1 .. 5 PROVE A(j) \in Byte8 /\ A(j) \in Int
    <2>1. 5 * g + j \in Int
      OBVIOUS
    <2>2. A(j) \in Byte8
      BY <2>1, AtType
    <2>3. Byte8 \subseteq Int
      BY DEF Byte8
    <2> QED BY <2>2, <2>3, Zenon
  <1>2. ASSUME NEW j \in 1 .. 5, NEW x \in 1 .. 8
        PROVE  Bit(8 * (b + (j - 1)) + x) = (A(j) \div Power(8 - x)) % 2
    <2>1. b + (j - 1) \in Nat /\ (b + (j - 1)) + 1 = b + j
      OBVIOUS
    <2> HIDE DEF b
    <2>2. Bit(8 * (b + (j - 1)) + x) = (At(bytes, (b + (j - 1)) + 1) \div Power(8 - x)) % 2
      BY <2>1, BitIs
    <2> QED BY <2>1, <2>2 DEF b
  <1>3. ASSUME NEW j \in 1 .. 5
        PROVE  /\ Bit(40 * g + 8 * j - 7) = (A(j) \div 128) % 2
               /\ Bit(40 * g + 8 * j - 6) = (A(j) \div 64) % 2
               /\ Bit(40 * g + 8 * j - 5) = (A(j) \div 32) % 2
               /\ Bit(40 * g + 8 * j - 4) = (A(j) \div 16) % 2
               /\ Bit(40 * g + 8 * j - 3) = (A(j) \div 8) % 2
               /\ Bit(40 * g + 8 * j - 2) = (A(j) \div 4) % 2
               /\ Bit(40 * g + 8 * j - 1) = (A(j) \div 2) % 2
               /\ Bit(40 * g + 8 * j) = A(j) % 2
    <2> DEFINE k == 40 * g + 8 * j
    <2>1. /\ 8 * (b + (j - 1)) + 1 = k - 7 /\ 8 * (b + (j - 1)) + 2 = k - 6
          /\ 8 * (b + (j - 1)) + 3 = k - 5 /\ 8 * (b + (j - 1)) + 4 = k - 4
          /\ 8 * (b + (j - 1)) + 5 = k - 3 /\ 8 * (b + (j - 1)) + 6 = k - 2
          /\ 8 * (b + (j - 1)) + 7 = k - 1 /\ 8 * (b + (j - 1)) + 8 = k
      OBVIOUS
    <2>2. A(j) \div 1 = A(j)
      <3> HIDE DEF A
      <3> QED BY <1>1
    <2> HIDE DEF A, k, b
    <2>3. /\ Bit(k - 7) = (A(j) \div Power(8 - 1)) % 2 /\ Bit(k - 6) = (A(j) \div Power(8 - 2)) % 2
          /\ Bit(k - 5) = (A(j) \div Power(8 - 3)) % 2 /\ Bit(k - 4) = (A(j) \div Power(8 - 4)) % 2
          /\ Bit(k - 3) = (A(j) \div Power(8 - 5)) % 2 /\ Bit(k - 2) = (A(j) \div Power(8 - 6)) % 2
          /\ Bit(k - 1) = (A(j) \div Power(8 - 7)) % 2 /\ Bit(k) = (A(j) \div Power(8 - 8)) % 2
      BY <1>2, <2>1
    <2>4. /\ 8 - 1 = 7 /\ 8 - 2 = 6 /\ 8 - 3 = 5 /\ 8 - 4 = 4 /\ 8 - 5 = 3 /\ 8 - 6 = 2
          /\ 8 - 7 = 1 /\ 8 - 8 = 0
      OBVIOUS
    <2>5. /\ Bit(k - 7) = (A(j) \div 128) % 2 /\ Bit(k - 6) = (A(j) \div 64) % 2
          /\ Bit(k - 5) = (A(j) \div 32) % 2 /\ Bit(k - 4) = (A(j) \div 16) % 2
          /\ Bit(k - 3) = (A(j) \div 8) % 2 /\ Bit(k - 2) = (A(j) \div 4) % 2
          /\ Bit(k - 1) = (A(j) \div 2) % 2 /\ Bit(k) = A(j) % 2
      BY <2>2, <2>3, <2>4, Powers
    <2> QED BY <2>5 DEF k
  <1> DEFINE v == 40 * g
  <1> HIDE DEF A
  <1>4. PICK a1 \in Byte8, a2 \in Byte8, a3 \in Byte8, a4 \in Byte8, a5 \in Byte8 :
          a1 = A(1) /\ a2 = A(2) /\ a3 = A(3) /\ a4 = A(4) /\ a5 = A(5)
    BY <1>1
  <1>n. a1 \in Int /\ a2 \in Int /\ a3 \in Int /\ a4 \in Int /\ a5 \in Int
    BY <1>1, <1>4
  <1>5. /\ Bit(v + 1) = (a1 \div 128) % 2 /\ Bit(v + 2) = (a1 \div 64) % 2
        /\ Bit(v + 3) = (a1 \div 32) % 2 /\ Bit(v + 4) = (a1 \div 16) % 2
        /\ Bit(v + 5) = (a1 \div 8) % 2 /\ Bit(v + 6) = (a1 \div 4) % 2
        /\ Bit(v + 7) = (a1 \div 2) % 2 /\ Bit(v + 8) = a1 % 2
        /\ Bit(v + 9) = (a2 \div 128) % 2 /\ Bit(v + 10) = (a2 \div 64) % 2
        /\ Bit(v + 11) = (a2 \div 32) % 2 /\ Bit(v + 12) = (a2 \div 16) % 2
        /\ Bit(v + 13) = (a2 \div 8) % 2 /\ Bit(v + 14) = (a2 \div 4) % 2
        /\ Bit(v + 15) = (a2 \div 2) % 2 /\ Bit(v + 16) = a2 % 2
    BY <1>3, <1>4
  <1>6. /\ Bit(v + 17) = (a3 \div 128) % 2 /\ Bit(v + 18) = (a3 \div 64) % 2
        /\ Bit(v + 19) = (a3 \div 32) % 2 /\ Bit(v + 20) = (a3 \div 16) % 2
        /\ Bit(v + 21) = (a3 \div 8) % 2 /\ Bit(v + 22) = (a3 \div 4) % 2
        /\ Bit(v + 23) = (a3 \div 2) % 2 /\ Bit(v + 24) = a3 % 2
        /\ Bit(v + 25) = (a4 \div 128) % 2 /\ Bit(v + 26) = (a4 \div 64) % 2
        /\ Bit(v + 27) = (a4 \div 32) % 2 /\ Bit(v + 28) = (a4 \div 16) % 2
        /\ Bit(v + 29) = (a4 \div 8) % 2 /\ Bit(v + 30) = (a4 \div 4) % 2
        /\ Bit(v + 31) = (a4 \div 2) % 2 /\ Bit(v + 32) = a4 % 2
    BY <1>3, <1>4
  <1>7. /\ Bit(v + 33) = (a5 \div 128) % 2 /\ Bit(v + 34) = (a5 \div 64) % 2
        /\ Bit(v + 35) = (a5 \div 32) % 2 /\ Bit(v + 36) = (a5 \div 16) % 2
        /\ Bit(v + 37) = (a5 \div 8) % 2 /\ Bit(v + 38) = (a5 \div 4) % 2
        /\ Bit(v + 39) = (a5 \div 2) % 2 /\ Bit(v + 40) = a5 % 2
    BY <1>3, <1>4
  <1>8. Reference(i) = 16 * Bit(v + (5 * r + 1)) + 8 * Bit(v + (5 * r + 2))
                         + 4 * Bit(v + (5 * r + 3)) + 2 * Bit(v + (5 * r + 4)) + Bit(v + (5 * r + 5))
    <2>1. /\ 5 * i - 4 = v + (5 * r + 1) /\ 5 * i - 3 = v + (5 * r + 2)
          /\ 5 * i - 2 = v + (5 * r + 3) /\ 5 * i - 1 = v + (5 * r + 4)
          /\ 5 * i = v + (5 * r + 5)
      OBVIOUS
    <2> HIDE DEF i, v
    <2> QED BY <2>1 DEF Reference
  <1> HIDE DEF i, v
  <1>9. CASE r = 0
    <2>1. Reference(i) = 16 * Bit(v + 1) + 8 * Bit(v + 2) + 4 * Bit(v + 3) + 2 * Bit(v + 4) + Bit(v + 5)
      BY <1>8, <1>9
    <2>2. Reference(i) = a1 \div 8
      BY <1>5, <2>1, FiveBits
    <2> QED BY <1>4, <1>9, <2>2 DEF A, LetterOf, i
  <1>10. CASE r = 1
    <2>1. Reference(i) = 16 * Bit(v + 6) + 8 * Bit(v + 7) + 4 * Bit(v + 8)
                         + 2 * Bit(v + 9) + Bit(v + 10)
      BY <1>8, <1>10
    <2>2. 4 * Bit(v + 6) + 2 * Bit(v + 7) + Bit(v + 8) = a1 % 8
      BY <1>5, LastBits
    <2>3. 2 * Bit(v + 9) + Bit(v + 10) = a2 \div 64
      BY <1>5, FirstBits
    <2>4. /\ Bit(v + 6) \in Int /\ Bit(v + 7) \in Int /\ Bit(v + 8) \in Int
          /\ Bit(v + 9) \in Int /\ Bit(v + 10) \in Int
      BY <1>5, BitTypes
    <2>5. Reference(i) = (a1 % 8) * 4 + a2 \div 64
      <3>1. PICK p \in Int, q \in Int, s \in Int, t \in Int, u \in Int :
              /\ p = Bit(v + 6) /\ q = Bit(v + 7) /\ s = Bit(v + 8)
              /\ t = Bit(v + 9) /\ u = Bit(v + 10)
        BY <2>4
      <3>2. Reference(i) = 16 * p + 8 * q + 4 * s + 2 * t + u
        BY <2>1, <3>1
      <3>3. 4 * p + 2 * q + s = a1 % 8 /\ 2 * t + u = a2 \div 64
        BY <2>2, <2>3, <3>1
      <3>4. 16 * p + 8 * q + 4 * s + 2 * t + u = (4 * p + 2 * q + s) * 4 + (2 * t + u)
        BY Weigh
      <3> QED BY <3>2, <3>3, <3>4
    <2> QED BY <1>4, <1>10, <2>5 DEF A, LetterOf, i
  <1>11. CASE r = 2
    <2>1. Reference(i) = 16 * Bit(v + 11) + 8 * Bit(v + 12) + 4 * Bit(v + 13)
                         + 2 * Bit(v + 14) + Bit(v + 15)
      BY <1>8, <1>11
    <2>2. Reference(i) = (a2 \div 2) % 32
      BY <1>5, <1>6, <1>7, <2>1, FiveBits
    <2> QED BY <1>4, <1>11, <2>2 DEF A, LetterOf, i
  <1>12. CASE r = 3
    <2>1. Reference(i) = 16 * Bit(v + 16) + 8 * Bit(v + 17) + 4 * Bit(v + 18)
                         + 2 * Bit(v + 19) + Bit(v + 20)
      BY <1>8, <1>12
    <2>2. Bit(v + 16) = a2 % 2
      BY <1>5, <1>6, LastBits
    <2>3. 8 * Bit(v + 17) + 4 * Bit(v + 18) + 2 * Bit(v + 19) + Bit(v + 20) = a3 \div 16
      BY <1>5, <1>6, FirstBits
    <2>4. /\ Bit(v + 16) \in Int /\ Bit(v + 17) \in Int /\ Bit(v + 18) \in Int
          /\ Bit(v + 19) \in Int /\ Bit(v + 20) \in Int
      BY <1>5, <1>6, BitTypes
    <2>5. Reference(i) = (a2 % 2) * 16 + a3 \div 16
      <3>1. PICK p \in Int, q \in Int, s \in Int, t \in Int, u \in Int :
              /\ p = Bit(v + 16) /\ q = Bit(v + 17) /\ s = Bit(v + 18)
              /\ t = Bit(v + 19) /\ u = Bit(v + 20)
        BY <2>4
      <3>2. Reference(i) = 16 * p + 8 * q + 4 * s + 2 * t + u
        BY <2>1, <3>1
      <3>3. p = a2 % 2 /\ 8 * q + 4 * s + 2 * t + u = a3 \div 16
        BY <2>2, <2>3, <3>1
      <3>4. 16 * p + 8 * q + 4 * s + 2 * t + u = p * 16 + (8 * q + 4 * s + 2 * t + u)
        BY Weigh
      <3> QED BY <3>2, <3>3, <3>4
    <2> QED BY <1>4, <1>12, <2>5 DEF A, LetterOf, i
  <1>13. CASE r = 4
    <2>1. Reference(i) = 16 * Bit(v + 21) + 8 * Bit(v + 22) + 4 * Bit(v + 23)
                         + 2 * Bit(v + 24) + Bit(v + 25)
      BY <1>8, <1>13
    <2>2. 8 * Bit(v + 21) + 4 * Bit(v + 22) + 2 * Bit(v + 23) + Bit(v + 24) = a3 % 16
      BY <1>6, LastBits
    <2>3. Bit(v + 25) = a4 \div 128
      BY <1>6, FirstBits
    <2>4. /\ Bit(v + 21) \in Int /\ Bit(v + 22) \in Int /\ Bit(v + 23) \in Int
          /\ Bit(v + 24) \in Int /\ Bit(v + 25) \in Int
      BY <1>6, BitTypes
    <2>5. Reference(i) = (a3 % 16) * 2 + a4 \div 128
      <3>1. PICK p \in Int, q \in Int, s \in Int, t \in Int, u \in Int :
              /\ p = Bit(v + 21) /\ q = Bit(v + 22) /\ s = Bit(v + 23)
              /\ t = Bit(v + 24) /\ u = Bit(v + 25)
        BY <2>4
      <3>2. Reference(i) = 16 * p + 8 * q + 4 * s + 2 * t + u
        BY <2>1, <3>1
      <3>3. 8 * p + 4 * q + 2 * s + t = a3 % 16 /\ u = a4 \div 128
        BY <2>2, <2>3, <3>1
      <3>4. 16 * p + 8 * q + 4 * s + 2 * t + u = (8 * p + 4 * q + 2 * s + t) * 2 + u
        BY Weigh
      <3> QED BY <3>2, <3>3, <3>4
    <2> QED BY <1>4, <1>13, <2>5 DEF A, LetterOf, i
  <1>14. CASE r = 5
    <2>1. Reference(i) = 16 * Bit(v + 26) + 8 * Bit(v + 27) + 4 * Bit(v + 28)
                         + 2 * Bit(v + 29) + Bit(v + 30)
      BY <1>8, <1>14
    <2>2. Reference(i) = (a4 \div 4) % 32
      BY <1>5, <1>6, <1>7, <2>1, FiveBits
    <2> QED BY <1>4, <1>14, <2>2 DEF A, LetterOf, i
  <1>15. CASE r = 6
    <2>1. Reference(i) = 16 * Bit(v + 31) + 8 * Bit(v + 32) + 4 * Bit(v + 33)
                         + 2 * Bit(v + 34) + Bit(v + 35)
      BY <1>8, <1>15
    <2>2. 2 * Bit(v + 31) + Bit(v + 32) = a4 % 4
      BY <1>6, <1>7, LastBits
    <2>3. 4 * Bit(v + 33) + 2 * Bit(v + 34) + Bit(v + 35) = a5 \div 32
      BY <1>6, <1>7, FirstBits
    <2>4. /\ Bit(v + 31) \in Int /\ Bit(v + 32) \in Int /\ Bit(v + 33) \in Int
          /\ Bit(v + 34) \in Int /\ Bit(v + 35) \in Int
      BY <1>6, <1>7, BitTypes
    <2>5. Reference(i) = (a4 % 4) * 8 + a5 \div 32
      <3>1. PICK p \in Int, q \in Int, s \in Int, t \in Int, u \in Int :
              /\ p = Bit(v + 31) /\ q = Bit(v + 32) /\ s = Bit(v + 33)
              /\ t = Bit(v + 34) /\ u = Bit(v + 35)
        BY <2>4
      <3>2. Reference(i) = 16 * p + 8 * q + 4 * s + 2 * t + u
        BY <2>1, <3>1
      <3>3. 2 * p + q = a4 % 4 /\ 4 * s + 2 * t + u = a5 \div 32
        BY <2>2, <2>3, <3>1
      <3>4. 16 * p + 8 * q + 4 * s + 2 * t + u = (2 * p + q) * 8 + (4 * s + 2 * t + u)
        BY Weigh
      <3> QED BY <3>2, <3>3, <3>4
    <2> QED BY <1>4, <1>15, <2>5 DEF A, LetterOf, i
  <1>16. CASE r = 7
    <2>1. Reference(i) = 16 * Bit(v + 36) + 8 * Bit(v + 37) + 4 * Bit(v + 38)
                         + 2 * Bit(v + 39) + Bit(v + 40)
      BY <1>8, <1>16
    <2>2. Reference(i) = a5 % 32
      BY <1>5, <1>6, <1>7, <2>1, FiveBits
    <2> QED BY <1>4, <1>16, <2>2 DEF A, LetterOf, i
  <1>17. r \in {0, 1, 2, 3, 4, 5, 6, 7}
    OBVIOUS
  <1> QED BY <1>9, <1>10, <1>11, <1>12, <1>13, <1>14, <1>15, <1>16, <1>17 DEF i

-----------------------------------------------------------------------------

\* The first n letters.
WrittenTo(letters, arr, n) ==
  /\ letters \in Seq(Int) /\ n \in Nat /\ Len(letters) = n
  /\ \A i \in 1 .. n : letters[i] = Letter(arr, i)

LEMMA OneLetterMore ==
  ASSUME NEW arr, NEW n, NEW letters, WrittenTo(letters, arr, n),
         NEW x \in Int, x = Letter(arr, n + 1)
  PROVE  WrittenTo(Append(letters, x), arr, n + 1)
  <1>1. letters \in Seq(Int) /\ n \in Nat /\ Len(letters) = n
    BY DEF WrittenTo
  <1>2. /\ Append(letters, x) \in Seq(Int) /\ Len(Append(letters, x)) = n + 1
        /\ Append(letters, x)[n + 1] = x
        /\ \A i \in 1 .. n : Append(letters, x)[i] = letters[i]
    BY <1>1
  <1>3. ASSUME NEW i \in 1 .. n + 1 PROVE Append(letters, x)[i] = Letter(arr, i)
    <2>1. CASE i = n + 1
      BY <1>2, <2>1
    <2>2. CASE i # n + 1
      <3>1. i \in 1 .. n
        BY <1>1, <2>2
      <3> QED BY <1>2, <3>1 DEF WrittenTo
    <2> QED BY <2>1, <2>2
  <1> HIDE DEF WrittenTo
  <1> QED BY <1>1, <1>2, <1>3 DEF WrittenTo

\* Where the loop is after k bytes: the letters that are full, the bits of the
\* last byte that wait, and how many of the next byte's are left out.
EncodedAt(s, arr, k, g) ==
  \/ k = 0 /\ s.shift = 3 /\ s.carry = 0 /\ WrittenTo(s.letters, arr, 0)
  \/ /\ k = 5 * g + 1 /\ s.shift = 6 /\ s.carry = At(arr, k) * 4
     /\ WrittenTo(s.letters, arr, 8 * g + 1)
  \/ /\ k = 5 * g + 2 /\ s.shift = 4 /\ s.carry = At(arr, k) * 16
     /\ WrittenTo(s.letters, arr, 8 * g + 3)
  \/ /\ k = 5 * g + 3 /\ s.shift = 7 /\ s.carry = At(arr, k) * 2
     /\ WrittenTo(s.letters, arr, 8 * g + 4)
  \/ /\ k = 5 * g + 4 /\ s.shift = 5 /\ s.carry = At(arr, k) * 8
     /\ WrittenTo(s.letters, arr, 8 * g + 6)
  \/ /\ k = 5 * g + 5 /\ s.shift = 8 /\ s.carry = At(arr, k)
     /\ WrittenTo(s.letters, arr, 8 * g + 7)

EncodedTo(s, arr, k) == \E g \in Nat : EncodedAt(s, arr, k, g)

LEMMA EncodesOne ==
  ASSUME NEW s, NEW data, NEW k \in {3, 4, 5}, s.shift = k, NEW l, l = 5 - k, NEW r, r = k + 3
  PROVE  /\ EncodeByte(s, data).letters = Append(s.letters, LowFive(s.carry + data \div Power(k)))
         /\ EncodeByte(s, data).carry = data * Power(l)
         /\ EncodeByte(s, data).shift = r
  <1>1. ~(s.shift > 5)
    OBVIOUS
  <1> QED BY <1>1 DEF EncodeByte

LEMMA EncodesTwo ==
  ASSUME NEW s, NEW data, NEW k \in {6, 7, 8}, s.shift = k,
         NEW h, h = k - 5, NEW l, l = 10 - k, NEW r, r = k - 2
  PROVE  /\ EncodeByte(s, data).letters =
              Append(Append(s.letters, LowFive(s.carry + data \div Power(k))),
                     LowFive(data \div Power(h)))
         /\ EncodeByte(s, data).carry = data * Power(l)
         /\ EncodeByte(s, data).shift = r
  <1>1. s.shift > 5 /\ s.shift - 5 = h /\ 5 - h = l /\ h + 3 = r
    OBVIOUS
  <1> QED BY <1>1 DEF EncodeByte

\* The bits that are pushed out of a byte.
LEMMA FiveOfTwo ==
  ASSUME NEW a \in Byte8, NEW b \in Byte8
  PROVE  /\ LowFive(0 + b \div 8) = b \div 8
         /\ LowFive(a * 4 + b \div 64) = (a % 8) * 4 + b \div 64
         /\ LowFive(b \div 2) = (b \div 2) % 32
         /\ LowFive(a * 16 + b \div 16) = (a % 2) * 16 + b \div 16
         /\ LowFive(a * 2 + b \div 128) = (a % 16) * 2 + b \div 128
         /\ LowFive(b \div 4) = (b \div 4) % 32
         /\ LowFive(a * 8 + b \div 32) = (a % 4) * 8 + b \div 32
         /\ LowFive(a + b \div 256) = a % 32
         /\ LowFive(b \div 8) = b \div 8
  BY DEF Byte8, LowFive

LEMMA LetterType ==
  ASSUME NEW arr \in Seq(Byte8), NEW g \in Nat, NEW r \in 0 .. 7
  PROVE  LetterOf(arr, g, r) \in 0 .. 31 /\ LetterOf(arr, g, r) \in Int
  <1>1. PICK a \in Byte8, b \in Byte8, c \in Byte8, d \in Byte8, e \in Byte8 :
          /\ a = At(arr, 5 * g + 1) /\ b = At(arr, 5 * g + 2) /\ c = At(arr, 5 * g + 3)
          /\ d = At(arr, 5 * g + 4) /\ e = At(arr, 5 * g + 5)
    <2>1. /\ 5 * g + 1 \in Int /\ 5 * g + 2 \in Int /\ 5 * g + 3 \in Int
          /\ 5 * g + 4 \in Int /\ 5 * g + 5 \in Int
      OBVIOUS
    <2> QED BY <2>1, AtType
  <1>2. /\ a \div 8 \in 0 .. 31 /\ (a % 8) * 4 + b \div 64 \in 0 .. 31
        /\ (b \div 2) % 32 \in 0 .. 31 /\ (b % 2) * 16 + c \div 16 \in 0 .. 31
        /\ (c % 16) * 2 + d \div 128 \in 0 .. 31 /\ (d \div 4) % 32 \in 0 .. 31
        /\ (d % 4) * 8 + e \div 32 \in 0 .. 31 /\ e % 32 \in 0 .. 31
    BY DEF Byte8
  <1>3. r \in {0, 1, 2, 3, 4, 5, 6, 7}
    OBVIOUS
  <1>4. LetterOf(arr, g, r) \in 0 .. 31
    BY <1>1, <1>2, <1>3 DEF LetterOf
  <1>5. 0 .. 31 \subseteq Int
    OBVIOUS
  <1> QED BY <1>4, <1>5, Zenon

LEMMA NextLetter ==
  ASSUME NEW arr \in Seq(Byte8), NEW g \in Nat, NEW r \in 0 .. 7, NEW letters,
         WrittenTo(letters, arr, 8 * g + r), NEW x, x = LetterOf(arr, g, r)
  PROVE  WrittenTo(Append(letters, x), arr, 8 * g + r + 1)
  <1>1. x \in Int
    BY LetterType, Zenon
  <1>2. x = Letter(arr, 8 * g + r + 1)
    BY LetterIs
  <1>3. PICK n : n = 8 * g + r
    OBVIOUS
  <1>4. WrittenTo(Append(letters, x), arr, n + 1)
    BY <1>1, <1>2, <1>3, OneLetterMore
  <1> QED BY <1>3, <1>4

\* Each turn appends the letters the RFC has there.
LEMMA EncodeStep ==
  ASSUME NEW arr \in Seq(Byte8), NEW k \in Nat, k < Len(arr), NEW s, EncodedTo(s, arr, k)
  PROVE  EncodedTo(EncodeByte(s, arr[k + 1]), arr, k + 1)
  <1> DEFINE data == At(arr, k + 1)
             t == EncodeByte(s, data)
             goal == EncodedTo(t, arr, k + 1)
  <1>1. arr[k + 1] = data /\ data \in Byte8 /\ At(arr, k) \in Byte8
    <2>1. k + 1 \in 1 .. Len(arr) /\ k \in Int /\ k + 1 \in Int
      OBVIOUS
    <2>2. arr[k + 1] = data
      BY <2>1 DEF At
    <2>3. data \in Byte8 /\ At(arr, k) \in Byte8
      BY <2>1, AtType
    <2> QED BY <2>2, <2>3
  <1>i. data \in Int /\ At(arr, k) \in Int
    <2>1. Byte8 \subseteq Int
      BY DEF Byte8
    <2> QED BY <1>1, <2>1, Zenon
  <1> HIDE DEF data
  <1>2. ASSUME k = 0, s.shift = 3, s.carry = 0, WrittenTo(s.letters, arr, 0)
        PROVE  goal
    <2>1. /\ t.letters = Append(s.letters, LowFive(s.carry + data \div Power(3)))
          /\ t.carry = data * Power(2) /\ t.shift = 6
      <3>1. s.shift = 3 /\ 3 \in {3, 4, 5} /\ 2 = 5 - 3 /\ 6 = 3 + 3
        BY <1>2
      <3> QED BY <3>1, EncodesOne
    <2>2. LetterOf(arr, 0, 0) = data \div 8
      BY <1>2 DEF LetterOf, data
    <2>3. LowFive(s.carry + data \div Power(3)) = LetterOf(arr, 0, 0)
      BY <1>1, <1>2, <2>2, FiveOfTwo, Powers
    <2> DEFINE x == LowFive(s.carry + data \div Power(3))
    <2> HIDE DEF t, x
    <2>4. WrittenTo(Append(s.letters, x), arr, 1)
      <3>1. WrittenTo(s.letters, arr, 8 * 0 + 0) /\ 0 \in Nat /\ 0 \in 0 .. 7 /\ x = LetterOf(arr, 0, 0)
        BY <1>2, <2>3 DEF x
      <3>2. WrittenTo(Append(s.letters, x), arr, 8 * 0 + 0 + 1)
        BY <3>1, NextLetter
      <3> QED BY <3>2
    <2>5. WrittenTo(t.letters, arr, 8 * 0 + 1) /\ t.carry = data * 4 /\ k + 1 = 5 * 0 + 1
      BY <1>2, <2>1, <2>4, Powers DEF x
    <2>6. EncodedAt(t, arr, k + 1, 0)
      BY <2>1, <2>5 DEF EncodedAt, data
    <2> QED BY <2>6 DEF EncodedTo
  <1>3. ASSUME NEW g \in Nat, k = 5 * g + 1, s.shift = 6, s.carry = At(arr, k) * 4,
               WrittenTo(s.letters, arr, 8 * g + 1)
        PROVE  goal
    <2> DEFINE x == LowFive(s.carry + data \div Power(6))
               y == LowFive(data \div Power(1))
    <2>1. t.letters = Append(Append(s.letters, x), y) /\ t.carry = data * Power(4) /\ t.shift = 4
      <3>1. /\ s.shift = 6 /\ 6 \in {6, 7, 8} /\ 1 = 6 - 5
            /\ 4 = 10 - 6 /\ 4 = 6 - 2
        BY <1>3
      <3> QED BY <3>1, EncodesTwo
    <2>2. k + 1 = 5 * g + 2
      BY <1>3
    <2>3. At(arr, 5 * g + 1) = At(arr, k) /\ At(arr, 5 * g + 2) = data
      BY <1>3, <2>2 DEF data
    <2>4. x = LetterOf(arr, g, 1) /\ y = LetterOf(arr, g, 2)
      BY <1>1, <1>3, <2>3, FiveOfTwo, Powers DEF LetterOf
    <2> HIDE DEF t, x, y
    <2>5. WrittenTo(Append(s.letters, x), arr, 8 * g + 1 + 1)
      BY <1>3, <2>4, NextLetter
    <2>6. WrittenTo(Append(Append(s.letters, x), y), arr, 8 * g + 3)
      <3>0. g \in Nat
        OBVIOUS
      <3>1. PICK h, l : h \in Nat /\ h = g /\ l = Append(s.letters, x)
        BY <3>0, Zenon
      <3>2. 8 * g + 1 + 1 = 8 * h + 2 /\ 8 * h + 2 + 1 = 8 * g + 3
        BY <3>1
      <3>3. WrittenTo(l, arr, 8 * h + 2) /\ y = LetterOf(arr, h, 2)
        BY <2>4, <2>5, <3>1, <3>2
      <3>4. WrittenTo(Append(l, y), arr, 8 * h + 2 + 1)
        BY <3>1, <3>3, NextLetter
      <3> QED BY <3>1, <3>2, <3>4
    <2>7. WrittenTo(t.letters, arr, 8 * g + 3) /\ t.carry = data * 16
      BY <1>i, <2>1, <2>6, Powers
    <2>8. g \in Nat /\ data = At(arr, k + 1)
      BY DEF data
    <2> QED BY <2>1, <2>2, <2>7, <2>8, Zenon DEF EncodedTo, EncodedAt
  <1>4. ASSUME NEW g \in Nat, k = 5 * g + 2, s.shift = 4, s.carry = At(arr, k) * 16,
               WrittenTo(s.letters, arr, 8 * g + 3)
        PROVE  goal
    <2> DEFINE x == LowFive(s.carry + data \div Power(4))
    <2>1. t.letters = Append(s.letters, x) /\ t.carry = data * Power(1) /\ t.shift = 7
      <3>1. s.shift = 4 /\ 4 \in {3, 4, 5} /\ 1 = 5 - 4 /\ 7 = 4 + 3
        BY <1>4
      <3> QED BY <3>1, EncodesOne
    <2>2. At(arr, 5 * g + 2) = At(arr, k) /\ At(arr, 5 * g + 3) = data
      BY <1>4 DEF data
    <2>3. x = LetterOf(arr, g, 3)
      BY <1>1, <1>4, <2>2, FiveOfTwo, Powers DEF LetterOf
    <2> HIDE DEF t, x
    <2>4. WrittenTo(Append(s.letters, x), arr, 8 * g + 3 + 1)
      BY <1>4, <2>3, NextLetter
    <2>5. /\ WrittenTo(t.letters, arr, 8 * g + 4) /\ t.carry = data * 2
          /\ k + 1 = 5 * g + 3
      <3>1. 8 * g + 3 + 1 = 8 * g + 4 /\ k + 1 = 5 * g + 3
        BY <1>4
      <3> QED BY <1>i, <2>1, <2>4, <3>1, Powers
    <2> QED BY <2>1, <2>5 DEF EncodedTo, EncodedAt, data
  <1>5. ASSUME NEW g \in Nat, k = 5 * g + 3, s.shift = 7, s.carry = At(arr, k) * 2,
               WrittenTo(s.letters, arr, 8 * g + 4)
        PROVE  goal
    <2> DEFINE x == LowFive(s.carry + data \div Power(7))
               y == LowFive(data \div Power(2))
    <2>1. t.letters = Append(Append(s.letters, x), y) /\ t.carry = data * Power(3) /\ t.shift = 5
      <3>1. /\ s.shift = 7 /\ 7 \in {6, 7, 8} /\ 2 = 7 - 5
            /\ 3 = 10 - 7 /\ 5 = 7 - 2
        BY <1>5
      <3> QED BY <3>1, EncodesTwo
    <2>2. k + 1 = 5 * g + 4
      BY <1>5
    <2>3. At(arr, 5 * g + 3) = At(arr, k) /\ At(arr, 5 * g + 4) = data
      BY <1>5, <2>2 DEF data
    <2>4. x = LetterOf(arr, g, 4) /\ y = LetterOf(arr, g, 5)
      BY <1>1, <1>5, <2>3, FiveOfTwo, Powers DEF LetterOf
    <2> HIDE DEF t, x, y
    <2>5. WrittenTo(Append(s.letters, x), arr, 8 * g + 4 + 1)
      BY <1>5, <2>4, NextLetter
    <2>6. WrittenTo(Append(Append(s.letters, x), y), arr, 8 * g + 6)
      <3>0. g \in Nat
        OBVIOUS
      <3>1. PICK h, l : h \in Nat /\ h = g /\ l = Append(s.letters, x)
        BY <3>0, Zenon
      <3>2. 8 * g + 4 + 1 = 8 * h + 5 /\ 8 * h + 5 + 1 = 8 * g + 6
        BY <3>1
      <3>3. WrittenTo(l, arr, 8 * h + 5) /\ y = LetterOf(arr, h, 5)
        BY <2>4, <2>5, <3>1, <3>2
      <3>4. WrittenTo(Append(l, y), arr, 8 * h + 5 + 1)
        BY <3>1, <3>3, NextLetter
      <3> QED BY <3>1, <3>2, <3>4
    <2>7. WrittenTo(t.letters, arr, 8 * g + 6) /\ t.carry = data * 8
      BY <1>i, <2>1, <2>6, Powers
    <2>8. g \in Nat /\ data = At(arr, k + 1)
      BY DEF data
    <2> QED BY <2>1, <2>2, <2>7, <2>8, Zenon DEF EncodedTo, EncodedAt
  <1>6. ASSUME NEW g \in Nat, k = 5 * g + 4, s.shift = 5, s.carry = At(arr, k) * 8,
               WrittenTo(s.letters, arr, 8 * g + 6)
        PROVE  goal
    <2> DEFINE x == LowFive(s.carry + data \div Power(5))
    <2>1. t.letters = Append(s.letters, x) /\ t.carry = data * Power(0) /\ t.shift = 8
      <3>1. s.shift = 5 /\ 5 \in {3, 4, 5} /\ 0 = 5 - 5 /\ 8 = 5 + 3
        BY <1>6
      <3> QED BY <3>1, EncodesOne
    <2>2. At(arr, 5 * g + 4) = At(arr, k) /\ At(arr, 5 * g + 5) = data
      BY <1>6 DEF data
    <2>3. x = LetterOf(arr, g, 6)
      BY <1>1, <1>6, <2>2, FiveOfTwo, Powers DEF LetterOf
    <2> HIDE DEF t, x
    <2>4. WrittenTo(Append(s.letters, x), arr, 8 * g + 6 + 1)
      BY <1>6, <2>3, NextLetter
    <2>5. /\ WrittenTo(t.letters, arr, 8 * g + 7) /\ t.carry = data
          /\ k + 1 = 5 * g + 5
      <3>1. 8 * g + 6 + 1 = 8 * g + 7 /\ k + 1 = 5 * g + 5
        BY <1>6
      <3> QED BY <1>i, <2>1, <2>4, <3>1, Powers
    <2> QED BY <2>1, <2>5 DEF EncodedTo, EncodedAt, data
  <1>7. ASSUME NEW g \in Nat, k = 5 * g + 5, s.shift = 8, s.carry = At(arr, k),
               WrittenTo(s.letters, arr, 8 * g + 7)
        PROVE  goal
    <2> DEFINE x == LowFive(s.carry + data \div Power(8))
               y == LowFive(data \div Power(3))
    <2>1. t.letters = Append(Append(s.letters, x), y) /\ t.carry = data * Power(2) /\ t.shift = 6
      <3>1. /\ s.shift = 8 /\ 8 \in {6, 7, 8} /\ 3 = 8 - 5
            /\ 2 = 10 - 8 /\ 6 = 8 - 2
        BY <1>7
      <3> QED BY <3>1, EncodesTwo
    <2>2. k + 1 = 5 * (g + 1) + 1
      BY <1>7
    <2>3. At(arr, 5 * g + 5) = At(arr, k) /\ At(arr, 5 * (g + 1) + 1) = data
      BY <1>7, <2>2 DEF data
    <2>4. x = LetterOf(arr, g, 7) /\ y = LetterOf(arr, g + 1, 0)
      BY <1>1, <1>7, <2>3, FiveOfTwo, Powers DEF LetterOf
    <2> HIDE DEF t, x, y
    <2>5. WrittenTo(Append(s.letters, x), arr, 8 * g + 7 + 1)
      BY <1>7, <2>4, NextLetter
    <2>6. WrittenTo(Append(Append(s.letters, x), y), arr, 8 * (g + 1) + 1)
      <3>0. g + 1 \in Nat
        OBVIOUS
      <3>1. PICK h, l : h \in Nat /\ h = g + 1 /\ l = Append(s.letters, x)
        BY <3>0, Zenon
      <3>2. 8 * g + 7 + 1 = 8 * h + 0 /\ 8 * h + 0 + 1 = 8 * (g + 1) + 1
        BY <3>1
      <3>3. WrittenTo(l, arr, 8 * h + 0) /\ y = LetterOf(arr, h, 0)
        BY <2>4, <2>5, <3>1, <3>2
      <3>4. WrittenTo(Append(l, y), arr, 8 * h + 0 + 1)
        BY <3>1, <3>3, NextLetter
      <3> QED BY <3>1, <3>2, <3>4
    <2>7. WrittenTo(t.letters, arr, 8 * (g + 1) + 1) /\ t.carry = data * 4
      BY <1>i, <2>1, <2>6, Powers
    <2>8. (g + 1) \in Nat /\ data = At(arr, k + 1)
      BY DEF data
    <2> QED BY <2>1, <2>2, <2>7, <2>8, Zenon DEF EncodedTo, EncodedAt
  <1>8. goal
    <2>1. PICK g \in Nat : EncodedAt(s, arr, k, g)
      BY DEF EncodedTo
    <2> HIDE DEF goal
    <2> QED BY <1>2, <1>3, <1>4, <1>5, <1>6, <1>7, <2>1 DEF EncodedAt
  <1> QED BY <1>1, <1>8

EncodeStates == [letters : Seq(Int), carry : Int, shift : 3 .. 8]

EncodeStart == [letters |-> <<>>, carry |-> 0, shift |-> 3]

LEMMA IntOps ==
  ASSUME NEW n \in Int, NEW p \in {1, 2, 4, 8, 16, 32, 64, 128, 256}
  PROVE  n * p \in Int /\ n \div p \in Int /\ LowFive(n) \in Int
  BY DEF LowFive

LEMMA PowerType ==
  ASSUME NEW k \in 0 .. 8
  PROVE  Power(k) \in {1, 2, 4, 8, 16, 32, 64, 128, 256}
  <1>1. k \in {0, 1, 2, 3, 4, 5, 6, 7, 8}
    OBVIOUS
  <1> QED BY <1>1, Powers

LEMMA EncodeByteType ==
  ASSUME NEW s \in EncodeStates, NEW data \in Int
  PROVE  EncodeByte(s, data) \in EncodeStates
  <1>1. s.letters \in Seq(Int) /\ s.carry \in Int /\ s.shift \in 3 .. 8
    BY DEF EncodeStates
  <1>2. CASE s.shift > 5
    <2> DEFINE x == LowFive(s.carry + data \div Power(s.shift))
               y == LowFive(data \div Power(s.shift - 5))
               c == data * Power(5 - (s.shift - 5))
    <2>1. EncodeByte(s, data) = [letters |-> Append(Append(s.letters, x), y), carry |-> c,
                                 shift |-> s.shift - 5 + 3]
      BY <1>2 DEF EncodeByte
    <2>2. x \in Int /\ y \in Int /\ c \in Int
      <3>1. s.shift \in 0 .. 8 /\ s.shift - 5 \in 0 .. 8 /\ 5 - (s.shift - 5) \in 0 .. 8
        BY <1>1, <1>2
      <3>2. data \div Power(s.shift) \in Int /\ data \div Power(s.shift - 5) \in Int /\ c \in Int
        BY <3>1, PowerType, IntOps
      <3>3. s.carry + data \div Power(s.shift) \in Int
        BY <1>1, <3>2
      <3>4. 1 \in {1, 2, 4, 8, 16, 32, 64, 128, 256}
        OBVIOUS
      <3> QED BY <3>2, <3>3, <3>4, IntOps, Zenon
    <2> HIDE DEF x, y, c
    <2> QED BY <1>1, <1>2, <2>1, <2>2 DEF EncodeStates
  <1>3. CASE ~(s.shift > 5)
    <2> DEFINE x == LowFive(s.carry + data \div Power(s.shift))
               c == data * Power(5 - s.shift)
    <2>1. EncodeByte(s, data) = [letters |-> Append(s.letters, x), carry |-> c,
                                 shift |-> s.shift + 3]
      BY <1>3 DEF EncodeByte
    <2>2. x \in Int /\ c \in Int
      <3>1. s.shift \in 0 .. 8 /\ 5 - s.shift \in 0 .. 8
        BY <1>1, <1>3
      <3>2. data \div Power(s.shift) \in Int /\ c \in Int
        BY <3>1, PowerType, IntOps
      <3>3. s.carry + data \div Power(s.shift) \in Int
        BY <1>1, <3>2
      <3>4. 1 \in {1, 2, 4, 8, 16, 32, 64, 128, 256}
        OBVIOUS
      <3> QED BY <3>2, <3>3, <3>4, IntOps, Zenon
    <2> HIDE DEF x, c
    <2> QED BY <1>1, <1>3, <2>1, <2>2 DEF EncodeStates
  <1> QED BY <1>2, <1>3

\* What the loop leaves.
LEMMA EncodedBytes ==
  ASSUME NEW arr \in Seq(Byte8)
  PROVE  EncodedTo(EncodeBytes(arr), arr, Len(arr))
  <1> DEFINE n == Len(arr)
             step == [p \in (1 .. n) \X EncodeStates |-> EncodeByte(p[2], arr[p[1]])]
             Turns(f) == f = [i \in 0 .. n |-> IF i = 0 THEN [letters |-> <<>>, carry |-> 0, shift |-> 3]
                                               ELSE EncodeByte(f[i - 1], arr[i])]
             turns == CHOOSE f : Turns(f)
  <1>n. n \in Nat /\ \A i \in 1 .. n : arr[i] \in Int
    <2>1. n \in Nat /\ \A i \in 1 .. n : arr[i] \in Byte8
      OBVIOUS
    <2>2. Byte8 \subseteq Int
      BY DEF Byte8
    <2> HIDE DEF n
    <2> QED BY <2>1, <2>2
  <1>0. EncodeStart \in EncodeStates
    BY DEF EncodeStart, EncodeStates
  <1>1. step \in [(1 .. n) \X EncodeStates -> EncodeStates]
    BY <1>n, EncodeByteType
  <1>2. \E f : Recurs(f, n, EncodeStates, EncodeStart, step)
    <2> HIDE DEF n, step
    <2> QED BY <1>n, <1>0, <1>1, RecursionSolved, Zenon
  <1>3. PICK f : Recurs(f, n, EncodeStates, EncodeStart, step)
    BY <1>2
  <1>4. f \in [0 .. n -> EncodeStates] /\ f[0] = EncodeStart
    BY <1>3 DEF Recurs
  <1>5. ASSUME NEW i \in 1 .. n PROVE f[i] = EncodeByte(f[i - 1], arr[i])
    <2>1. f[i] = step[<<i, f[i - 1]>>]
      <3> HIDE DEF n, step
      <3> QED BY <1>3 DEF Recurs
    <2>2. f[i - 1] \in EncodeStates
      <3> HIDE DEF n, step
      <3> QED BY <1>4, <1>n
    <2> QED BY <2>1, <2>2
  <1>6. Turns(f)
    <2> HIDE DEF n, step
    <2> QED BY <1>4, <1>5 DEF EncodeStart
  <1>7. Turns(turns)
    <2> HIDE DEF Turns
    <2> QED BY <1>6
  <1>8. turns[0] = EncodeStart /\ \A i \in 1 .. n : turns[i] = EncodeByte(turns[i - 1], arr[i])
    <2> HIDE DEF n, turns
    <2> QED BY <1>n, <1>7 DEF EncodeStart
  <1>9. EncodeBytes(arr) = turns[n]
    BY DEF EncodeBytes
  <1> DEFINE T == {k \in Nat : k <= n => EncodedTo(turns[k], arr, k)}
  <1> HIDE DEF turns
  <1>10. 0 \in T
    <2>1. turns[0].letters = <<>> /\ turns[0].carry = 0 /\ turns[0].shift = 3
      BY <1>8 DEF EncodeStart
    <2>2. WrittenTo(turns[0].letters, arr, 0)
      BY <2>1 DEF WrittenTo
    <2>3. EncodedAt(turns[0], arr, 0, 0)
      BY <2>1, <2>2 DEF EncodedAt
    <2> QED BY <2>3 DEF EncodedTo
  <1>11. ASSUME NEW k \in Nat, k \in T PROVE k + 1 \in T
    <2>1. SUFFICES ASSUME k + 1 <= n PROVE EncodedTo(turns[k + 1], arr, k + 1)
      OBVIOUS
    <2>2. EncodedTo(turns[k], arr, k) /\ k < Len(arr) /\ k + 1 \in 1 .. n /\ (k + 1) - 1 = k
      BY <1>11, <1>n, <2>1
    <2>3. turns[k + 1] = EncodeByte(turns[k], arr[k + 1])
      BY <1>8, <2>2
    <2> QED BY <2>2, <2>3, EncodeStep
  <1>12. Nat \subseteq T
    <2> HIDE DEF T
    <2> QED BY <1>10, <1>11, NatSetInduction
  <1> QED BY <1>n, <1>9, <1>12

Letters(arr) == [i \in 1 .. (8 * Len(arr) + 4) \div 5 |-> Letter(arr, i)]

LEMMA WrittenIs ==
  ASSUME NEW arr, NEW letters, WrittenTo(letters, arr, (8 * Len(arr) + 4) \div 5)
  PROVE  letters = Letters(arr)
  BY DEF WrittenTo, Letters

LEMMA FiveLeft ==
  ASSUME NEW a \in Byte8
  PROVE  /\ LowFive(a * 4) = (a % 8) * 4 + 0 \div 64
         /\ LowFive(a * 16) = (a % 2) * 16 + 0 \div 16
         /\ LowFive(a * 2) = (a % 16) * 2 + 0 \div 128
         /\ LowFive(a * 8) = (a % 4) * 8 + 0 \div 32
         /\ LowFive(a) = a % 32
  BY DEF Byte8, LowFive

\* The text of any bytes is these letters.
LEMMA EncodeExact ==
  ASSUME NEW arr \in Seq(Byte8)
  PROVE  EncodeBase32(arr) = Letters(arr)
  <1> DEFINE k == Len(arr)
             s == EncodeBytes(arr)
             count == (8 * k + 4) \div 5
             x == LowFive(s.carry)
  <1>1. PICK g \in Nat : EncodedAt(s, arr, k, g)
    BY EncodedBytes DEF EncodedTo
  <1>2. k \in Nat /\ At(arr, k) \in Byte8 /\ At(arr, k + 1) = 0
    <2>1. k \in Nat /\ ~(k + 1 \in 1 .. k)
      OBVIOUS
    <2> QED BY <2>1, AtType DEF At
  <1>3. EncodeBase32(arr) = IF s.shift # 3 THEN Append(s.letters, x) ELSE s.letters
    BY DEF EncodeBase32
  <1> HIDE DEF s, x, k
  <1>4. CASE k = 0 /\ s.shift = 3 /\ WrittenTo(s.letters, arr, 0)
    <2>1. count = 0
      BY <1>4
    <2> QED BY <1>3, <1>4, <2>1, WrittenIs DEF k
  <1>5. CASE /\ k = 5 * g + 1 /\ s.shift = 6 /\ s.carry = At(arr, k) * 4
             /\ WrittenTo(s.letters, arr, 8 * g + 1)
    <2>1. count = 8 * g + 1 + 1
      BY <1>5
    <2>2. At(arr, 5 * g + 1) = At(arr, k) /\ At(arr, 5 * g + 2) = 0
      BY <1>2, <1>5
    <2>3. x = LetterOf(arr, g, 1)
      BY <1>2, <1>5, <2>2, FiveLeft DEF LetterOf, x
    <2>4. WrittenTo(Append(s.letters, x), arr, 8 * g + 1 + 1)
      BY <1>5, <2>3, NextLetter
    <2>5. WrittenTo(Append(s.letters, x), arr, (8 * Len(arr) + 4) \div 5)
      BY <2>1, <2>4, Zenon DEF k
    <2>6. EncodeBase32(arr) = Append(s.letters, x)
      BY <1>3, <1>5
    <2> QED BY <2>5, <2>6, WrittenIs
  <1>6. CASE /\ k = 5 * g + 2 /\ s.shift = 4 /\ s.carry = At(arr, k) * 16
             /\ WrittenTo(s.letters, arr, 8 * g + 3)
    <2>1. count = 8 * g + 3 + 1
      BY <1>6
    <2>2. At(arr, 5 * g + 2) = At(arr, k) /\ At(arr, 5 * g + 3) = 0
      BY <1>2, <1>6
    <2>3. x = LetterOf(arr, g, 3)
      BY <1>2, <1>6, <2>2, FiveLeft DEF LetterOf, x
    <2>4. WrittenTo(Append(s.letters, x), arr, 8 * g + 3 + 1)
      BY <1>6, <2>3, NextLetter
    <2>5. WrittenTo(Append(s.letters, x), arr, (8 * Len(arr) + 4) \div 5)
      BY <2>1, <2>4, Zenon DEF k
    <2>6. EncodeBase32(arr) = Append(s.letters, x)
      BY <1>3, <1>6
    <2> QED BY <2>5, <2>6, WrittenIs
  <1>7. CASE /\ k = 5 * g + 3 /\ s.shift = 7 /\ s.carry = At(arr, k) * 2
             /\ WrittenTo(s.letters, arr, 8 * g + 4)
    <2>1. count = 8 * g + 4 + 1
      BY <1>7
    <2>2. At(arr, 5 * g + 3) = At(arr, k) /\ At(arr, 5 * g + 4) = 0
      BY <1>2, <1>7
    <2>3. x = LetterOf(arr, g, 4)
      BY <1>2, <1>7, <2>2, FiveLeft DEF LetterOf, x
    <2>4. WrittenTo(Append(s.letters, x), arr, 8 * g + 4 + 1)
      BY <1>7, <2>3, NextLetter
    <2>5. WrittenTo(Append(s.letters, x), arr, (8 * Len(arr) + 4) \div 5)
      BY <2>1, <2>4, Zenon DEF k
    <2>6. EncodeBase32(arr) = Append(s.letters, x)
      BY <1>3, <1>7
    <2> QED BY <2>5, <2>6, WrittenIs
  <1>8. CASE /\ k = 5 * g + 4 /\ s.shift = 5 /\ s.carry = At(arr, k) * 8
             /\ WrittenTo(s.letters, arr, 8 * g + 6)
    <2>1. count = 8 * g + 6 + 1
      BY <1>8
    <2>2. At(arr, 5 * g + 4) = At(arr, k) /\ At(arr, 5 * g + 5) = 0
      BY <1>2, <1>8
    <2>3. x = LetterOf(arr, g, 6)
      BY <1>2, <1>8, <2>2, FiveLeft DEF LetterOf, x
    <2>4. WrittenTo(Append(s.letters, x), arr, 8 * g + 6 + 1)
      BY <1>8, <2>3, NextLetter
    <2>5. WrittenTo(Append(s.letters, x), arr, (8 * Len(arr) + 4) \div 5)
      BY <2>1, <2>4, Zenon DEF k
    <2>6. EncodeBase32(arr) = Append(s.letters, x)
      BY <1>3, <1>8
    <2> QED BY <2>5, <2>6, WrittenIs
  <1>9. CASE /\ k = 5 * g + 5 /\ s.shift = 8 /\ s.carry = At(arr, k)
             /\ WrittenTo(s.letters, arr, 8 * g + 7)
    <2>1. count = 8 * g + 7 + 1
      BY <1>9
    <2>2. At(arr, 5 * g + 5) = At(arr, k)
      BY <1>2, <1>9
    <2>3. x = LetterOf(arr, g, 7)
      BY <1>2, <1>9, <2>2, FiveLeft DEF LetterOf, x
    <2>4. WrittenTo(Append(s.letters, x), arr, 8 * g + 7 + 1)
      BY <1>9, <2>3, NextLetter
    <2>5. WrittenTo(Append(s.letters, x), arr, (8 * Len(arr) + 4) \div 5)
      BY <2>1, <2>4, Zenon DEF k
    <2>6. EncodeBase32(arr) = Append(s.letters, x)
      BY <1>3, <1>9
    <2> QED BY <2>5, <2>6, WrittenIs
  <1> QED BY <1>1, <1>4, <1>5, <1>6, <1>7, <1>8, <1>9 DEF EncodedAt

LEMMA ReferenceExact ==
  ASSUME bytes \in Seq(Byte8)
  PROVE  Base32Reference = Letters(bytes)
  <1> DEFINE n == (8 * Len(bytes) + 4) \div 5
  <1>1. ASSUME NEW i \in 1 .. n PROVE Reference(i) = Letter(bytes, i)
    <2>0. n \in Int
      OBVIOUS
    <2>1. i \in Nat /\ i > 0
      BY <2>0
    <2>2. PICK g \in Nat, r \in 0 .. 7 : i = 8 * g + r + 1
      BY <2>1, Octave
    <2> QED BY <2>2, ReferenceIs, LetterIs
  <1>2. Base32Reference = [i \in 1 .. n |-> Reference(i)]
    BY DEF Base32Reference, Reference
  <1>3. Letters(bytes) = [i \in 1 .. n |-> Letter(bytes, i)]
    BY DEF Letters
  <1> HIDE DEF n
  <1> QED BY <1>1, <1>2, <1>3

-----------------------------------------------------------------------------

\* The first n bytes.
BytesTo(result, arr, n) ==
  /\ result \in Seq(Int) /\ n \in Nat /\ Len(result) = n
  /\ \A j \in 1 .. n : result[j] = At(arr, j)

LEMMA OneByteMore ==
  ASSUME NEW arr, NEW n, NEW result, BytesTo(result, arr, n), NEW x \in Int, x = At(arr, n + 1)
  PROVE  BytesTo(Append(result, x), arr, n + 1)
  <1>1. result \in Seq(Int) /\ n \in Nat /\ Len(result) = n
    BY DEF BytesTo
  <1>2. /\ Append(result, x) \in Seq(Int) /\ Len(Append(result, x)) = n + 1
        /\ Append(result, x)[n + 1] = x
        /\ \A j \in 1 .. n : Append(result, x)[j] = result[j]
    BY <1>1
  <1>3. ASSUME NEW j \in 1 .. n + 1 PROVE Append(result, x)[j] = At(arr, j)
    <2>1. CASE j = n + 1
      BY <1>2, <2>1
    <2>2. CASE j # n + 1
      <3>1. j \in 1 .. n
        BY <1>1, <2>2
      <3> QED BY <1>2, <3>1 DEF BytesTo
    <2> QED BY <2>1, <2>2
  <1> QED BY <1>1, <1>2, <1>3 DEF BytesTo

LEMMA BytesAre ==
  ASSUME NEW arr \in Seq(Byte8), NEW result, BytesTo(result, arr, Len(arr))
  PROVE  result = arr
  <1>1. \A j \in 1 .. Len(arr) : result[j] = arr[j]
    BY DEF BytesTo, At
  <1> QED BY <1>1 DEF BytesTo

\* Where the loop is after m letters: the bytes that are full, the first bits of
\* the next one, in their place, and how many of it are missing.
DecodedAt(s, arr, m, g) ==
  \/ /\ m = 8 * g /\ s.shift = 8 /\ s.carry = 0
     /\ BytesTo(s.result, arr, 5 * g)
  \/ /\ m = 8 * g + 1 /\ s.shift = 3 /\ s.carry = (At(arr, 5 * g + 1) \div 8) * 8
     /\ BytesTo(s.result, arr, 5 * g)
  \/ /\ m = 8 * g + 2 /\ s.shift = 6 /\ s.carry = (At(arr, 5 * g + 2) \div 64) * 64
     /\ BytesTo(s.result, arr, 5 * g + 1)
  \/ /\ m = 8 * g + 3 /\ s.shift = 1 /\ s.carry = (At(arr, 5 * g + 2) \div 2) * 2
     /\ BytesTo(s.result, arr, 5 * g + 1)
  \/ /\ m = 8 * g + 4 /\ s.shift = 4 /\ s.carry = (At(arr, 5 * g + 3) \div 16) * 16
     /\ BytesTo(s.result, arr, 5 * g + 2)
  \/ /\ m = 8 * g + 5 /\ s.shift = 7 /\ s.carry = (At(arr, 5 * g + 4) \div 128) * 128
     /\ BytesTo(s.result, arr, 5 * g + 3)
  \/ /\ m = 8 * g + 6 /\ s.shift = 2 /\ s.carry = (At(arr, 5 * g + 4) \div 4) * 4
     /\ BytesTo(s.result, arr, 5 * g + 3)
  \/ /\ m = 8 * g + 7 /\ s.shift = 5 /\ s.carry = (At(arr, 5 * g + 5) \div 32) * 32
     /\ BytesTo(s.result, arr, 5 * g + 4)

DecodedTo(s, arr, m) == \E g \in Nat : DecodedAt(s, arr, m, g)

LEMMA DecodesMore ==
  ASSUME NEW s, NEW value, s \in [result : Seq(Int), carry : Int, shift : Int],
         NEW k \in {1, 2, 3}, s.shift = k + 5
  PROVE  /\ DecodeLetter(s, value).result = s.result
         /\ DecodeLetter(s, value).carry = s.carry + value * Power(k)
         /\ DecodeLetter(s, value).shift = k
  <1>1. s.shift > 5 /\ s.shift - 5 = k
    OBVIOUS
  <1>2. ~(s.shift < 5) /\ s.shift # 5
    OBVIOUS
  <1>3. DecodeLetter(s, value) = [s EXCEPT !.carry = s.carry + value * Power(s.shift - 5),
                                           !.shift = s.shift - 5]
    BY <1>1, <1>2 DEF DecodeLetter
  <1> QED BY <1>1, <1>3

LEMMA DecodesByte ==
  ASSUME NEW s, NEW value, NEW k \in {1, 2, 3, 4}, s.shift = k, NEW l, l = 5 - k, NEW r, r = k + 3
  PROVE  /\ DecodeLetter(s, value).result = Append(s.result, s.carry + value \div Power(l))
         /\ DecodeLetter(s, value).carry = (value * Power(r)) % 256
         /\ DecodeLetter(s, value).shift = r
  <1>1. ~(s.shift > 5) /\ s.shift < 5 /\ s.shift # 5
    OBVIOUS
  <1> QED BY <1>1 DEF DecodeLetter

LEMMA DecodesLast ==
  ASSUME NEW s, NEW value, s.shift = 5
  PROVE  /\ DecodeLetter(s, value).result = Append(s.result, s.carry + value)
         /\ DecodeLetter(s, value).carry = 0
         /\ DecodeLetter(s, value).shift = 8
  <1>1. ~(s.shift > 5) /\ ~(s.shift < 5)
    OBVIOUS
  <1> QED BY <1>1 DEF DecodeLetter

\* The bits that are put together, of a byte and the next.
LEMMA PutTogether ==
  ASSUME NEW a \in Byte8, NEW b \in Byte8
  PROVE  /\ 0 + (a \div 8) * 8 = (a \div 8) * 8
         /\ (a \div 8) * 8 + ((a % 8) * 4 + b \div 64) \div 4 = a
         /\ (((a % 8) * 4 + b \div 64) * 64) % 256 = (b \div 64) * 64
         /\ (a \div 64) * 64 + ((a \div 2) % 32) * 2 = (a \div 2) * 2
         /\ (a \div 2) * 2 + ((a % 2) * 16 + b \div 16) \div 16 = a
         /\ (((a % 2) * 16 + b \div 16) * 16) % 256 = (b \div 16) * 16
         /\ (a \div 16) * 16 + ((a % 16) * 2 + b \div 128) \div 2 = a
         /\ (((a % 16) * 2 + b \div 128) * 128) % 256 = (b \div 128) * 128
         /\ (a \div 128) * 128 + ((a \div 4) % 32) * 4 = (a \div 4) * 4
         /\ (a \div 4) * 4 + ((a % 4) * 8 + b \div 32) \div 8 = a
         /\ (((a % 4) * 8 + b \div 32) * 32) % 256 = (b \div 32) * 32
         /\ (a \div 32) * 32 + (a % 32) = a
  <1>1. 0 + (a \div 8) * 8 = (a \div 8) * 8
    BY DEF Byte8
  <1>2. (a \div 8) * 8 + ((a % 8) * 4 + b \div 64) \div 4 = a
    BY DEF Byte8
  <1>3. (((a % 8) * 4 + b \div 64) * 64) % 256 = (b \div 64) * 64
    BY DEF Byte8
  <1>4. (a \div 64) * 64 + ((a \div 2) % 32) * 2 = (a \div 2) * 2
    BY DEF Byte8
  <1>5. (a \div 2) * 2 + ((a % 2) * 16 + b \div 16) \div 16 = a
    BY DEF Byte8
  <1>6. (((a % 2) * 16 + b \div 16) * 16) % 256 = (b \div 16) * 16
    BY DEF Byte8
  <1>7. (a \div 16) * 16 + ((a % 16) * 2 + b \div 128) \div 2 = a
    BY DEF Byte8
  <1>8. (((a % 16) * 2 + b \div 128) * 128) % 256 = (b \div 128) * 128
    BY DEF Byte8
  <1>9. (a \div 128) * 128 + ((a \div 4) % 32) * 4 = (a \div 4) * 4
    BY DEF Byte8
  <1>10. (a \div 4) * 4 + ((a % 4) * 8 + b \div 32) \div 8 = a
    BY DEF Byte8
  <1>11. (((a % 4) * 8 + b \div 32) * 32) % 256 = (b \div 32) * 32
    BY DEF Byte8
  <1>12. (a \div 32) * 32 + (a % 32) = a
    BY DEF Byte8
  <1> QED BY <1>1, <1>2, <1>3, <1>4, <1>5, <1>6, <1>7, <1>8, <1>9, <1>10, <1>11, <1>12

DecodeStates == [result : Seq(Int), carry : Int, shift : 1 .. 8]

DecodeStart == [result |-> <<>>, carry |-> 0, shift |-> 8]

\* Each turn puts the bits of a letter where they were.
LEMMA DecodeStep ==
  ASSUME NEW arr \in Seq(Byte8), NEW m \in Nat, NEW s \in DecodeStates, DecodedTo(s, arr, m),
         NEW value, value = Letter(arr, m + 1)
  PROVE  DecodedTo(DecodeLetter(s, value), arr, m + 1)
  <1> DEFINE t == DecodeLetter(s, value)
             goal == DecodedTo(t, arr, m + 1)
  <1>0. PICK g \in Nat : DecodedAt(s, arr, m, g)
    BY DEF DecodedTo
  <1>1. PICK a1 \in Byte8, a2 \in Byte8, a3 \in Byte8, a4 \in Byte8, a5 \in Byte8 :
          /\ a1 = At(arr, 5 * g + 1) /\ a2 = At(arr, 5 * g + 2) /\ a3 = At(arr, 5 * g + 3)
          /\ a4 = At(arr, 5 * g + 4) /\ a5 = At(arr, 5 * g + 5)
    <2>1. /\ 5 * g + 1 \in Int /\ 5 * g + 2 \in Int /\ 5 * g + 3 \in Int
          /\ 5 * g + 4 \in Int /\ 5 * g + 5 \in Int
      OBVIOUS
    <2> QED BY <2>1, AtType
  <1>i. /\ a1 \in Int /\ a2 \in Int /\ a3 \in Int /\ a4 \in Int /\ a5 \in Int
    <2>1. Byte8 \subseteq Int
      BY DEF Byte8
    <2> QED BY <2>1, Zenon
  <1>s. s \in [result : Seq(Int), carry : Int, shift : Int]
    BY DEF DecodeStates
  <1>2. CASE /\ m = 8 * g /\ s.shift = 8 /\ s.carry = 0
             /\ BytesTo(s.result, arr, 5 * g)
    <2>1. value = a1 \div 8
      <3>1. Letter(arr, 8 * g + 0 + 1) = LetterOf(arr, g, 0)
        BY LetterIs
      <3>2. m + 1 = 8 * g + 0 + 1
        BY <1>2
      <3>3. LetterOf(arr, g, 0) = a1 \div 8
        BY <1>1 DEF LetterOf
      <3> QED BY <3>1, <3>2, <3>3
    <2>2. s.carry = 0
      BY <1>1, <1>2
    <2>3. /\ t.result = s.result /\ t.carry = s.carry + value * Power(3) /\ t.shift = 3
      <3>1. s.shift = 3 + 5 /\ 3 \in {1, 2, 3}
        BY <1>2
      <3> QED BY <1>s, <3>1, DecodesMore
    <2> HIDE DEF t
    <2>4. t.carry = (a1 \div 8) * 8
      BY <2>1, <2>2, <2>3, PutTogether, Powers
    <2>5. BytesTo(t.result, arr, 5 * g) /\ m + 1 = 8 * g + 1
      BY <1>2, <2>3
    <2>6. DecodedAt(t, arr, m + 1, g)
      BY <1>1, <2>3, <2>4, <2>5 DEF DecodedAt
    <2>7. g \in Nat
      OBVIOUS
    <2> QED BY <2>6, <2>7 DEF DecodedTo, t
  <1>3. CASE /\ m = 8 * g + 1 /\ s.shift = 3 /\ s.carry = (At(arr, 5 * g + 1) \div 8) * 8
             /\ BytesTo(s.result, arr, 5 * g)
    <2>1. value = (a1 % 8) * 4 + a2 \div 64
      <3>1. Letter(arr, 8 * g + 1 + 1) = LetterOf(arr, g, 1)
        BY LetterIs
      <3>2. m + 1 = 8 * g + 1 + 1
        BY <1>3
      <3>3. LetterOf(arr, g, 1) = (a1 % 8) * 4 + a2 \div 64
        BY <1>1 DEF LetterOf
      <3> QED BY <3>1, <3>2, <3>3
    <2>2. s.carry = (a1 \div 8) * 8
      BY <1>1, <1>3
    <2>3. /\ t.result = Append(s.result, s.carry + value \div Power(2))
          /\ t.carry = (value * Power(6)) % 256 /\ t.shift = 6
      <3>1. s.shift = 3 /\ 3 \in {1, 2, 3, 4} /\ 2 = 5 - 3 /\ 6 = 3 + 3
        BY <1>3
      <3> QED BY <3>1, DecodesByte
    <2> HIDE DEF t
    <2>4. s.carry + value \div Power(2) = a1 /\ t.carry = (a2 \div 64) * 64
      <3>1. (a1 \div 8) * 8 + ((a1 % 8) * 4 + a2 \div 64) \div 4 = a1
        BY PutTogether
      <3>2. (((a1 % 8) * 4 + a2 \div 64) * 64) % 256 = (a2 \div 64) * 64
        BY PutTogether
      <3>3. Power(2) = 4 /\ Power(6) = 64
        BY Powers
      <3> QED BY <2>1, <2>2, <2>3, <3>1, <3>2, <3>3
    <2>5. BytesTo(t.result, arr, 5 * g + 1) /\ m + 1 = 8 * g + 2
      <3>1. PICK n : n = 5 * g
        OBVIOUS
      <3>2. n + 1 = 5 * g + 1 /\ a1 = At(arr, n + 1) /\ m + 1 = 8 * g + 2
        BY <1>1, <1>3, <3>1
      <3>3. BytesTo(Append(s.result, a1), arr, n + 1)
        BY <1>i, <1>3, <3>1, <3>2, OneByteMore
      <3> QED BY <2>3, <2>4, <3>2, <3>3
    <2>6. DecodedAt(t, arr, m + 1, g)
      BY <1>1, <2>3, <2>4, <2>5 DEF DecodedAt
    <2>7. g \in Nat
      OBVIOUS
    <2> QED BY <2>6, <2>7 DEF DecodedTo, t
  <1>4. CASE /\ m = 8 * g + 2 /\ s.shift = 6 /\ s.carry = (At(arr, 5 * g + 2) \div 64) * 64
             /\ BytesTo(s.result, arr, 5 * g + 1)
    <2>1. value = (a2 \div 2) % 32
      <3>1. Letter(arr, 8 * g + 2 + 1) = LetterOf(arr, g, 2)
        BY LetterIs
      <3>2. m + 1 = 8 * g + 2 + 1
        BY <1>4
      <3>3. LetterOf(arr, g, 2) = (a2 \div 2) % 32
        BY <1>1 DEF LetterOf
      <3> QED BY <3>1, <3>2, <3>3
    <2>2. s.carry = (a2 \div 64) * 64
      BY <1>1, <1>4
    <2>3. /\ t.result = s.result /\ t.carry = s.carry + value * Power(1) /\ t.shift = 1
      <3>1. s.shift = 1 + 5 /\ 1 \in {1, 2, 3}
        BY <1>4
      <3> QED BY <1>s, <3>1, DecodesMore
    <2> HIDE DEF t
    <2>4. t.carry = (a2 \div 2) * 2
      BY <2>1, <2>2, <2>3, PutTogether, Powers
    <2>5. BytesTo(t.result, arr, 5 * g + 1) /\ m + 1 = 8 * g + 3
      BY <1>4, <2>3
    <2>6. DecodedAt(t, arr, m + 1, g)
      BY <1>1, <2>3, <2>4, <2>5 DEF DecodedAt
    <2>7. g \in Nat
      OBVIOUS
    <2> QED BY <2>6, <2>7 DEF DecodedTo, t
  <1>5. CASE /\ m = 8 * g + 3 /\ s.shift = 1 /\ s.carry = (At(arr, 5 * g + 2) \div 2) * 2
             /\ BytesTo(s.result, arr, 5 * g + 1)
    <2>1. value = (a2 % 2) * 16 + a3 \div 16
      <3>1. Letter(arr, 8 * g + 3 + 1) = LetterOf(arr, g, 3)
        BY LetterIs
      <3>2. m + 1 = 8 * g + 3 + 1
        BY <1>5
      <3>3. LetterOf(arr, g, 3) = (a2 % 2) * 16 + a3 \div 16
        BY <1>1 DEF LetterOf
      <3> QED BY <3>1, <3>2, <3>3
    <2>2. s.carry = (a2 \div 2) * 2
      BY <1>1, <1>5
    <2>3. /\ t.result = Append(s.result, s.carry + value \div Power(4))
          /\ t.carry = (value * Power(4)) % 256 /\ t.shift = 4
      <3>1. s.shift = 1 /\ 1 \in {1, 2, 3, 4} /\ 4 = 5 - 1 /\ 4 = 1 + 3
        BY <1>5
      <3> QED BY <3>1, DecodesByte
    <2> HIDE DEF t
    <2>4. s.carry + value \div Power(4) = a2 /\ t.carry = (a3 \div 16) * 16
      <3>1. (a2 \div 2) * 2 + ((a2 % 2) * 16 + a3 \div 16) \div 16 = a2
        BY PutTogether
      <3>2. (((a2 % 2) * 16 + a3 \div 16) * 16) % 256 = (a3 \div 16) * 16
        BY PutTogether
      <3>3. Power(4) = 16 /\ Power(4) = 16
        BY Powers
      <3> QED BY <2>1, <2>2, <2>3, <3>1, <3>2, <3>3
    <2>5. BytesTo(t.result, arr, 5 * g + 2) /\ m + 1 = 8 * g + 4
      <3>1. PICK n : n = 5 * g + 1
        OBVIOUS
      <3>2. n + 1 = 5 * g + 2 /\ a2 = At(arr, n + 1) /\ m + 1 = 8 * g + 4
        BY <1>1, <1>5, <3>1
      <3>3. BytesTo(Append(s.result, a2), arr, n + 1)
        BY <1>i, <1>5, <3>1, <3>2, OneByteMore
      <3> QED BY <2>3, <2>4, <3>2, <3>3
    <2>6. DecodedAt(t, arr, m + 1, g)
      BY <1>1, <2>3, <2>4, <2>5 DEF DecodedAt
    <2>7. g \in Nat
      OBVIOUS
    <2> QED BY <2>6, <2>7 DEF DecodedTo, t
  <1>6. CASE /\ m = 8 * g + 4 /\ s.shift = 4 /\ s.carry = (At(arr, 5 * g + 3) \div 16) * 16
             /\ BytesTo(s.result, arr, 5 * g + 2)
    <2>1. value = (a3 % 16) * 2 + a4 \div 128
      <3>1. Letter(arr, 8 * g + 4 + 1) = LetterOf(arr, g, 4)
        BY LetterIs
      <3>2. m + 1 = 8 * g + 4 + 1
        BY <1>6
      <3>3. LetterOf(arr, g, 4) = (a3 % 16) * 2 + a4 \div 128
        BY <1>1 DEF LetterOf
      <3> QED BY <3>1, <3>2, <3>3
    <2>2. s.carry = (a3 \div 16) * 16
      BY <1>1, <1>6
    <2>3. /\ t.result = Append(s.result, s.carry + value \div Power(1))
          /\ t.carry = (value * Power(7)) % 256 /\ t.shift = 7
      <3>1. s.shift = 4 /\ 4 \in {1, 2, 3, 4} /\ 1 = 5 - 4 /\ 7 = 4 + 3
        BY <1>6
      <3> QED BY <3>1, DecodesByte
    <2> HIDE DEF t
    <2>4. s.carry + value \div Power(1) = a3 /\ t.carry = (a4 \div 128) * 128
      <3>1. (a3 \div 16) * 16 + ((a3 % 16) * 2 + a4 \div 128) \div 2 = a3
        BY PutTogether
      <3>2. (((a3 % 16) * 2 + a4 \div 128) * 128) % 256 = (a4 \div 128) * 128
        BY PutTogether
      <3>3. Power(1) = 2 /\ Power(7) = 128
        BY Powers
      <3> QED BY <2>1, <2>2, <2>3, <3>1, <3>2, <3>3
    <2>5. BytesTo(t.result, arr, 5 * g + 3) /\ m + 1 = 8 * g + 5
      <3>1. PICK n : n = 5 * g + 2
        OBVIOUS
      <3>2. n + 1 = 5 * g + 3 /\ a3 = At(arr, n + 1) /\ m + 1 = 8 * g + 5
        BY <1>1, <1>6, <3>1
      <3>3. BytesTo(Append(s.result, a3), arr, n + 1)
        BY <1>i, <1>6, <3>1, <3>2, OneByteMore
      <3> QED BY <2>3, <2>4, <3>2, <3>3
    <2>6. DecodedAt(t, arr, m + 1, g)
      BY <1>1, <2>3, <2>4, <2>5 DEF DecodedAt
    <2>7. g \in Nat
      OBVIOUS
    <2> QED BY <2>6, <2>7 DEF DecodedTo, t
  <1>7. CASE /\ m = 8 * g + 5 /\ s.shift = 7 /\ s.carry = (At(arr, 5 * g + 4) \div 128) * 128
             /\ BytesTo(s.result, arr, 5 * g + 3)
    <2>1. value = (a4 \div 4) % 32
      <3>1. Letter(arr, 8 * g + 5 + 1) = LetterOf(arr, g, 5)
        BY LetterIs
      <3>2. m + 1 = 8 * g + 5 + 1
        BY <1>7
      <3>3. LetterOf(arr, g, 5) = (a4 \div 4) % 32
        BY <1>1 DEF LetterOf
      <3> QED BY <3>1, <3>2, <3>3
    <2>2. s.carry = (a4 \div 128) * 128
      BY <1>1, <1>7
    <2>3. /\ t.result = s.result /\ t.carry = s.carry + value * Power(2) /\ t.shift = 2
      <3>1. s.shift = 2 + 5 /\ 2 \in {1, 2, 3}
        BY <1>7
      <3> QED BY <1>s, <3>1, DecodesMore
    <2> HIDE DEF t
    <2>4. t.carry = (a4 \div 4) * 4
      BY <2>1, <2>2, <2>3, PutTogether, Powers
    <2>5. BytesTo(t.result, arr, 5 * g + 3) /\ m + 1 = 8 * g + 6
      BY <1>7, <2>3
    <2>6. DecodedAt(t, arr, m + 1, g)
      BY <1>1, <2>3, <2>4, <2>5 DEF DecodedAt
    <2>7. g \in Nat
      OBVIOUS
    <2> QED BY <2>6, <2>7 DEF DecodedTo, t
  <1>8. CASE /\ m = 8 * g + 6 /\ s.shift = 2 /\ s.carry = (At(arr, 5 * g + 4) \div 4) * 4
             /\ BytesTo(s.result, arr, 5 * g + 3)
    <2>1. value = (a4 % 4) * 8 + a5 \div 32
      <3>1. Letter(arr, 8 * g + 6 + 1) = LetterOf(arr, g, 6)
        BY LetterIs
      <3>2. m + 1 = 8 * g + 6 + 1
        BY <1>8
      <3>3. LetterOf(arr, g, 6) = (a4 % 4) * 8 + a5 \div 32
        BY <1>1 DEF LetterOf
      <3> QED BY <3>1, <3>2, <3>3
    <2>2. s.carry = (a4 \div 4) * 4
      BY <1>1, <1>8
    <2>3. /\ t.result = Append(s.result, s.carry + value \div Power(3))
          /\ t.carry = (value * Power(5)) % 256 /\ t.shift = 5
      <3>1. s.shift = 2 /\ 2 \in {1, 2, 3, 4} /\ 3 = 5 - 2 /\ 5 = 2 + 3
        BY <1>8
      <3> QED BY <3>1, DecodesByte
    <2> HIDE DEF t
    <2>4. s.carry + value \div Power(3) = a4 /\ t.carry = (a5 \div 32) * 32
      <3>1. (a4 \div 4) * 4 + ((a4 % 4) * 8 + a5 \div 32) \div 8 = a4
        BY PutTogether
      <3>2. (((a4 % 4) * 8 + a5 \div 32) * 32) % 256 = (a5 \div 32) * 32
        BY PutTogether
      <3>3. Power(3) = 8 /\ Power(5) = 32
        BY Powers
      <3> QED BY <2>1, <2>2, <2>3, <3>1, <3>2, <3>3
    <2>5. BytesTo(t.result, arr, 5 * g + 4) /\ m + 1 = 8 * g + 7
      <3>1. PICK n : n = 5 * g + 3
        OBVIOUS
      <3>2. n + 1 = 5 * g + 4 /\ a4 = At(arr, n + 1) /\ m + 1 = 8 * g + 7
        BY <1>1, <1>8, <3>1
      <3>3. BytesTo(Append(s.result, a4), arr, n + 1)
        BY <1>i, <1>8, <3>1, <3>2, OneByteMore
      <3> QED BY <2>3, <2>4, <3>2, <3>3
    <2>6. DecodedAt(t, arr, m + 1, g)
      BY <1>1, <2>3, <2>4, <2>5 DEF DecodedAt
    <2>7. g \in Nat
      OBVIOUS
    <2> QED BY <2>6, <2>7 DEF DecodedTo, t
  <1>9. CASE /\ m = 8 * g + 7 /\ s.shift = 5 /\ s.carry = (At(arr, 5 * g + 5) \div 32) * 32
             /\ BytesTo(s.result, arr, 5 * g + 4)
    <2>1. value = a5 % 32
      <3>1. Letter(arr, 8 * g + 7 + 1) = LetterOf(arr, g, 7)
        BY LetterIs
      <3>2. m + 1 = 8 * g + 7 + 1
        BY <1>9
      <3>3. LetterOf(arr, g, 7) = a5 % 32
        BY <1>1 DEF LetterOf
      <3> QED BY <3>1, <3>2, <3>3
    <2>2. s.carry = (a5 \div 32) * 32
      BY <1>1, <1>9
    <2>3. /\ t.result = Append(s.result, s.carry + value) /\ t.carry = 0 /\ t.shift = 8
      BY <1>9, DecodesLast
    <2> HIDE DEF t
    <2>4. s.carry + value = a5
      BY <2>1, <2>2, PutTogether
    <2>5. BytesTo(t.result, arr, 5 * (g + 1)) /\ m + 1 = 8 * (g + 1)
      <3>1. PICK n : n = 5 * g + 4
        OBVIOUS
      <3>2. n + 1 = 5 * (g + 1) /\ a5 = At(arr, n + 1) /\ m + 1 = 8 * (g + 1)
        BY <1>1, <1>9, <3>1
      <3>3. BytesTo(Append(s.result, a5), arr, n + 1)
        BY <1>i, <1>9, <3>1, <3>2, OneByteMore
      <3> QED BY <2>3, <2>4, <3>2, <3>3
    <2>6. DecodedAt(t, arr, m + 1, g + 1)
      BY <1>1, <2>3, <2>4, <2>5 DEF DecodedAt
    <2>7. g + 1 \in Nat
      OBVIOUS
    <2> QED BY <2>6, <2>7 DEF DecodedTo, t
  <1> QED BY <1>0, <1>2, <1>3, <1>4, <1>5, <1>6, <1>7, <1>8, <1>9 DEF DecodedAt

LEMMA DecodeLetterType ==
  ASSUME NEW s \in DecodeStates, NEW value \in Int
  PROVE  DecodeLetter(s, value) \in DecodeStates
  <1>1. /\ s.result \in Seq(Int) /\ s.carry \in Int /\ s.shift \in 1 .. 8
        /\ s = [result |-> s.result, carry |-> s.carry, shift |-> s.shift]
    BY DEF DecodeStates
  <1>2. CASE s.shift > 5
    <2>1. s.shift - 5 \in 0 .. 8 /\ s.shift - 5 \in 1 .. 8
      BY <1>1, <1>2
    <2> DEFINE c == s.carry + value * Power(s.shift - 5)
    <2>2. c \in Int
      <3>1. value * Power(s.shift - 5) \in Int
        BY <2>1, PowerType, IntOps
      <3> QED BY <1>1, <3>1
    <2>3. DecodeLetter(s, value) = [s EXCEPT !.carry = c, !.shift = s.shift - 5]
      <3>1. ~(s.shift < 5) /\ s.shift # 5
        BY <1>1, <1>2
      <3> QED BY <1>2, <3>1 DEF DecodeLetter
    <2> HIDE DEF c
    <2> QED BY <1>1, <2>1, <2>2, <2>3 DEF DecodeStates
  <1>3. CASE s.shift < 5
    <2>1. 5 - s.shift \in 0 .. 8 /\ s.shift + 3 \in 0 .. 8 /\ s.shift + 3 \in 1 .. 8
      BY <1>1, <1>3
    <2> DEFINE x == s.carry + value \div Power(5 - s.shift)
               c == (value * Power(s.shift + 3)) % 256
    <2>2. x \in Int /\ c \in Int
      <3>1. value \div Power(5 - s.shift) \in Int /\ value * Power(s.shift + 3) \in Int
        BY <2>1, PowerType, IntOps
      <3>2. \A n \in Int : n % 256 \in Int
        OBVIOUS
      <3> QED BY <1>1, <3>1, <3>2
    <2>3. DecodeLetter(s, value) = [result |-> Append(s.result, x), carry |-> c, shift |-> s.shift + 3]
      <3>1. ~(s.shift > 5)
        BY <1>1, <1>3
      <3> QED BY <1>3, <3>1 DEF DecodeLetter
    <2> HIDE DEF x, c
    <2> QED BY <1>1, <2>1, <2>2, <2>3 DEF DecodeStates
  <1>4. CASE s.shift = 5
    <2>1. DecodeLetter(s, value) = [result |-> Append(s.result, s.carry + value), carry |-> 0, shift |-> 8]
      BY <1>4 DEF DecodeLetter
    <2> QED BY <1>1, <2>1 DEF DecodeStates
  <1> QED BY <1>1, <1>2, <1>3, <1>4

LEMMA LettersType ==
  ASSUME NEW arr \in Seq(Byte8)
  PROVE  /\ Letters(arr) \in Seq(Int) /\ Len(Letters(arr)) = (8 * Len(arr) + 4) \div 5
         /\ \A i \in 1 .. Len(Letters(arr)) : Letters(arr)[i] = Letter(arr, i)
  <1> DEFINE n == (8 * Len(arr) + 4) \div 5
  <1>1. n \in Nat
    OBVIOUS
  <1>2. ASSUME NEW i \in 1 .. n PROVE Letter(arr, i) \in Int
    <2>1. i \in Nat /\ i > 0
      BY <1>1
    <2>2. PICK g \in Nat, r \in 0 .. 7 : i = 8 * g + r + 1
      BY <2>1, Octave
    <2>3. Letter(arr, 8 * g + r + 1) = LetterOf(arr, g, r)
      BY LetterIs
    <2>4. LetterOf(arr, g, r) \in Int
      BY LetterType, Zenon
    <2> QED BY <2>2, <2>3, <2>4
  <1>3. Letters(arr) = [i \in 1 .. n |-> Letter(arr, i)]
    BY DEF Letters
  <1> HIDE DEF n
  <1> QED BY <1>1, <1>2, <1>3 DEF n

\* What the loop leaves.
LEMMA DecodedLetters ==
  ASSUME NEW arr \in Seq(Byte8)
  PROVE  DecodedTo(DecodeLetters(Letters(arr)), arr, (8 * Len(arr) + 4) \div 5)
  <1>0. PICK text \in Seq(Int) :
          /\ text = Letters(arr) /\ Len(text) = (8 * Len(arr) + 4) \div 5
          /\ \A i \in 1 .. Len(text) : text[i] = Letter(arr, i)
    BY LettersType
  <1> DEFINE n == Len(text)
             step == [p \in (1 .. n) \X DecodeStates |-> DecodeLetter(p[2], text[p[1]])]
             Turns(f) == f = [i \in 0 .. n |-> IF i = 0 THEN [result |-> <<>>, carry |-> 0, shift |-> 8]
                                               ELSE DecodeLetter(f[i - 1], text[i])]
             turns == CHOOSE f : Turns(f)
  <1>n. n \in Nat /\ \A i \in 1 .. n : text[i] \in Int
    OBVIOUS
  <1>z. DecodeStart \in DecodeStates
    BY DEF DecodeStart, DecodeStates
  <1>1. step \in [(1 .. n) \X DecodeStates -> DecodeStates]
    BY <1>n, DecodeLetterType
  <1>2. \E f : Recurs(f, n, DecodeStates, DecodeStart, step)
    <2> HIDE DEF n, step
    <2> QED BY <1>n, <1>z, <1>1, RecursionSolved, Zenon
  <1>3. PICK f : Recurs(f, n, DecodeStates, DecodeStart, step)
    BY <1>2
  <1>4. f \in [0 .. n -> DecodeStates] /\ f[0] = DecodeStart
    BY <1>3 DEF Recurs
  <1>5. ASSUME NEW i \in 1 .. n PROVE f[i] = DecodeLetter(f[i - 1], text[i])
    <2>1. f[i] = step[<<i, f[i - 1]>>]
      <3> HIDE DEF n, step
      <3> QED BY <1>3 DEF Recurs
    <2>2. f[i - 1] \in DecodeStates
      <3> HIDE DEF n, step
      <3> QED BY <1>4, <1>n
    <2> QED BY <2>1, <2>2
  <1>6. Turns(f)
    <2> HIDE DEF n, step
    <2> QED BY <1>4, <1>5 DEF DecodeStart
  <1>7. Turns(turns)
    <2> HIDE DEF Turns
    <2> QED BY <1>6
  <1>8. turns[0] = DecodeStart /\ \A i \in 1 .. n : turns[i] = DecodeLetter(turns[i - 1], text[i])
    <2> HIDE DEF n, turns
    <2> QED BY <1>n, <1>7 DEF DecodeStart
  <1>9. DecodeLetters(text) = turns[n]
    BY DEF DecodeLetters
  <1> DEFINE T == {k \in Nat : k <= n => turns[k] \in DecodeStates /\ DecodedTo(turns[k], arr, k)}
  <1> HIDE DEF turns
  <1>10. 0 \in T
    <2>1. turns[0].result = <<>> /\ turns[0].carry = 0 /\ turns[0].shift = 8
      BY <1>8 DEF DecodeStart
    <2>2. BytesTo(turns[0].result, arr, 5 * 0)
      BY <2>1 DEF BytesTo
    <2>3. DecodedAt(turns[0], arr, 0, 0)
      BY <2>1, <2>2 DEF DecodedAt
    <2> QED BY <1>8, <1>z, <2>3 DEF DecodedTo
  <1>11. ASSUME NEW k \in Nat, k \in T PROVE k + 1 \in T
    <2>1. SUFFICES ASSUME k + 1 <= n
                   PROVE  turns[k + 1] \in DecodeStates /\ DecodedTo(turns[k + 1], arr, k + 1)
      OBVIOUS
    <2>2. /\ turns[k] \in DecodeStates /\ DecodedTo(turns[k], arr, k)
          /\ k + 1 \in 1 .. n /\ (k + 1) - 1 = k
      BY <1>11, <1>n, <2>1
    <2>3. turns[k + 1] = DecodeLetter(turns[k], text[k + 1])
      BY <1>8, <2>2
    <2>4. text[k + 1] = Letter(arr, k + 1) /\ text[k + 1] \in Int
      BY <1>0, <1>n, <2>2
    <2> QED BY <2>2, <2>3, <2>4, DecodeStep, DecodeLetterType
  <1>12. Nat \subseteq T
    <2> HIDE DEF T
    <2> QED BY <1>10, <1>11, NatSetInduction
  <1>13. DecodedTo(turns[n], arr, n)
    BY <1>n, <1>12
  <1> HIDE DEF n
  <1>14. n = (8 * Len(arr) + 4) \div 5
    BY <1>0 DEF n
  <1> QED BY <1>0, <1>9, <1>13, <1>14, Zenon

\* The bytes are decoded from their text.
LEMMA DecodeExact ==
  ASSUME NEW arr \in Seq(Byte8)
  PROVE  DecodeBase32(Letters(arr)) = arr
  <1> DEFINE k == Len(arr)
             m == (8 * k + 4) \div 5
             s == DecodeLetters(Letters(arr))
  <1>1. PICK g \in Nat : DecodedAt(s, arr, m, g)
    BY DecodedLetters DEF DecodedTo
  <1>2. k \in Nat /\ At(arr, k + 1) = 0
    <2>1. k \in Nat /\ ~(k + 1 \in 1 .. k)
      OBVIOUS
    <2> QED BY <2>1 DEF At
  <1>3. DecodeBase32(Letters(arr)) =
          IF s.shift # 8 /\ s.carry # 0 THEN Append(s.result, s.carry) ELSE s.result
    BY DEF DecodeBase32
  <1> HIDE DEF s, k
  <1>4. s.carry = 0 /\ BytesTo(s.result, arr, k)
    <2>1. CASE /\ m = 8 * g /\ s.shift = 8 /\ s.carry = 0
             /\ BytesTo(s.result, arr, 5 * g)
      <3>1. k = 5 * g
        BY <1>2, <2>1
      <3> QED BY <2>1, <3>1
    <2>2. CASE /\ m = 8 * g + 1 /\ s.shift = 3 /\ s.carry = (At(arr, 5 * g + 1) \div 8) * 8
             /\ BytesTo(s.result, arr, 5 * g)
      <3>1. FALSE
        BY <1>2, <2>2
      <3> QED BY <3>1
    <2>3. CASE /\ m = 8 * g + 2 /\ s.shift = 6 /\ s.carry = (At(arr, 5 * g + 2) \div 64) * 64
             /\ BytesTo(s.result, arr, 5 * g + 1)
      <3>1. k = 5 * g + 1 /\ k + 1 = 5 * g + 2
        BY <1>2, <2>3
      <3>2. (0 \div 64) * 64 = 0
        OBVIOUS
      <3> QED BY <1>2, <2>3, <3>1, <3>2
    <2>4. CASE /\ m = 8 * g + 3 /\ s.shift = 1 /\ s.carry = (At(arr, 5 * g + 2) \div 2) * 2
             /\ BytesTo(s.result, arr, 5 * g + 1)
      <3>1. FALSE
        BY <1>2, <2>4
      <3> QED BY <3>1
    <2>5. CASE /\ m = 8 * g + 4 /\ s.shift = 4 /\ s.carry = (At(arr, 5 * g + 3) \div 16) * 16
             /\ BytesTo(s.result, arr, 5 * g + 2)
      <3>1. k = 5 * g + 2 /\ k + 1 = 5 * g + 3
        BY <1>2, <2>5
      <3>2. (0 \div 16) * 16 = 0
        OBVIOUS
      <3> QED BY <1>2, <2>5, <3>1, <3>2
    <2>6. CASE /\ m = 8 * g + 5 /\ s.shift = 7 /\ s.carry = (At(arr, 5 * g + 4) \div 128) * 128
             /\ BytesTo(s.result, arr, 5 * g + 3)
      <3>1. k = 5 * g + 3 /\ k + 1 = 5 * g + 4
        BY <1>2, <2>6
      <3>2. (0 \div 128) * 128 = 0
        OBVIOUS
      <3> QED BY <1>2, <2>6, <3>1, <3>2
    <2>7. CASE /\ m = 8 * g + 6 /\ s.shift = 2 /\ s.carry = (At(arr, 5 * g + 4) \div 4) * 4
             /\ BytesTo(s.result, arr, 5 * g + 3)
      <3>1. FALSE
        BY <1>2, <2>7
      <3> QED BY <3>1
    <2>8. CASE /\ m = 8 * g + 7 /\ s.shift = 5 /\ s.carry = (At(arr, 5 * g + 5) \div 32) * 32
             /\ BytesTo(s.result, arr, 5 * g + 4)
      <3>1. k = 5 * g + 4 /\ k + 1 = 5 * g + 5
        BY <1>2, <2>8
      <3>2. (0 \div 32) * 32 = 0
        OBVIOUS
      <3> QED BY <1>2, <2>8, <3>1, <3>2
    <2> QED BY <1>1, <2>1, <2>2, <2>3, <2>4, <2>5, <2>6, <2>7, <2>8 DEF DecodedAt
  <1>5. DecodeBase32(Letters(arr)) = s.result
    BY <1>3, <1>4
  <1> QED BY <1>4, <1>5, BytesAre DEF k

-----------------------------------------------------------------------------

\* The digits of the first k bytes, two to a byte.
HexTo(row, arr, k) ==
  /\ row \in Seq(Byte8) /\ Len(row) = 2 * k
  /\ \A j \in 1 .. k : 16 * row[2 * j - 1] + row[2 * j] = arr[j]

LEMMA HexOfByte ==
  ASSUME NEW b \in Byte8
  PROVE  /\ HexDigits(b) \in Seq(Byte8) /\ Len(HexDigits(b)) = 2
         /\ 16 * HexDigits(b)[1] + HexDigits(b)[2] = b
  <1>1. b \in Int /\ b >= 0
    BY DEF Byte8
  <1>2. CASE b < 16
    <2>1. HexDigits(b) = <<0, b>>
      BY <1>2 DEF HexDigits
    <2>2. 16 * 0 + b = b
      BY <1>1
    <2>3. 0 \in Byte8 /\ b \in Byte8
      BY DEF Byte8
    <2> QED BY <2>1, <2>2, <2>3
  <1>3. CASE ~(b < 16)
    <2>1. HexDigits(b) = <<b \div 16, b % 16>>
      BY <1>3 DEF HexDigits
    <2>2. 16 * (b \div 16) + (b % 16) = b /\ b \div 16 \in Int /\ b % 16 \in Int
      BY <1>1
    <2>3. b \div 16 \in Byte8 /\ b % 16 \in Byte8
      BY DEF Byte8
    <2> QED BY <2>1, <2>2, <2>3
  <1> QED BY <1>2, <1>3

LEMMA RowsJoined ==
  ASSUME NEW row \in Seq(Byte8), NEW two \in Seq(Byte8)
  PROVE  \E more \in Seq(Byte8) :
           /\ more = row \o two /\ Len(more) = Len(row) + Len(two)
           /\ \A i \in 1 .. Len(row) : more[i] = row[i]
           /\ \A i \in 1 .. Len(two) : more[Len(row) + i] = two[i]
  <1>1. row \o two \in Seq(Byte8) /\ Len(row \o two) = Len(row) + Len(two)
    BY JoinFacts
  <1>2. \A i \in 1 .. Len(row) : (row \o two)[i] = row[i]
    BY JoinFacts
  <1>3. \A i \in 1 .. Len(two) : (row \o two)[Len(row) + i] = two[i]
    BY JoinFacts
  <1> QED BY <1>1, <1>2, <1>3, Zenon

LEMMA HexMore ==
  ASSUME NEW arr \in Seq(Byte8), NEW row, NEW k \in Nat, k + 1 <= Len(arr), HexTo(row, arr, k)
  PROVE  HexTo(row \o HexDigits(arr[k + 1]), arr, k + 1)
  <1>1. PICK b \in Byte8 : b = arr[k + 1]
    OBVIOUS
  <1>2. PICK two \in Seq(Byte8) : two = HexDigits(b) /\ Len(two) = 2 /\ 16 * two[1] + two[2] = b
    BY HexOfByte
  <1>3. row \in Seq(Byte8) /\ Len(row) = 2 * k
    BY DEF HexTo
  <1>4. PICK more \in Seq(Byte8) :
          /\ more = row \o two /\ Len(more) = Len(row) + Len(two)
          /\ \A i \in 1 .. Len(row) : more[i] = row[i]
          /\ \A i \in 1 .. Len(two) : more[Len(row) + i] = two[i]
    <2>1. row \in Seq(Byte8) /\ two \in Seq(Byte8)
      BY <1>3
    <2> QED BY <2>1, RowsJoined, Zenon
  <1>5. Len(more) = Len(row) + 2 /\ more[Len(row) + 1] = two[1] /\ more[Len(row) + 2] = two[2]
    <2>1. 1 \in 1 .. Len(two) /\ 2 \in 1 .. Len(two)
      BY <1>2
    <2> QED BY <1>2, <1>4, <2>1
  <1>6. Len(more) = 2 * (k + 1) /\ more[2 * (k + 1) - 1] = two[1] /\ more[2 * (k + 1)] = two[2]
    <2>1. Len(row) + 1 = 2 * (k + 1) - 1 /\ Len(row) + 2 = 2 * (k + 1)
      BY <1>3
    <2> QED BY <1>4, <1>5, <2>1
  <1>7. ASSUME NEW j \in 1 .. k + 1 PROVE 16 * more[2 * j - 1] + more[2 * j] = arr[j]
    <2>1. CASE j = k + 1
      BY <1>1, <1>2, <1>6, <2>1
    <2>2. CASE j # k + 1
      <3>1. j \in 1 .. k /\ 2 * j - 1 \in 1 .. Len(row) /\ 2 * j \in 1 .. Len(row)
        BY <1>3, <2>2
      <3>2. more[2 * j - 1] = row[2 * j - 1] /\ more[2 * j] = row[2 * j]
        BY <1>4, <3>1
      <3>3. 16 * row[2 * j - 1] + row[2 * j] = arr[j]
        BY <3>1 DEF HexTo
      <3> QED BY <3>2, <3>3
    <2> QED BY <2>1, <2>2
  <1>8. row \o HexDigits(arr[k + 1]) = more
    BY <1>1, <1>2, <1>4
  <1> QED BY <1>6, <1>7, <1>8 DEF HexTo

LEMMA HexTyped ==
  ASSUME NEW b \in Byte8, NEW row \in Seq(Byte8)
  PROVE  row \o HexDigits(b) \in Seq(Byte8)
  BY HexOfByte

LEMMA HexWritten ==
  ASSUME NEW arr \in Seq(Byte8)
  PROVE  HexTo(ToHex(arr), arr, Len(arr))
  <1> DEFINE n == Len(arr)
             step == [p \in (1 .. n) \X Seq(Byte8) |-> p[2] \o HexDigits(arr[p[1]])]
             Turns(f) == f = [i \in 0 .. n |-> IF i = 0 THEN <<>> ELSE f[i - 1] \o HexDigits(arr[i])]
             turns == CHOOSE f : Turns(f)
  <1>n. n \in Nat /\ \A i \in 1 .. n : arr[i] \in Byte8
    OBVIOUS
  <1>z. <<>> \in Seq(Byte8)
    OBVIOUS
  <1>1. step \in [(1 .. n) \X Seq(Byte8) -> Seq(Byte8)]
    BY <1>n, HexTyped
  <1>2. \E f : Recurs(f, n, Seq(Byte8), <<>>, step)
    <2> HIDE DEF n, step
    <2> QED BY <1>n, <1>z, <1>1, RecursionSolved, Zenon
  <1>3. PICK f : Recurs(f, n, Seq(Byte8), <<>>, step)
    BY <1>2
  <1>4. f \in [0 .. n -> Seq(Byte8)] /\ f[0] = <<>>
    BY <1>3 DEF Recurs
  <1>5. ASSUME NEW i \in 1 .. n PROVE f[i] = f[i - 1] \o HexDigits(arr[i])
    <2>1. f[i] = step[<<i, f[i - 1]>>]
      <3> HIDE DEF n, step
      <3> QED BY <1>3 DEF Recurs
    <2>2. f[i - 1] \in Seq(Byte8)
      <3> HIDE DEF n, step
      <3> QED BY <1>4, <1>n
    <2> QED BY <2>1, <2>2
  <1>6. Turns(f)
    <2> HIDE DEF n, step
    <2>1. f = [i \in 0 .. n |-> f[i]]
      BY <1>4
    <2>2. ASSUME NEW i \in 0 .. n
          PROVE  f[i] = IF i = 0 THEN <<>> ELSE f[i - 1] \o HexDigits(arr[i])
      <3>1. CASE i = 0
        BY <1>4, <3>1
      <3>2. CASE i # 0
        <4>1. i \in 1 .. n
          BY <1>n, <3>2
        <4> QED BY <1>5, <3>2, <4>1
      <3> QED BY <3>1, <3>2
    <2> QED BY <2>1, <2>2, Zenon
  <1>7. Turns(turns)
    <2> HIDE DEF Turns
    <2> QED BY <1>6
  <1>8. turns[0] = <<>> /\ \A i \in 1 .. n : turns[i] = turns[i - 1] \o HexDigits(arr[i])
    <2> HIDE DEF n, turns
    <2> QED BY <1>n, <1>7
  <1>9. ToHex(arr) = turns[n]
    BY DEF ToHex
  <1> DEFINE T == {k \in Nat : k <= n => HexTo(turns[k], arr, k)}
  <1> HIDE DEF turns
  <1>10. 0 \in T
    <2>1. HexTo(<<>>, arr, 0)
      <3>1. <<>> \in Seq(Byte8) /\ Len(<<>>) = 2 * 0
        OBVIOUS
      <3> QED BY <3>1 DEF HexTo
    <2> QED BY <1>8, <2>1
  <1>11. ASSUME NEW k \in Nat, k \in T PROVE k + 1 \in T
    <2>1. SUFFICES ASSUME k + 1 <= n
                   PROVE  HexTo(turns[k + 1], arr, k + 1)
      OBVIOUS
    <2>2. HexTo(turns[k], arr, k) /\ k + 1 \in 1 .. n /\ (k + 1) - 1 = k
      BY <1>11, <1>n, <2>1
    <2>3. turns[k + 1] = turns[k] \o HexDigits(arr[k + 1])
      BY <1>8, <2>2
    <2> QED BY <2>1, <2>2, <2>3, HexMore
  <1>12. Nat \subseteq T
    <2> HIDE DEF T
    <2> QED BY <1>10, <1>11, NatSetInduction
  <1>13. HexTo(turns[n], arr, n)
    BY <1>n, <1>12
  <1> HIDE DEF n
  <1> QED BY <1>9, <1>13 DEF n

LEMMA HexExact ==
  ASSUME NEW arr \in Seq(Byte8)
  PROVE  FromHex(ToHex(arr)) = arr
  <1>1. PICK row \in Seq(Byte8) : row = ToHex(arr) /\ HexTo(row, arr, Len(arr))
    BY HexWritten DEF HexTo
  <1>2. Len(row) \div 2 = Len(arr)
    BY <1>1 DEF HexTo
  <1>3. FromHex(row) = [i \in 1 .. Len(arr) |-> 16 * row[2 * i - 1] + row[2 * i]]
    BY <1>2 DEF FromHex
  <1>4. \A i \in 1 .. Len(arr) : 16 * row[2 * i - 1] + row[2 * i] = arr[i]
    BY <1>1 DEF HexTo
  <1>5. arr = [i \in 1 .. Len(arr) |-> arr[i]]
    OBVIOUS
  <1> QED BY <1>1, <1>3, <1>4, <1>5

\* What is left of the counter after 0 .. 8 bytes.
Above(n) == n \div 256
LastByte(n) == n % 256

Shifts(f, number) == f = [i \in 0 .. 8 |-> IF i = 0 THEN number ELSE Above(f[i - 1])]

Rests(rest, number) ==
  /\ rest[0] = number
  /\ \A i \in 1 .. 8 : rest[i] = Above(rest[i - 1])
  /\ FactorBytes(number) = [i \in 1 .. 8 |-> LastByte(rest[8 - i])]

LEMMA FactorIs ==
  ASSUME NEW number \in Nat
  PROVE  \E rest : Rests(rest, number)
  <1> DEFINE n == 8
             step == [p \in (1 .. n) \X Nat |-> Above(p[2])]
             turns == CHOOSE f : Shifts(f, number)
  <1>n. n \in Nat
    OBVIOUS
  <1>1. step \in [(1 .. n) \X Nat -> Nat]
    <2>1. \A m \in Nat : Above(m) \in Nat
      BY DEF Above
    <2> QED BY <2>1
  <1>2. \E f : Recurs(f, n, Nat, number, step)
    <2> HIDE DEF n, step
    <2> QED BY <1>n, <1>1, RecursionSolved, Zenon
  <1>3. PICK f : Recurs(f, n, Nat, number, step)
    BY <1>2
  <1>4. f \in [0 .. n -> Nat] /\ f[0] = number
    BY <1>3 DEF Recurs
  <1>5. ASSUME NEW i \in 1 .. n PROVE f[i] = Above(f[i - 1])
    <2>1. f[i] = step[<<i, f[i - 1]>>]
      <3> HIDE DEF n, step
      <3> QED BY <1>3 DEF Recurs
    <2>2. f[i - 1] \in Nat
      <3> HIDE DEF n, step
      <3> QED BY <1>4, <1>n
    <2> QED BY <2>1, <2>2
  <1>6. Shifts(f, number)
    <2> HIDE DEF step
    <2>1. f = [i \in 0 .. n |-> f[i]]
      BY <1>4
    <2>2. ASSUME NEW i \in 0 .. n
          PROVE  f[i] = IF i = 0 THEN number ELSE Above(f[i - 1])
      <3>1. CASE i = 0
        BY <1>4, <3>1
      <3>2. CASE i # 0
        <4>1. i \in 1 .. n
          BY <1>n, <3>2
        <4> QED BY <1>5, <3>2, <4>1
      <3> QED BY <3>1, <3>2
    <2> QED BY <2>1, <2>2 DEF Shifts
  <1>7. Shifts(turns, number)
    BY <1>6, Zenon
  <1>8. turns = [i \in 0 .. n |-> IF i = 0 THEN number ELSE Above(turns[i - 1])]
    BY <1>7 DEF Shifts
  <1>9. FactorBytes(number) = [i \in 1 .. 8 |-> LastByte(turns[8 - i])]
    BY DEF FactorBytes, Shifts, Above, LastByte
  <1> HIDE DEF turns
  <1>10. turns[0] = number /\ \A i \in 1 .. n : turns[i] = Above(turns[i - 1])
    <2> HIDE DEF n
    <2> QED BY <1>n, <1>8
  <1>11. Rests(turns, number)
    BY <1>9, <1>10 DEF Rests
  <1> QED BY <1>11

\* At most three bytes, as three.
LEMMA FactorOfThree ==
  ASSUME NEW p \in Byte8, NEW q \in Byte8, NEW r \in Byte8
  PROVE  FactorBytes(256 * (256 * p + q) + r) = <<0, 0, 0, 0, 0, p, q, r>>
  <1>1. p \in 0 .. 255 /\ q \in 0 .. 255 /\ r \in 0 .. 255
    BY DEF Byte8
  <1>2. PICK one, number : one = 256 * p + q /\ number = 256 * one + r
    OBVIOUS
  <1>3. one \in Nat /\ number \in Nat
    BY <1>1, <1>2
  <1>4. Above(number) = one /\ LastByte(number) = r
    BY <1>1, <1>2, <1>3 DEF Above, LastByte
  <1>5. Above(one) = p /\ LastByte(one) = q
    BY <1>1, <1>2, <1>3 DEF Above, LastByte
  <1>6. Above(p) = 0 /\ LastByte(p) = p /\ Above(0) = 0 /\ LastByte(0) = 0
    BY <1>1 DEF Above, LastByte
  <1>7. PICK rest : Rests(rest, number)
    BY <1>3, FactorIs
  <1>8. /\ rest[0] = number
        /\ \A i \in 1 .. 8 : rest[i] = Above(rest[i - 1])
        /\ FactorBytes(number) = [i \in 1 .. 8 |-> LastByte(rest[8 - i])]
    BY <1>7 DEF Rests
  <1>9. /\ rest[1] = Above(rest[0]) /\ rest[2] = Above(rest[1]) /\ rest[3] = Above(rest[2])
        /\ rest[4] = Above(rest[3]) /\ rest[5] = Above(rest[4]) /\ rest[6] = Above(rest[5])
        /\ rest[7] = Above(rest[6])
    BY <1>8
  <1>10. /\ LastByte(rest[0]) = r /\ LastByte(rest[1]) = q /\ LastByte(rest[2]) = p
         /\ LastByte(rest[3]) = 0 /\ LastByte(rest[4]) = 0 /\ LastByte(rest[5]) = 0
         /\ LastByte(rest[6]) = 0 /\ LastByte(rest[7]) = 0
    BY <1>4, <1>5, <1>6, <1>8, <1>9
  <1>11. [i \in 1 .. 8 |-> LastByte(rest[8 - i])] = <<0, 0, 0, 0, 0, p, q, r>>
    <2> DEFINE row == [i \in 1 .. 8 |-> LastByte(rest[8 - i])]
    <2>1. /\ row[1] = 0 /\ row[2] = 0 /\ row[3] = 0 /\ row[4] = 0 /\ row[5] = 0
          /\ row[6] = p /\ row[7] = q /\ row[8] = r
      BY <1>10
    <2>2. row = [i \in 1 .. 8 |-> row[i]]
      OBVIOUS
    <2> HIDE DEF row
    <2>3. row = <<row[1], row[2], row[3], row[4], row[5], row[6], row[7], row[8]>>
      BY <2>2
    <2> QED BY <2>1, <2>3 DEF row
  <1> QED BY <1>2, <1>8, <1>11

LEMMA BigEndianIs ==
  ASSUME NEW row \in Seq(Byte8)
  PROVE  \E sum :
           /\ sum[0] = 0
           /\ \A i \in 1 .. Len(row) : sum[i] = 256 * sum[i - 1] + row[i]
           /\ BigEndian(row) = sum[Len(row)]
  <1> DEFINE n == Len(row)
             step == [p \in (1 .. n) \X Nat |-> 256 * p[2] + row[p[1]]]
             Turns(f) == f = [i \in 0 .. n |-> IF i = 0 THEN 0 ELSE 256 * f[i - 1] + row[i]]
             turns == CHOOSE f : Turns(f)
  <1>n. n \in Nat /\ \A i \in 1 .. n : row[i] \in Nat
    <2>1. n \in Nat /\ \A i \in 1 .. n : row[i] \in Byte8
      OBVIOUS
    <2>2. Byte8 \subseteq Nat
      BY DEF Byte8
    <2> HIDE DEF n
    <2> QED BY <2>1, <2>2
  <1>1. step \in [(1 .. n) \X Nat -> Nat]
    <2>1. \A m \in Nat, b \in Nat : 256 * m + b \in Nat
      OBVIOUS
    <2> HIDE DEF n
    <2> QED BY <1>n, <2>1
  <1>2. \E f : Recurs(f, n, Nat, 0, step)
    <2> HIDE DEF n, step
    <2>1. 0 \in Nat
      OBVIOUS
    <2> QED BY <1>n, <1>1, <2>1, RecursionSolved, Zenon
  <1>3. PICK f : Recurs(f, n, Nat, 0, step)
    BY <1>2
  <1>4. f \in [0 .. n -> Nat] /\ f[0] = 0
    BY <1>3 DEF Recurs
  <1>5. ASSUME NEW i \in 1 .. n PROVE f[i] = 256 * f[i - 1] + row[i]
    <2>1. f[i] = step[<<i, f[i - 1]>>]
      <3> HIDE DEF n, step
      <3> QED BY <1>3 DEF Recurs
    <2>2. f[i - 1] \in Nat
      <3> HIDE DEF n, step
      <3> QED BY <1>4, <1>n
    <2> QED BY <2>1, <2>2
  <1>6. Turns(f)
    <2> HIDE DEF n, step
    <2>1. f = [i \in 0 .. n |-> f[i]]
      BY <1>4
    <2>2. ASSUME NEW i \in 0 .. n
          PROVE  f[i] = IF i = 0 THEN 0 ELSE 256 * f[i - 1] + row[i]
      <3>1. CASE i = 0
        BY <1>4, <3>1
      <3>2. CASE i # 0
        <4>1. i \in 1 .. n
          BY <1>n, <3>2
        <4> QED BY <1>5, <3>2, <4>1
      <3> QED BY <3>1, <3>2
    <2> QED BY <2>1, <2>2, Zenon
  <1>7. Turns(turns)
    <2> HIDE DEF Turns
    <2> QED BY <1>6
  <1>8. turns = [i \in 0 .. n |-> IF i = 0 THEN 0 ELSE 256 * turns[i - 1] + row[i]]
    BY <1>7
  <1>9. BigEndian(row) = turns[n]
    BY DEF BigEndian
  <1> HIDE DEF turns
  <1>10. turns[0] = 0 /\ \A i \in 1 .. n : turns[i] = 256 * turns[i - 1] + row[i]
    <2> HIDE DEF n
    <2> QED BY <1>n, <1>8
  <1> QED BY <1>9, <1>10

LEMMA Padded ==
  ASSUME NEW row \in Seq(Byte8), NEW k \in Nat, k + Len(row) = 8,
         NEW eight \in Seq(Byte8), Len(eight) = 8,
         \A i \in 1 .. k : eight[i] = 0, \A i \in 1 .. Len(row) : eight[k + i] = row[i]
  PROVE  [i \in 1 .. k |-> 0] \o row = eight
  <1>0. 0 \in Byte8
    BY DEF Byte8
  <1>1. PICK zeros \in Seq(Byte8) :
          zeros = [i \in 1 .. k |-> 0] /\ Len(zeros) = k /\ \A i \in 1 .. k : zeros[i] = 0
    <2> DEFINE z == [i \in 1 .. k |-> 0]
    <2>1. z \in Seq(Byte8)
      BY <1>0
    <2>2. Len(z) = k /\ \A i \in 1 .. k : z[i] = 0
      OBVIOUS
    <2> HIDE DEF z
    <2>3. \E zeros \in Seq(Byte8) :
            zeros = z /\ Len(zeros) = k /\ \A i \in 1 .. k : zeros[i] = 0
      BY <2>1, <2>2, Zenon
    <2> QED BY <2>3 DEF z
  <1>2. PICK all \in Seq(Byte8) :
          /\ all = zeros \o row /\ Len(all) = Len(zeros) + Len(row)
          /\ \A i \in 1 .. Len(zeros) : all[i] = zeros[i]
          /\ \A i \in 1 .. Len(row) : all[Len(zeros) + i] = row[i]
    BY <1>1, RowsJoined, Zenon
  <1>3. ASSUME NEW i \in 1 .. 8 PROVE all[i] = eight[i]
    <2>1. CASE i \in 1 .. k
      BY <1>1, <1>2, <2>1
    <2>2. CASE ~(i \in 1 .. k)
      <3>1. PICK j \in 1 .. Len(row) : i = k + j
        <4>1. i - k \in 1 .. Len(row) /\ i = k + (i - k)
          BY <2>2
        <4> QED BY <4>1
      <3> QED BY <1>1, <1>2, <3>1
    <2> QED BY <2>1, <2>2
  <1>4. Len(all) = 8
    BY <1>1, <1>2
  <1>5. all = eight
    <2>1. all = [i \in 1 .. 8 |-> all[i]] /\ eight = [i \in 1 .. 8 |-> eight[i]]
      BY <1>4
    <2> QED BY <1>3, <2>1, Zenon
  <1> QED BY <1>1, <1>2, <1>5

LEMMA FactorExact ==
  ASSUME NEW row \in Seq(Byte8), Len(row) <= 3
  PROVE  FactorBytes(BigEndian(row)) = [i \in 1 .. 8 - Len(row) |-> 0] \o row
  <1>1. PICK sum : /\ sum[0] = 0
                   /\ \A i \in 1 .. Len(row) : sum[i] = 256 * sum[i - 1] + row[i]
                   /\ BigEndian(row) = sum[Len(row)]
    BY BigEndianIs
  <1>z. 0 \in Byte8
    BY DEF Byte8
  <1>t. \A p, q, r \in Byte8 : <<0, 0, 0, 0, 0, p, q, r>> \in Seq(Byte8)
    BY <1>z
  <1>i. \A i \in 1 .. Len(row) : row[i] \in Byte8
    OBVIOUS
  <1>b. Byte8 \subseteq Int
    BY DEF Byte8
  <1>2. CASE Len(row) = 0
    <2>2. BigEndian(row) = 256 * (256 * 0 + 0) + 0
      BY <1>1, <1>2
    <2>3. FactorBytes(BigEndian(row)) = <<0, 0, 0, 0, 0, 0, 0, 0>>
      BY <1>z, <2>2, FactorOfThree
    <2>4. PICK eight \in Seq(Byte8) : eight = <<0, 0, 0, 0, 0, 0, 0, 0>>
      BY <1>z, <1>t
    <2>5. /\ Len(eight) = 8 /\ \A i \in 1 .. 8 : eight[i] = 0
          /\ \A i \in 1 .. 0 : eight[8 + i] = row[i]
      BY <2>4
    <2>6. 8 - Len(row) = 8 /\ 8 + Len(row) = 8 /\ 8 \in Nat
      BY <1>2
    <2>7. [i \in 1 .. 8 |-> 0] \o row = eight
      BY <1>2, <2>5, <2>6, Padded
    <2> QED BY <2>3, <2>4, <2>6, <2>7
  <1>3. CASE Len(row) = 1
    <2>0. row[1] \in Byte8
      BY <1>i, <1>3
    <2>1. PICK r \in Byte8 : r = row[1]
      BY <2>0, Zenon
    <2>i. r \in Int
      BY <1>b, <2>1, Zenon
    <2>2. BigEndian(row) = 256 * (256 * 0 + 0) + r
      <3>1. sum[1] = 256 * sum[0] + r
        BY <1>1, <1>3, <2>1
      <3> QED BY <1>1, <1>3, <2>i, <3>1
    <2>3. FactorBytes(BigEndian(row)) = <<0, 0, 0, 0, 0, 0, 0, r>>
      BY <1>z, <2>2, FactorOfThree
    <2>4. PICK eight \in Seq(Byte8) : eight = <<0, 0, 0, 0, 0, 0, 0, r>>
      BY <1>z, <1>t
    <2>5. /\ Len(eight) = 8 /\ \A i \in 1 .. 7 : eight[i] = 0
          /\ \A i \in 1 .. 1 : eight[7 + i] = row[i]
      BY <2>1, <2>4
    <2>6. 8 - Len(row) = 7 /\ 7 + Len(row) = 8 /\ 7 \in Nat
      BY <1>3
    <2>7. [i \in 1 .. 7 |-> 0] \o row = eight
      BY <1>3, <2>5, <2>6, Padded
    <2> QED BY <2>3, <2>4, <2>6, <2>7
  <1>4. CASE Len(row) = 2
    <2>0. row[1] \in Byte8 /\ row[2] \in Byte8
      BY <1>i, <1>4
    <2>1. PICK q \in Byte8, r \in Byte8 : q = row[1] /\ r = row[2]
      BY <2>0, Zenon
    <2>i. q \in Int /\ r \in Int
      BY <1>b, <2>1, Zenon
    <2>2. BigEndian(row) = 256 * (256 * 0 + q) + r
      <3>1. sum[1] = 256 * sum[0] + q /\ sum[2] = 256 * sum[1] + r
        BY <1>1, <1>4, <2>1
      <3> QED BY <1>1, <1>4, <2>i, <3>1
    <2>3. FactorBytes(BigEndian(row)) = <<0, 0, 0, 0, 0, 0, q, r>>
      BY <1>z, <2>2, FactorOfThree
    <2>4. PICK eight \in Seq(Byte8) : eight = <<0, 0, 0, 0, 0, 0, q, r>>
      BY <1>z, <1>t
    <2>5. /\ Len(eight) = 8 /\ \A i \in 1 .. 6 : eight[i] = 0
          /\ \A i \in 1 .. 2 : eight[6 + i] = row[i]
      BY <2>1, <2>4
    <2>6. 8 - Len(row) = 6 /\ 6 + Len(row) = 8 /\ 6 \in Nat
      BY <1>4
    <2>7. [i \in 1 .. 6 |-> 0] \o row = eight
      BY <1>4, <2>5, <2>6, Padded
    <2> QED BY <2>3, <2>4, <2>6, <2>7
  <1>5. CASE Len(row) = 3
    <2>0. row[1] \in Byte8 /\ row[2] \in Byte8 /\ row[3] \in Byte8
      BY <1>i, <1>5
    <2>1. PICK p \in Byte8, q \in Byte8, r \in Byte8 : p = row[1] /\ q = row[2] /\ r = row[3]
      BY <2>0, Zenon
    <2>i. p \in Int /\ q \in Int /\ r \in Int
      BY <1>b, <2>1, Zenon
    <2>2. BigEndian(row) = 256 * (256 * p + q) + r
      <3>1. sum[1] = 256 * sum[0] + p /\ sum[2] = 256 * sum[1] + q /\ sum[3] = 256 * sum[2] + r
        BY <1>1, <1>5, <2>1
      <3> QED BY <1>1, <1>5, <2>i, <3>1
    <2>3. FactorBytes(BigEndian(row)) = <<0, 0, 0, 0, 0, p, q, r>>
      BY <1>z, <2>2, FactorOfThree
    <2>4. PICK eight \in Seq(Byte8) : eight = <<0, 0, 0, 0, 0, p, q, r>>
      BY <1>z, <1>t
    <2>5. /\ Len(eight) = 8 /\ \A i \in 1 .. 5 : eight[i] = 0
          /\ \A i \in 1 .. 3 : eight[5 + i] = row[i]
      BY <2>1, <2>4
    <2>6. 8 - Len(row) = 5 /\ 5 + Len(row) = 8 /\ 5 \in Nat
      BY <1>5
    <2>7. [i \in 1 .. 5 |-> 0] \o row = eight
      BY <1>5, <2>5, <2>6, Padded
    <2> QED BY <2>3, <2>4, <2>6, <2>7
  <1>6. Len(row) = 0 \/ Len(row) = 1 \/ Len(row) = 2 \/ Len(row) = 3
    <2>1. PICK n \in Nat : n = Len(row)
      OBVIOUS
    <2>2. n = 0 \/ n = 1 \/ n = 2 \/ n = 3
      BY <2>1
    <2> QED BY <2>1, <2>2
  <1> QED BY <1>2, <1>3, <1>4, <1>5, <1>6

\* The array under the encoders keeps to bytes.
LEMMA BytesKept ==
  CodecsSpec => [](bytes \in Seq(Byte8))
  <1>1. CodecsInit => bytes \in Seq(Byte8)
    BY DEF CodecsInit
  <1>2. bytes \in Seq(Byte8) /\ [CodecsNext]_bytes => (bytes \in Seq(Byte8))'
    <2>1. SampleBytes \subseteq Byte8
      BY CodecsAssumption DEF Byte8
    <2> QED BY <2>1 DEF CodecsNext, AppendByte
  <1> QED BY <1>1, <1>2, PTL DEF CodecsSpec

LEMMA BytesExact ==
  ASSUME bytes \in Seq(Byte8)
  PROVE  CodecsExact
  <1>1. EncodeBase32(bytes) = Letters(bytes) /\ Base32Reference = Letters(bytes)
    BY EncodeExact, ReferenceExact
  <1>2. DecodeBase32(Letters(bytes)) = bytes
    BY DecodeExact
  <1>3. FromHex(ToHex(bytes)) = bytes
    BY HexExact
  <1>4. Len(bytes) <= 3 =>
          FactorBytes(BigEndian(bytes)) = [i \in 1 .. 8 - Len(bytes) |-> 0] \o bytes
    BY FactorExact
  <1> QED BY <1>1, <1>2, <1>3, <1>4, Zenon DEF CodecsExact

\* Whatever bytes are encoded, as many as there are (base32.ts, hex.ts, otp.ts):
\* the text is the RFC's, and base 32, hexadecimal and the counter's bytes give
\* back what was put into them.
THEOREM CodecsAreExact == CodecsSpec => []CodecsExact
  <1>1. bytes \in Seq(Byte8) => CodecsExact
    BY BytesExact
  <1> QED BY <1>1, BytesKept, PTL

-----------------------------------------------------------------------------
(***************************************************************************)
(* The parts beside each other.                                            *)
(***************************************************************************)
LEMMA ClientStep ==
  [MCNext]_<<part, membersVars, registryVars, bufferVars, bytes>> =>
    /\ [MembersNext]_membersVars /\ [RegistryNext]_registryVars
    /\ [BufferNext]_bufferVars /\ [CodecsNext]_bytes
  BY DEF MCNext

\* The client's parts that run beside each other keep the types of their variables.
THEOREM ClientTypesHold == MCSpec => []ClientTypeOK
  <1>1. MCInit => MembersInit /\ RegistryInit /\ BufferInit /\ CodecsInit
    BY DEF MCInit
  <1>2. MCSpec => MembersSpec /\ RegistrySpec /\ BufferSpec /\ CodecsSpec
    BY <1>1, ClientStep, PTL DEF MCSpec, MembersSpec, RegistrySpec, BufferSpec, CodecsSpec
  <1>3. MembersTypeOK /\ RegistryTypeOK /\ BufferTypeOK /\ bytes \in Seq(Byte8) => ClientTypeOK
    BY DEF ClientTypeOK, Byte8
  <1> QED BY <1>2, <1>3, MembersTypesHold, RegistryTypesHold, BufferTypesHold, BytesKept, PTL

=============================================================================
