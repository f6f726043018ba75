--------------------------- MODULE Services_proofs ---------------------------
(***************************************************************************)
(* Theorems about the four services of the server that share no state:     *)
(* nicknames and avatars (Profile), friends (Friends), the client of an    *)
(* OAuth provider (OAuth) and the queue of a game's frames (GameRooms).    *)
(* They hold for every set of accounts, names, tags, avatar ids, requests, *)
(* contents of rows, handlers, sources and states, and for every court.    *)
(***************************************************************************)
EXTENDS MCServices, Recursion_proofs

-----------------------------------------------------------------------------
(***************************************************************************)
(* Profile.                                                                *)
(***************************************************************************)

Registering(r) == r \in Pending(request, "nick", {"pick", "update"})
Updating(r) == RequestAt(r, "nick", "update")

\* A tag is picked before it is written.
TagsPicked == \A r \in Requests : Updating(r) => request[r].tag \in Tags

\* An avatar id is there when it is deleted or linked.
KeysKnown ==
  \A r \in Pending(request, "avatar", {"delete", "link"}) : request[r].key \in Keys

ProfileTypeInv == ProfileTypeOK /\ TagsPicked /\ KeysKnown

\* The kinds of requests are told apart by their op.
LEMMA Kinds ==
  ASSUME ProfileTypeOK, NEW r \in Requests, request[r] # None
  PROVE  /\ request[r].op = "nick" => request[r] \in NickRequests
         /\ request[r].op = "avatar" => request[r] \in AvatarRequests
         /\ request[r].op \in {"nick", "avatar"}
         /\ request[r].account \in Accounts
  BY DEF ProfileTypeOK, NickRequests, AvatarRequests

-----------------------------------------------------------------------------
(* Type correctness. *)

LEMMA ProfileTypeInit == ProfileInit => ProfileTypeInv
  BY DEF ProfileInit, ProfileTypeInv, ProfileTypeOK, TagsPicked, KeysKnown, Updating, RequestAt, Pending

\* A step that only ends a request, or begins one, keeps what is known of the others.
LEMMA ProfileTypeFrame ==
  ASSUME ProfileTypeInv, NEW r \in Requests,
         NEW q \in NickRequests \cup AvatarRequests \cup {None},
         q # None /\ q \in NickRequests /\ q.step = "update" => q.tag \in Tags,
         q # None /\ q \in AvatarRequests /\ q.step \in {"delete", "link"} => q.key \in Keys,
         request' = [request EXCEPT ![r] = q]
  PROVE  /\ request' \in [Requests -> NickRequests \cup AvatarRequests \cup {None}]
         /\ TagsPicked' /\ KeysKnown'
  <1>1. request' \in [Requests -> NickRequests \cup AvatarRequests \cup {None}]
    BY DEF ProfileTypeInv, ProfileTypeOK
  <1>2. ASSUME NEW s \in Requests PROVE request'[s] = IF s = r THEN q ELSE request[s]
    BY DEF ProfileTypeInv, ProfileTypeOK
  <1>3. q # None => /\ q.op = "nick" => q \in NickRequests
                    /\ q.op = "avatar" => q \in AvatarRequests
    BY DEF NickRequests, AvatarRequests
  <1>4. TagsPicked'
    BY <1>2, <1>3 DEF ProfileTypeInv, TagsPicked, Updating, RequestAt, Pending
  <1>5. KeysKnown'
    BY <1>2, <1>3 DEF ProfileTypeInv, KeysKnown, Pending
  <1> QED BY <1>1, <1>4, <1>5

LEMMA ProfileTypeNext == ProfileTypeInv /\ [ProfileNext]_profileVars => ProfileTypeInv'
  <1> SUFFICES ASSUME ProfileTypeInv, [ProfileNext]_profileVars PROVE ProfileTypeInv'
    OBVIOUS
  <1> USE NoneAssumption
  <1>0. ProfileTypeOK
    BY DEF ProfileTypeInv
  <1>1. ASSUME UNCHANGED profileVars PROVE ProfileTypeInv'
    BY <1>1 DEF profileVars, ProfileTypeInv, ProfileTypeOK, TagsPicked, KeysKnown, Updating,
                RequestAt, Pending
  <1>2. ASSUME NEW r \in Requests, NEW a \in Accounts, NEW name \in Names, PostNick(r, a, name)
        PROVE  ProfileTypeInv'
    <2> DEFINE q == [op |-> "nick", account |-> a, name |-> name, tag |-> None, step |-> "find"]
    <2>1. q \in NickRequests /\ q \notin AvatarRequests /\ q.step = "find"
      BY DEF NickRequests, AvatarRequests
    <2>2. request' = [request EXCEPT ![r] = q]
      BY <1>2 DEF PostNick
    <2> HIDE DEF q
    <2>3. /\ request' \in [Requests -> NickRequests \cup AvatarRequests \cup {None}]
          /\ TagsPicked' /\ KeysKnown'
      BY <2>1, <2>2, ProfileTypeFrame
    <2>4. contended' \subseteq Accounts
      BY <1>0, <1>2 DEF PostNick, WatchNick, Racing, ProfileTypeOK
    <2> QED BY <1>0, <1>2, <2>3, <2>4 DEF ProfileTypeInv, ProfileTypeOK, PostNick, avatarVars
  <1>3. ASSUME NEW r \in Requests, NEW a \in Accounts, NEW upload \in BOOLEAN,
               PostAvatar(r, a, upload)
        PROVE  ProfileTypeInv'
    <2> DEFINE q == [op |-> "avatar", account |-> a, upload |-> upload, key |-> None,
                     step |-> "find"]
    <2>1. q \in AvatarRequests /\ q \notin NickRequests /\ q.step = "find"
      BY DEF NickRequests, AvatarRequests
    <2>2. request' = [request EXCEPT ![r] = q]
      BY <1>3 DEF PostAvatar
    <2> HIDE DEF q
    <2>3. /\ request' \in [Requests -> NickRequests \cup AvatarRequests \cup {None}]
          /\ TagsPicked' /\ KeysKnown'
      BY <2>1, <2>2, ProfileTypeFrame
    <2>4. mixed' \subseteq Accounts
      BY <1>0, <1>3 DEF PostAvatar, WatchAvatar, Mixing, ProfileTypeOK
    <2> QED BY <1>0, <1>3, <2>3, <2>4 DEF ProfileTypeInv, ProfileTypeOK, PostAvatar, nickVars
  <1>4. ASSUME NEW r \in Requests, Answer(r)
        PROVE  /\ request' \in [Requests -> NickRequests \cup AvatarRequests \cup {None}]
               /\ TagsPicked' /\ KeysKnown'
    BY <1>4, ProfileTypeFrame DEF Answer
  <1>5. ASSUME NEW r \in Requests, FindNick(r) PROVE ProfileTypeInv'
    <2>1. request[r] \in NickRequests
      BY <1>0, <1>5, Kinds DEF FindNick, RequestAt, Pending
    <2>2. contended' \subseteq Accounts
      BY <1>0, <1>5 DEF FindNick, WatchNick, Racing, ProfileTypeOK
    <2>3. CASE request' = [request EXCEPT ![r].step = "pick"]
      <3> DEFINE q == [request[r] EXCEPT !.step = "pick"]
      <3>1. q \in NickRequests /\ q \notin AvatarRequests /\ q.step = "pick"
        BY <2>1 DEF NickRequests, AvatarRequests
      <3>2. request' = [request EXCEPT ![r] = q]
        BY <2>3
      <3> HIDE DEF q
      <3>3. /\ request' \in [Requests -> NickRequests \cup AvatarRequests \cup {None}]
            /\ TagsPicked' /\ KeysKnown'
        BY <3>1, <3>2, ProfileTypeFrame
      <3> QED BY <1>0, <1>5, <2>2, <3>3 DEF ProfileTypeInv, ProfileTypeOK, FindNick, avatarVars
    <2>4. CASE Answer(r)
      BY <1>0, <1>5, <2>2, <2>4, <1>4 DEF ProfileTypeInv, ProfileTypeOK, FindNick, avatarVars
    <2> QED BY <1>5, <2>3, <2>4 DEF FindNick
  <1>6. ASSUME NEW r \in Requests, PickTag(r) PROVE ProfileTypeInv'
    <2>1. request[r] \in NickRequests
      BY <1>0, <1>6, Kinds DEF PickTag, RequestAt, Pending
    <2>2. contended' \subseteq Accounts
      BY <1>0, <1>6 DEF PickTag, WatchNick, Racing, ProfileTypeOK
    <2>3. ASSUME NEW tag \in Tags,
                 request' = [request EXCEPT ![r].tag = tag, ![r].step = "update"]
          PROVE  ProfileTypeInv'
      <3> DEFINE q == [request[r] EXCEPT !.tag = tag, !.step = "update"]
      <3>1. q \in NickRequests /\ q \notin AvatarRequests /\ q.tag \in Tags
        BY <2>1 DEF NickRequests, AvatarRequests
      <3>2. request' = [request EXCEPT ![r] = q]
        BY <2>3
      <3> HIDE DEF q
      <3>3. /\ request' \in [Requests -> NickRequests \cup AvatarRequests \cup {None}]
            /\ TagsPicked' /\ KeysKnown'
        BY <3>1, <3>2, ProfileTypeFrame
      <3> QED BY <1>0, <1>6, <2>2, <3>3 DEF ProfileTypeInv, ProfileTypeOK, PickTag, avatarVars
    <2>4. CASE Answer(r)
      BY <1>0, <1>6, <2>2, <2>4, <1>4 DEF ProfileTypeInv, ProfileTypeOK, PickTag, avatarVars
    <2> QED BY <1>6, <2>3, <2>4 DEF PickTag, FreeTags
  <1>7. ASSUME NEW r \in Requests, UpdateNick(r) PROVE ProfileTypeInv'
    <2>1. request[r] \in NickRequests /\ request[r].tag \in Tags
      BY <1>0, <1>7, Kinds DEF ProfileTypeInv, TagsPicked, Updating, UpdateNick, RequestAt, Pending
    <2>2. <<request[r].name, request[r].tag>> \in Names \X Tags /\ request[r].account \in Accounts
      BY <2>1 DEF NickRequests
    <2>3. contended' \subseteq Accounts
      BY <1>0, <1>7 DEF UpdateNick, WatchNick, Racing, ProfileTypeOK
    <2>4. nick' \in [Accounts -> (Names \X Tags) \cup {None}]
      BY <1>0, <1>7, <2>2 DEF UpdateNick, ProfileTypeOK
    <2>5. answered' \subseteq Accounts \X (Names \X Tags)
      BY <1>0, <1>7, <2>2 DEF UpdateNick, ProfileTypeOK
    <2> QED BY <1>0, <1>4, <1>7, <2>3, <2>4, <2>5 DEF ProfileTypeInv, ProfileTypeOK, UpdateNick, avatarVars
  <1>8. ASSUME NEW r \in Requests, NEW upload \in BOOLEAN, WithoutOld(r, upload),
               request[r] \in AvatarRequests
        PROVE  /\ request' \in [Requests -> NickRequests \cup AvatarRequests \cup {None}]
               /\ TagsPicked' /\ KeysKnown'
               /\ shown' \in [Accounts -> Keys \cup {None}]
    <2>1. CASE request' = [request EXCEPT ![r].step = "create", ![r].key = None] /\ UNCHANGED shown
      <3> DEFINE q == [request[r] EXCEPT !.step = "create", !.key = None]
      <3>1. q \in AvatarRequests /\ q \notin NickRequests /\ q.step = "create"
        BY <1>8 DEF NickRequests, AvatarRequests
      <3>2. request' = [request EXCEPT ![r] = q]
        BY <2>1
      <3> HIDE DEF q
      <3> QED BY <1>0, <2>1, <3>1, <3>2, ProfileTypeFrame DEF ProfileTypeOK
    <2>2. CASE AnswerAvatar(r, None)
      BY <1>0, <1>4, <2>2 DEF AnswerAvatar, ProfileTypeOK
    <2> QED BY <1>8, <2>1, <2>2 DEF WithoutOld
  <1>9. ASSUME NEW r \in Requests, FindAvatarKey(r) PROVE ProfileTypeInv'
    <2>1. request[r] \in AvatarRequests /\ request[r].account \in Accounts
          /\ request[r].upload \in BOOLEAN
      BY <1>0, <1>9, Kinds DEF FindAvatarKey, RequestAt, Pending, AvatarRequests
    <2>2. mixed' \subseteq Accounts
      BY <1>0, <1>9 DEF FindAvatarKey, WatchAvatar, Mixing, ProfileTypeOK
    <2>3. CASE WithoutOld(r, request[r].upload)
      BY <1>0, <1>8, <1>9, <2>1, <2>2, <2>3 DEF ProfileTypeInv, ProfileTypeOK, FindAvatarKey, nickVars
    <2>4. CASE /\ avatarKey[request[r].account] # None
               /\ request' = [request EXCEPT ![r].step = "delete",
                                             ![r].key = avatarKey[request[r].account]]
               /\ UNCHANGED shown
      <3> DEFINE q == [request[r] EXCEPT !.step = "delete", !.key = avatarKey[request[r].account]]
      <3>0. avatarKey[request[r].account] \in Keys
        BY <1>0, <2>1, <2>4 DEF ProfileTypeOK
      <3>1. q \in AvatarRequests /\ q \notin NickRequests /\ q.key \in Keys
        BY <2>1, <3>0 DEF NickRequests, AvatarRequests
      <3>2. request' = [request EXCEPT ![r] = q]
        BY <2>4
      <3> HIDE DEF q
      <3>3. /\ request' \in [Requests -> NickRequests \cup AvatarRequests \cup {None}]
            /\ TagsPicked' /\ KeysKnown'
        BY <3>1, <3>2, ProfileTypeFrame
      <3> QED BY <1>0, <1>9, <2>2, <2>4, <3>3 DEF ProfileTypeInv, ProfileTypeOK, FindAvatarKey, nickVars
    <2> QED BY <1>9, <2>3, <2>4 DEF FindAvatarKey
  <1>10. ASSUME NEW r \in Requests, DeleteAvatar(r) PROVE ProfileTypeInv'
    <2>1. request[r] \in AvatarRequests /\ request[r].upload \in BOOLEAN
      BY <1>0, <1>10, Kinds DEF DeleteAvatar, RequestAt, Pending, AvatarRequests
    <2>2. mixed' \subseteq Accounts
      BY <1>0, <1>10 DEF DeleteAvatar, WatchAvatar, Mixing, ProfileTypeOK
    <2>3. CASE Answer(r) /\ UNCHANGED <<avatarKey, avatars, shown>>
      BY <1>0, <1>4, <1>10, <2>2, <2>3 DEF ProfileTypeInv, ProfileTypeOK, DeleteAvatar, nickVars
    <2>4. CASE /\ avatars' = avatars \ {request[r].key}
               /\ avatarKey' = [a \in Accounts |-> IF avatarKey[a] = request[r].key THEN None
                                                   ELSE avatarKey[a]]
               /\ WithoutOld(r, request[r].upload)
      BY <1>0, <1>8, <1>10, <2>1, <2>2, <2>4 DEF ProfileTypeInv, ProfileTypeOK, DeleteAvatar, nickVars
    <2> QED BY <1>10, <2>3, <2>4 DEF DeleteAvatar
  <1>11. ASSUME NEW r \in Requests, CreateAvatar(r) PROVE ProfileTypeInv'
    <2>1. request[r] \in AvatarRequests /\ request[r].account \in Accounts
      BY <1>0, <1>11, Kinds DEF CreateAvatar, RequestAt, Pending
    <2>2. mixed' \subseteq Accounts
      BY <1>0, <1>11 DEF CreateAvatar, WatchAvatar, Mixing, ProfileTypeOK
    <2>3. PICK k \in Keys :
            /\ avatars' = avatars \cup {k}
            /\ uploader' = [uploader EXCEPT ![k] = request[r].account]
            /\ request' = [request EXCEPT ![r].step = "link", ![r].key = k]
      BY <1>11 DEF CreateAvatar, FreshKeys
    <2> DEFINE q == [request[r] EXCEPT !.step = "link", !.key = k]
    <2>4. q \in AvatarRequests /\ q \notin NickRequests /\ q.key \in Keys
      BY <2>1, <2>3 DEF NickRequests, AvatarRequests
    <2>5. request' = [request EXCEPT ![r] = q]
      BY <2>3
    <2> HIDE DEF q
    <2>6. /\ request' \in [Requests -> NickRequests \cup AvatarRequests \cup {None}]
          /\ TagsPicked' /\ KeysKnown'
      BY <2>4, <2>5, ProfileTypeFrame
    <2> QED BY <1>0, <1>11, <2>1, <2>2, <2>3, <2>6 DEF ProfileTypeInv, ProfileTypeOK, CreateAvatar, nickVars
  <1>12. ASSUME NEW r \in Requests, LinkAvatar(r) PROVE ProfileTypeInv'
    <2>1. request[r].key \in Keys /\ request[r].account \in Accounts
      BY <1>0, <1>12, Kinds DEF ProfileTypeInv, KeysKnown, LinkAvatar, RequestAt, Pending
    <2>2. mixed' \subseteq Accounts
      BY <1>0, <1>12 DEF LinkAvatar, WatchAvatar, Mixing, ProfileTypeOK
    <2> QED BY <1>0, <1>4, <1>12, <2>1, <2>2
            DEF ProfileTypeInv, ProfileTypeOK, LinkAvatar, AnswerAvatar, nickVars
  <1>13. ASSUME NEW r \in Requests, RequestFails(r) PROVE ProfileTypeInv'
    <2>1. contended' \subseteq Accounts /\ mixed' \subseteq Accounts
      BY <1>0, <1>13, Kinds DEF RequestFails, WatchNick, Racing, WatchAvatar, Mixing, ProfileTypeOK
    <2> QED BY <1>0, <1>4, <1>13, <2>1 DEF ProfileTypeInv, ProfileTypeOK, RequestFails
  <1> QED BY <1>1, <1>2, <1>3, <1>5, <1>6, <1>7, <1>9, <1>10, <1>11, <1>12, <1>13 DEF ProfileNext

\* ProfileTypeOK: every variable keeps its type.
THEOREM ProfileTypesHold == ProfileSpec => []ProfileTypeOK
  <1>1. ProfileTypeInv => ProfileTypeOK
    BY DEF ProfileTypeInv
  <1> QED BY <1>1, ProfileTypeInit, ProfileTypeNext, PTL DEF ProfileSpec

-----------------------------------------------------------------------------
(* Nicknames. *)

\* Registrations that race are known to.
RacesSeen ==
  \A r, s \in Requests :
    /\ r # s /\ Registering(r) /\ Registering(s)
    /\ \/ request[r].account = request[s].account
       \/ Updating(r) /\ Updating(s) /\ request[r].name = request[s].name
    => request[r].account \in contended

\* Who registers and does not race has no nickname,
NickFree ==
  \A r \in Requests :
    Registering(r) /\ request[r].account \notin contended => nick[request[r].account] = None

\* and nobody has the tag it picked.
TagFree ==
  \A r \in Requests :
    Updating(r) /\ request[r].account \notin contended =>
      \A b \in Accounts : nick[b] # <<request[r].name, request[r].tag>>

NamesStay == \A p \in answered : p[1] \notin contended => nick[p[1]] = p[2]

NamesDiffer ==
  \A a, b \in Accounts \ contended : a # b => nick[a] = None \/ nick[a] # nick[b]

NickInv == RacesSeen /\ NickFree /\ TagFree /\ NamesStay /\ NamesDiffer

LEMMA NickInit == ProfileInit => NickInv
  BY DEF ProfileInit, NickInv, RacesSeen, NickFree, TagFree, NamesStay, NamesDiffer,
         Registering, Updating, RequestAt, Pending

\* WatchNick sees every race.
LEMMA RacesSeenNext ==
  ASSUME ProfileTypeOK', WatchNick
  PROVE  RacesSeen' /\ contended \subseteq contended'
  <1>1. \A r \in Requests : request'[r] # None => request'[r].account \in Accounts
    BY NoneAssumption DEF ProfileTypeOK, NickRequests, AvatarRequests
  <1>2. ASSUME NEW r \in Requests, NEW s \in Requests, r # s, Registering(r)', Registering(s)',
               \/ request'[r].account = request'[s].account
               \/ Updating(r)' /\ Updating(s)' /\ request'[r].name = request'[s].name
        PROVE  request'[r].account \in Racing
    BY <1>1, <1>2 DEF Racing, Registering, Updating, RequestAt, Pending
  <1> QED BY <1>2 DEF RacesSeen, WatchNick

\* No registration is begun, or goes on, in the step.
RegistrationsEnd ==
  \A r \in Requests : Registering(r)' => Registering(r) /\ request'[r] = request[r]

LEMMA NickFrame ==
  ASSUME NickInv, RegistrationsEnd, contended \subseteq contended', UNCHANGED <<nick, answered>>
  PROVE  NickInv'
  <1>1. \A r \in Requests : Updating(r)' => Registering(r)'
    BY DEF Updating, Registering, RequestAt, Pending
  <1>2. \A r \in Requests : Updating(r)' => Updating(r) /\ request'[r] = request[r]
    BY <1>1 DEF RegistrationsEnd, Updating, RequestAt, Pending
  <1>3. RacesSeen'
    BY <1>1, <1>2 DEF NickInv, RacesSeen, RegistrationsEnd
  <1>4. NickFree'
    BY DEF NickInv, NickFree, RegistrationsEnd
  <1>5. TagFree'
    BY <1>2 DEF NickInv, TagFree
  <1>6. NamesStay' /\ NamesDiffer'
    BY DEF NickInv, NamesStay, NamesDiffer
  <1> QED BY <1>3, <1>4, <1>5, <1>6 DEF NickInv

\* A step that changes one request, to one that does not register, is of that kind.
LEMMA OthersRegister ==
  ASSUME ProfileTypeOK, NEW r \in Requests, NEW q, request' = [request EXCEPT ![r] = q],
         q = None \/ (q # None /\ q.op = "nick" => q.step = "find")
  PROVE  RegistrationsEnd
  BY DEF RegistrationsEnd, Registering, Pending, ProfileTypeOK

LEMMA NickNext == ProfileTypeInv /\ ProfileTypeInv' /\ NickInv /\ [ProfileNext]_profileVars => NickInv'
  <1> SUFFICES ASSUME ProfileTypeInv, ProfileTypeInv', NickInv, [ProfileNext]_profileVars PROVE NickInv'
    OBVIOUS
  <1> USE NoneAssumption
  <1>0. ProfileTypeOK /\ ProfileTypeOK'
    BY DEF ProfileTypeInv
  <1>1. ASSUME UNCHANGED profileVars PROVE NickInv'
    <2>1. RegistrationsEnd
      BY <1>1 DEF profileVars, RegistrationsEnd, Registering, Pending
    <2> QED BY <1>1, <2>1, NickFrame DEF profileVars
  <1>2. ASSUME NEW r \in Requests, NEW a \in Accounts, NEW name \in Names, PostNick(r, a, name)
        PROVE  NickInv'
    <2>1. RegistrationsEnd
      BY <1>0, <1>2, OthersRegister DEF PostNick
    <2> QED BY <1>0, <1>2, <2>1, NickFrame, RacesSeenNext DEF PostNick
  <1>3. ASSUME NEW r \in Requests, Answer(r) PROVE RegistrationsEnd
    BY <1>0, <1>3, OthersRegister DEF Answer
  <1>4. ASSUME NEW r \in Requests, RequestFails(r) PROVE NickInv'
    BY <1>0, <1>3, <1>4, NickFrame, RacesSeenNext DEF RequestFails
  <1>5. ASSUME UNCHANGED nickVars, NEW r \in Requests, NEW q, q = None \/ (q # None /\ q.op = "avatar"),
               request' = [request EXCEPT ![r] = q]
        PROVE  NickInv'
    <2>1. RegistrationsEnd
      BY <1>0, <1>5, OthersRegister
    <2> QED BY <1>5, <2>1, NickFrame DEF nickVars
  <1>6. ASSUME NEW r \in Requests, NEW a \in Accounts, NEW upload \in BOOLEAN,
               PostAvatar(r, a, upload)
        PROVE  NickInv'
    BY <1>5, <1>6 DEF PostAvatar
  <1>7. ASSUME NEW r \in Requests, RequestAt(r, "avatar", "find") \/ RequestAt(r, "avatar", "delete")
                 \/ RequestAt(r, "avatar", "create") \/ RequestAt(r, "avatar", "link")
        PROVE  request[r] \in AvatarRequests
    BY <1>0, <1>7, Kinds DEF RequestAt, Pending
  <1>8. ASSUME NEW r \in Requests, FindAvatarKey(r) \/ DeleteAvatar(r) \/ CreateAvatar(r) \/ LinkAvatar(r)
        PROVE  NickInv'
    <2>1. request[r] \in AvatarRequests
      BY <1>7, <1>8 DEF FindAvatarKey, DeleteAvatar, CreateAvatar, LinkAvatar
    <2>2. UNCHANGED nickVars
      BY <1>8 DEF FindAvatarKey, DeleteAvatar, CreateAvatar, LinkAvatar
    <2>3. ASSUME NEW step \in {"create", "delete", "link"}, NEW k,
                 request' = [request EXCEPT ![r].step = step, ![r].key = k]
          PROVE  NickInv'
      <3> DEFINE q == [request[r] EXCEPT !.step = step, !.key = k]
      <3>1. q.op = "avatar"
        BY <2>1 DEF AvatarRequests
      <3>2. request' = [request EXCEPT ![r] = q]
        BY <2>3
      <3> HIDE DEF q
      <3> QED BY <1>5, <2>2, <3>1, <3>2
    <2>4. ASSUME Answer(r) PROVE NickInv'
      BY <1>5, <2>2, <2>4 DEF Answer
    <2>5. CASE FindAvatarKey(r)
      BY <2>3, <2>4, <2>5 DEF FindAvatarKey, WithoutOld, AnswerAvatar
    <2>6. CASE DeleteAvatar(r)
      BY <2>3, <2>4, <2>6 DEF DeleteAvatar, WithoutOld, AnswerAvatar
    <2>7. CASE CreateAvatar(r)
      BY <2>3, <2>7 DEF CreateAvatar
    <2>8. CASE LinkAvatar(r)
      BY <2>4, <2>8 DEF LinkAvatar, AnswerAvatar
    <2> QED BY <1>8, <2>5, <2>6, <2>7, <2>8
  <1>9. ASSUME NEW r \in Requests, FindNick(r) PROVE NickInv'
    <2>1. /\ request[r] \in NickRequests /\ request[r] # None
          /\ request[r].op = "nick" /\ request[r].step = "find"
      BY <1>0, <1>9, Kinds DEF FindNick, RequestAt, Pending
    <2>2. RacesSeen' /\ contended \subseteq contended' /\ UNCHANGED <<nick, answered>>
      BY <1>0, <1>9, RacesSeenNext DEF FindNick
    <2>3. CASE Answer(r)
      BY <1>3, <2>2, <2>3, NickFrame
    <2>4. CASE /\ nick[request[r].account] = None
               /\ request' = [request EXCEPT ![r].step = "pick"]
      <3>1. \A s \in Requests : s # r => request'[s] = request[s]
        BY <1>0, <2>4 DEF ProfileTypeOK
      <3>2. request'[r] = [request[r] EXCEPT !.step = "pick"]
        BY <1>0, <2>4 DEF ProfileTypeOK
      <3>3. request'[r].step = "pick" /\ request'[r].account = request[r].account
        BY <2>1, <3>2 DEF NickRequests
      <3>4. NickFree'
        BY <2>2, <2>4, <3>1, <3>3 DEF NickInv, NickFree, Registering, Pending
      <3>5. TagFree'
        BY <2>2, <3>1, <3>3 DEF NickInv, TagFree, Updating, RequestAt, Pending
      <3>6. NamesStay' /\ NamesDiffer'
        BY <2>2 DEF NickInv, NamesStay, NamesDiffer
      <3> QED BY <2>2, <3>4, <3>5, <3>6 DEF NickInv
    <2> QED BY <1>9, <2>3, <2>4 DEF FindNick
  <1>10. ASSUME NEW r \in Requests, PickTag(r) PROVE NickInv'
    <2>1. /\ request[r] \in NickRequests /\ request[r] # None
          /\ request[r].op = "nick" /\ request[r].step = "pick"
      BY <1>0, <1>10, Kinds DEF PickTag, RequestAt, Pending
    <2>2. RacesSeen' /\ contended \subseteq contended' /\ UNCHANGED <<nick, answered>>
      BY <1>0, <1>10, RacesSeenNext DEF PickTag
    <2>3. CASE Answer(r)
      BY <1>3, <2>2, <2>3, NickFrame
    <2>4. ASSUME NEW tag \in FreeTags(request[r].name),
                 request' = [request EXCEPT ![r].tag = tag, ![r].step = "update"]
          PROVE  NickInv'
      <3>1. \A s \in Requests : s # r => request'[s] = request[s]
        BY <1>0, <2>4 DEF ProfileTypeOK
      <3>2. request'[r] = [request[r] EXCEPT !.tag = tag, !.step = "update"]
        BY <1>0, <2>4 DEF ProfileTypeOK
      <3>3. /\ request'[r].step = "update" /\ request'[r].tag = tag
            /\ request'[r].account = request[r].account /\ request'[r].name = request[r].name
        BY <2>1, <3>2 DEF NickRequests
      <3>4. NickFree'
        BY <2>1, <2>2, <3>1, <3>3 DEF NickInv, NickFree, Registering, Pending
      <3>5. TagFree'
        BY <2>2, <3>1, <3>3 DEF NickInv, TagFree, Updating, RequestAt, Pending, FreeTags
      <3>6. NamesStay' /\ NamesDiffer'
        BY <2>2 DEF NickInv, NamesStay, NamesDiffer
      <3> QED BY <2>2, <3>4, <3>5, <3>6 DEF NickInv
    <2> QED BY <1>10, <2>3, <2>4 DEF PickTag
  <1>11. ASSUME NEW r \in Requests, UpdateNick(r) PROVE NickInv'
    <2> DEFINE a == request[r].account
               name == <<request[r].name, request[r].tag>>
    <2>1. /\ request[r] \in NickRequests /\ a \in Accounts
          /\ Updating(r) /\ Registering(r)
      BY <1>0, <1>11, Kinds DEF UpdateNick, Updating, Registering, RequestAt, Pending
    <2>2. RacesSeen' /\ contended \subseteq contended'
      BY <1>0, <1>11, RacesSeenNext DEF UpdateNick
    <2>3. /\ nick' = [nick EXCEPT ![a] = name]
          /\ answered' = answered \cup {<<a, name>>}
          /\ Answer(r)
      BY <1>11 DEF UpdateNick
    <2>4. RegistrationsEnd /\ ~Registering(r)'
      <3>1. request'[r] = None
        BY <1>0, <2>3 DEF Answer, ProfileTypeOK
      <3> QED BY <1>3, <2>3, <3>1 DEF Registering, Pending
    <2>5. \A b \in Accounts : nick'[b] = IF b = a THEN name ELSE nick[b]
      BY <1>0, <2>3 DEF ProfileTypeOK
    <2> HIDE DEF a, name
    <2>6. NickFree'
      <3> SUFFICES ASSUME NEW s \in Requests, Registering(s)', request'[s].account \notin contended'
                   PROVE  nick'[request'[s].account] = None
        BY DEF NickFree
      <3>1. Registering(s) /\ request'[s] = request[s] /\ s # r /\ request[s].account \notin contended
        BY <2>2, <2>4 DEF RegistrationsEnd
      <3>2. request[s].account # a
        BY <2>1, <3>1 DEF NickInv, RacesSeen, a
      <3>3. request[s].account \in Accounts
        BY <1>0, <3>1, Kinds DEF Registering, Pending
      <3> QED BY <2>5, <3>1, <3>2, <3>3 DEF NickInv, NickFree
    <2>7. TagFree'
      <3> SUFFICES ASSUME NEW s \in Requests, Updating(s)', request'[s].account \notin contended',
                          NEW b \in Accounts
                   PROVE  nick'[b] # <<request'[s].name, request'[s].tag>>
        BY DEF TagFree
      <3>0. Registering(s)'
        BY DEF Registering, Updating, RequestAt, Pending
      <3>1. Registering(s) /\ request'[s] = request[s] /\ s # r /\ request[s].account \notin contended
        BY <2>2, <2>4, <3>0 DEF RegistrationsEnd
      <3>2. Updating(s)
        BY <3>1 DEF Updating, RequestAt, Pending
      <3>3. request[s].name # request[r].name
        BY <2>1, <3>1, <3>2 DEF NickInv, RacesSeen
      <3> QED BY <2>5, <3>1, <3>2, <3>3 DEF NickInv, TagFree, name
    <2>8. NamesStay'
      <3> SUFFICES ASSUME NEW p \in answered', p[1] \notin contended' PROVE nick'[p[1]] = p[2]
        BY DEF NamesStay
      <3>1. CASE p = <<a, name>>
        BY <2>1, <2>5, <3>1
      <3>2. CASE p \in answered
        <4>1. p[1] \in Accounts /\ p[2] \in Names \X Tags /\ p[1] \notin contended
          BY <1>0, <2>2, <3>2 DEF ProfileTypeOK
        <4>2. nick[p[1]] = p[2] /\ p[2] # None
          BY <3>2, <4>1, ProfileAssumption DEF NickInv, NamesStay
        <4>3. p[1] # a
          BY <2>1, <4>1, <4>2 DEF NickInv, NickFree, a
        <4> QED BY <2>5, <4>1, <4>2, <4>3
      <3> QED BY <2>3, <3>1, <3>2
    <2>9. NamesDiffer'
      <3> SUFFICES ASSUME NEW b \in Accounts \ contended', NEW c \in Accounts \ contended', b # c
                   PROVE  nick'[b] = None \/ nick'[b] # nick'[c]
        BY DEF NamesDiffer
      <3>1. b \in Accounts \ contended /\ c \in Accounts \ contended
        BY <2>2
      <3>2. CASE b # a /\ c # a
        BY <2>5, <3>1, <3>2 DEF NickInv, NamesDiffer
      <3>3. CASE b = a \/ c = a
        <4>1. \A d \in Accounts : nick[d] # name
          BY <2>1, <3>1, <3>3 DEF NickInv, TagFree, a, name
        <4> QED BY <2>5, <3>1, <3>3, <4>1
      <3> QED BY <3>2, <3>3
    <2> QED BY <2>2, <2>6, <2>7, <2>8, <2>9 DEF NickInv
  <1> QED BY <1>1, <1>2, <1>4, <1>6, <1>8, <1>9, <1>10, <1>11 DEF ProfileNext

\* NamesKept: a name and tag that were answered stay, and are nobody else's.
THEOREM NamesAreKept == ProfileSpec => []NamesKept
  <1>1. ProfileTypeInv /\ NickInv => NamesKept
    <2> SUFFICES ASSUME ProfileTypeInv, NickInv, NEW p \in answered, p[1] \notin contended
                 PROVE  /\ nick[p[1]] = p[2]
                        /\ \A a \in Accounts \ contended : nick[a] = p[2] => a = p[1]
      BY DEF NamesKept
    <2>1. p[1] \in Accounts /\ p[2] \in Names \X Tags /\ nick[p[1]] = p[2]
      BY DEF ProfileTypeInv, ProfileTypeOK, NickInv, NamesStay
    <2>2. p[2] # None
      BY <2>1, ProfileAssumption
    <2> QED BY <2>1, <2>2 DEF NickInv, NamesDiffer
  <1>2. ProfileInit => ProfileTypeInv /\ NickInv
    BY ProfileTypeInit, NickInit
  <1>3. ProfileTypeInv /\ NickInv /\ [ProfileNext]_profileVars => (ProfileTypeInv /\ NickInv)'
    BY ProfileTypeNext, NickNext
  <1> QED BY <1>1, <1>2, <1>3, PTL DEF ProfileSpec

-----------------------------------------------------------------------------
(* Avatars. *)

Changing(r) == r \in Pending(request, "avatar", {"find", "delete", "create", "link"})
Deleting(r) == RequestAt(r, "avatar", "delete")
Creating(r) == RequestAt(r, "avatar", "create")
Linking(r) == RequestAt(r, "avatar", "link")

\* the rows an account uploaded
Own(a) == {k \in avatars : uploader[k] = a}

\* Requests that overlap are known to.
OverlapsSeen ==
  \A r, s \in Requests :
    r # s /\ Changing(r) /\ Changing(s) /\ request[r].account = request[s].account
    => request[r].account \in mixed

\* Accounts refer to rows that are there and that they uploaded; requests delete
\* and link what their account uploaded,
KeysOwned ==
  \A a \in Accounts : avatarKey[a] # None =>
    avatarKey[a] \in avatars /\ uploader[avatarKey[a]] = a
DeletesOwned == \A r \in Requests : Deleting(r) => uploader[request[r].key] = request[r].account

\* and what is to be linked is there, and known to nobody else.
LinksOwned ==
  \A r \in Requests : Linking(r) =>
    /\ request[r].key \in avatars /\ uploader[request[r].key] = request[r].account
    /\ \A a \in Accounts : avatarKey[a] # request[r].key
    /\ \A s \in Requests \ {r} : Deleting(s) \/ Linking(s) => request[s].key # request[r].key

Steady(a) == avatarKey[a] = shown[a] /\ Own(a) = {avatarKey[a]} \ {None}

\* How far a request has come says what its account refers to and has uploaded.
Settled(a) ==
  /\ (\A r \in Requests : Changing(r) /\ request[r].account = a => request[r].step = "find")
       => Steady(a)
  /\ \A r \in Requests : Changing(r) /\ request[r].account = a =>
       /\ Deleting(r) => Steady(a) /\ request[r].key = avatarKey[a]
       /\ Creating(r) => avatarKey[a] = None /\ Own(a) = {}
       /\ Linking(r) => avatarKey[a] = None /\ Own(a) = {request[r].key}

AvatarInv ==
  /\ OverlapsSeen /\ KeysOwned /\ DeletesOwned /\ LinksOwned
  /\ \A a \in Accounts \ mixed : Settled(a)

LEMMA AvatarInit == ProfileInit => AvatarInv
  BY DEF ProfileInit, AvatarInv, OverlapsSeen, KeysOwned, DeletesOwned, LinksOwned, Settled, Steady,
         Own, Changing, Deleting, Creating, Linking, RequestAt, Pending

\* WatchAvatar sees every overlap.
LEMMA OverlapsSeenNext ==
  ASSUME ProfileTypeOK', NEW failed, WatchAvatar(failed)
  PROVE  OverlapsSeen' /\ mixed \subseteq mixed' /\ failed \subseteq mixed'
  <1>1. \A r \in Requests : request'[r] # None => request'[r].account \in Accounts
    BY NoneAssumption DEF ProfileTypeOK, NickRequests, AvatarRequests
  <1>2. ASSUME NEW r \in Requests, NEW s \in Requests, r # s, Changing(r)', Changing(s)',
               request'[r].account = request'[s].account
        PROVE  request'[r].account \in Mixing
    BY <1>1, <1>2 DEF Mixing, Changing, Pending
  <1> QED BY <1>2 DEF OverlapsSeen, WatchAvatar

\* A step of one request leaves the others where they are.
LEMMA OthersStay ==
  ASSUME ProfileTypeOK, NEW r \in Requests, NEW q, request' = [request EXCEPT ![r] = q]
  PROVE  /\ request'[r] = q
         /\ \A s \in Requests \ {r} :
              /\ request'[s] = request[s]
              /\ Changing(s)' <=> Changing(s)
              /\ Deleting(s)' <=> Deleting(s)
              /\ Creating(s)' <=> Creating(s)
              /\ Linking(s)' <=> Linking(s)
  BY DEF ProfileTypeOK, Changing, Deleting, Creating, Linking, RequestAt, Pending

LEMMA StepsChange ==
  ASSUME NEW r \in Requests, Deleting(r) \/ Creating(r) \/ Linking(r)
  PROVE  Changing(r)
  BY DEF Changing, Deleting, Creating, Linking, RequestAt, Pending

\* What a step of one account's request leaves of the others' state
LEMMA SettledOthers ==
  ASSUME ProfileTypeOK, NEW r \in Requests, NEW q, request' = [request EXCEPT ![r] = q],
         NEW b \in Accounts, Settled(b),
         avatarKey'[b] = avatarKey[b], shown'[b] = shown[b], Own(b)' = Own(b),
         Changing(r) => request[r].account # b,
         Changing(r)' => q.account # b
  PROVE  Settled(b)'
  <1>1. Steady(b)' <=> Steady(b)
    BY DEF Steady
  <1>2. request'[r] = q /\ \A s \in Requests \ {r} :
          /\ request'[s] = request[s] /\ (Changing(s)' <=> Changing(s))
          /\ (Deleting(s)' <=> Deleting(s)) /\ (Creating(s)' <=> Creating(s))
          /\ (Linking(s)' <=> Linking(s))
    BY OthersStay
  <1>3. ASSUME NEW s \in Requests, Changing(s)', request'[s].account = b
        PROVE  s # r /\ Changing(s) /\ request[s].account = b
    BY <1>2, <1>3
  <1>4. ASSUME NEW s \in Requests, Changing(s), request[s].account = b
        PROVE  s # r /\ Changing(s)' /\ request'[s].account = b /\ request'[s].step = request[s].step
    BY <1>2, <1>4
  <1>5. (\A s \in Requests : Changing(s)' /\ request'[s].account = b => request'[s].step = "find")
          => Steady(b)'
    BY <1>1, <1>4 DEF Settled
  <1>6. ASSUME NEW s \in Requests, Changing(s)', request'[s].account = b
        PROVE  /\ Deleting(s)' => Steady(b)' /\ request'[s].key = avatarKey'[b]
               /\ Creating(s)' => avatarKey'[b] = None /\ Own(b)' = {}
               /\ Linking(s)' => avatarKey'[b] = None /\ Own(b)' = {request'[s].key}
    BY <1>1, <1>2, <1>3, <1>6 DEF Settled
  <1> QED BY <1>5, <1>6 DEF Settled

\* The only request of an account decides what is known of the account.
LEMMA SettledSelf ==
  ASSUME NEW r \in Requests, NEW a \in Accounts,
         \A s \in Requests \ {r} : ~(Changing(s)' /\ request'[s].account = a),
         \/ Steady(a)' /\ (~Changing(r)' \/ request'[r].step = "find")
         \/ Steady(a)' /\ Deleting(r)' /\ request'[r].account = a /\ request'[r].key = avatarKey'[a]
         \/ Creating(r)' /\ request'[r].account = a /\ avatarKey'[a] = None /\ Own(a)' = {}
         \/ /\ Linking(r)' /\ request'[r].account = a
            /\ avatarKey'[a] = None /\ Own(a)' = {request'[r].key}
  PROVE  Settled(a)'
  BY DEF Settled, Changing, Deleting, Creating, Linking, RequestAt, Pending

\* An account whose requests do not overlap has one.
LEMMA Alone ==
  ASSUME OverlapsSeen, NEW r \in Requests, Changing(r), request[r].account \notin mixed
  PROVE  \A s \in Requests \ {r} : ~(Changing(s) /\ request[s].account = request[r].account)
  BY DEF OverlapsSeen

\* No avatar request is begun, ended or moved on in the step.
LEMMA AvatarFrame ==
  ASSUME AvatarInv, UNCHANGED avatarVars,
         \A r \in Requests : Changing(r)' \/ Changing(r) => request'[r] = request[r]
  PROVE  AvatarInv'
  <1>1. \A r \in Requests :
          /\ Changing(r)' <=> Changing(r)
          /\ Deleting(r)' <=> Deleting(r)
          /\ Creating(r)' <=> Creating(r)
          /\ Linking(r)' <=> Linking(r)
          /\ Changing(r) => request'[r] = request[r]
    BY DEF Changing, Deleting, Creating, Linking, RequestAt, Pending
  <1>2. UNCHANGED <<avatarKey, avatars, shown, uploader, mixed>>
    BY DEF avatarVars
  <1>3. \A a \in Accounts : (Steady(a)' <=> Steady(a)) /\ Own(a)' = Own(a)
    BY <1>2 DEF Steady, Own
  <1>4. OverlapsSeen' /\ KeysOwned'
    BY <1>1, <1>2 DEF AvatarInv, OverlapsSeen, KeysOwned
  <1>5. DeletesOwned' /\ LinksOwned'
    BY <1>1, <1>2, StepsChange DEF AvatarInv, DeletesOwned, LinksOwned
  <1>6. ASSUME NEW a \in Accounts, Settled(a) PROVE Settled(a)'
    BY <1>1, <1>2, <1>3, <1>6 DEF Settled
  <1> QED BY <1>2, <1>4, <1>5, <1>6 DEF AvatarInv

\* A step of a request that is there, and the record it leaves
LEMMA RequestMoves ==
  ASSUME ProfileTypeOK, ProfileTypeOK', AvatarInv,
         NEW a \in Accounts, NEW r \in Requests, Changing(r), request[r].account = a,
         NEW q, q # None => q.account = a,
         request' = [request EXCEPT ![r] = q], WatchAvatar({}),
         \A b \in Accounts \ {a} :
           avatarKey'[b] = avatarKey[b] /\ shown'[b] = shown[b] /\ Own(b)' = Own(b)
  PROVE  /\ OverlapsSeen' /\ request'[r] = q
         /\ \A s \in Requests \ {r} : request'[s] = request[s]
              /\ (Deleting(s)' <=> Deleting(s)) /\ (Linking(s)' <=> Linking(s))
         /\ \A b \in Accounts \ mixed' : b # a => Settled(b)'
         /\ a \notin mixed' =>
              /\ Settled(a)
              /\ \A s \in Requests \ {r} : /\ ~(Changing(s) /\ request[s].account = a)
                                           /\ ~(Changing(s)' /\ request'[s].account = a)
  <1>1. request'[r] = q /\ \A s \in Requests \ {r} : request'[s] = request[s]
          /\ (Deleting(s)' <=> Deleting(s)) /\ (Linking(s)' <=> Linking(s))
    BY OthersStay
  <1>2. Changing(r)' => q.account = a
    BY <1>1 DEF Changing, Pending
  <1>3. OverlapsSeen' /\ mixed \subseteq mixed'
    BY OverlapsSeenNext
  <1>4. ASSUME NEW b \in Accounts \ mixed', b # a PROVE Settled(b)'
    <2>1. Settled(b)
      BY <1>3, <1>4 DEF AvatarInv
    <2>2. b \in Accounts /\ avatarKey'[b] = avatarKey[b] /\ shown'[b] = shown[b] /\ Own(b)' = Own(b)
      BY <1>4
    <2>3. (Changing(r) => request[r].account # b) /\ (Changing(r)' => q.account # b)
      BY <1>2, <1>4
    <2> QED BY <2>1, <2>2, <2>3, SettledOthers
  <1>5. a \notin mixed' => Settled(a)
    BY <1>3 DEF AvatarInv
  <1>6. ASSUME a \notin mixed', NEW s \in Requests \ {r}
        PROVE  /\ ~(Changing(s) /\ request[s].account = a)
               /\ ~(Changing(s)' /\ request'[s].account = a)
    <2>1. request'[s] = request[s] /\ (Changing(s)' <=> Changing(s))
      BY OthersStay
    <2> QED BY <1>3, <1>6, <2>1, Alone DEF AvatarInv
  <1> QED BY <1>1, <1>3, <1>4, <1>5, <1>6

\* A step that answers a request
LEMMA RequestEnds ==
  ASSUME ProfileTypeOK, ProfileTypeOK', AvatarInv,
         NEW a \in Accounts, NEW r \in Requests, Changing(r), request[r].account = a,
         Answer(r), WatchAvatar({}),
         \A b \in Accounts \ {a} :
           avatarKey'[b] = avatarKey[b] /\ shown'[b] = shown[b] /\ Own(b)' = Own(b)
  PROVE  /\ OverlapsSeen' /\ ~Changing(r)' /\ ~Deleting(r)' /\ ~Linking(r)'
         /\ \A s \in Requests \ {r} : request'[s] = request[s]
              /\ (Deleting(s)' <=> Deleting(s)) /\ (Linking(s)' <=> Linking(s))
         /\ \A b \in Accounts \ mixed' : b # a => Settled(b)'
         /\ a \notin mixed' =>
              /\ Settled(a)
              /\ \A s \in Requests \ {r} : /\ ~(Changing(s) /\ request[s].account = a)
                                           /\ ~(Changing(s)' /\ request'[s].account = a)
  <1>1. request'[r] = None /\ \A s \in Requests \ {r} : request'[s] = request[s]
          /\ (Changing(s)' <=> Changing(s))
          /\ (Deleting(s)' <=> Deleting(s)) /\ (Linking(s)' <=> Linking(s))
    BY OthersStay DEF Answer
  <1>2. ~Changing(r)' /\ ~Deleting(r)' /\ ~Linking(r)'
    BY <1>1 DEF Changing, Deleting, Linking, RequestAt, Pending
  <1>3. OverlapsSeen' /\ mixed \subseteq mixed'
    BY OverlapsSeenNext
  <1>4. ASSUME NEW b \in Accounts \ mixed', b # a PROVE Settled(b)'
    <2>1. Settled(b)
      BY <1>3, <1>4 DEF AvatarInv
    <2>2. b \in Accounts /\ avatarKey'[b] = avatarKey[b] /\ shown'[b] = shown[b] /\ Own(b)' = Own(b)
      BY <1>4
    <2> QED BY <1>2, <1>4, <2>1, <2>2, SettledOthers DEF Answer
  <1>5. a \notin mixed' => Settled(a)
    BY <1>3 DEF AvatarInv
  <1>6. ASSUME a \notin mixed', NEW s \in Requests \ {r}
        PROVE  /\ ~(Changing(s) /\ request[s].account = a)
               /\ ~(Changing(s)' /\ request'[s].account = a)
    BY <1>1, <1>3, <1>6, Alone DEF AvatarInv
  <1> QED BY <1>1, <1>2, <1>3, <1>4, <1>5, <1>6

\* What follows when there is no old avatar (any more)
LEMMA GoesWithoutOld ==
  ASSUME ProfileTypeOK, ProfileTypeOK', AvatarInv,
         NEW a \in Accounts, NEW r \in Requests, Changing(r), request[r].account = a,
         NEW upload \in BOOLEAN, WithoutOld(r, upload), WatchAvatar({}),
         \A b \in Accounts \ {a} : avatarKey'[b] = avatarKey[b] /\ Own(b)' = Own(b),
         a \notin mixed' /\ Settled(a) => avatarKey'[a] = None /\ Own(a)' = {}
  PROVE  /\ OverlapsSeen' /\ \A b \in Accounts \ mixed' : Settled(b)'
         /\ ~Deleting(r)' /\ ~Linking(r)'
         /\ \A s \in Requests \ {r} : request'[s] = request[s]
              /\ (Deleting(s)' <=> Deleting(s)) /\ (Linking(s)' <=> Linking(s))
  <1>1. request[r] \in AvatarRequests
    BY Kinds DEF Changing, Pending
  <1>2. CASE /\ request' = [request EXCEPT ![r].step = "create", ![r].key = None]
             /\ UNCHANGED shown
    <2> DEFINE q == [request[r] EXCEPT !.step = "create", !.key = None]
    <2>1. request' = [request EXCEPT ![r] = q]
      BY <1>2
    <2>2. q.account = a /\ q.step = "create" /\ q.op = "avatar" /\ q # None
      BY <1>1, NoneAssumption DEF AvatarRequests
    <2> HIDE DEF q
    <2>0. \A b \in Accounts \ {a} :
            avatarKey'[b] = avatarKey[b] /\ shown'[b] = shown[b] /\ Own(b)' = Own(b)
      BY <1>2
    <2>3. /\ OverlapsSeen' /\ request'[r] = q
          /\ \A s \in Requests \ {r} : request'[s] = request[s]
               /\ (Deleting(s)' <=> Deleting(s)) /\ (Linking(s)' <=> Linking(s))
          /\ \A b \in Accounts \ mixed' : b # a => Settled(b)'
          /\ a \notin mixed' =>
               /\ Settled(a)
               /\ \A s \in Requests \ {r} : /\ ~(Changing(s) /\ request[s].account = a)
                                            /\ ~(Changing(s)' /\ request'[s].account = a)
      BY <2>0, <2>1, <2>2, RequestMoves
    <2>4. Creating(r)' /\ ~Deleting(r)' /\ ~Linking(r)'
      BY <2>2, <2>3 DEF Creating, Deleting, Linking, RequestAt, Pending
    <2>5. ASSUME a \notin mixed' PROVE Settled(a)'
      BY <2>2, <2>3, <2>4, <2>5, SettledSelf
    <2> QED BY <2>3, <2>4, <2>5
  <1>3. CASE AnswerAvatar(r, None)
    <2>1. Answer(r) /\ shown'[a] = None /\ \A b \in Accounts \ {a} : shown'[b] = shown[b]
      BY <1>3 DEF AnswerAvatar, ProfileTypeOK
    <2>2. \A b \in Accounts \ {a} :
            avatarKey'[b] = avatarKey[b] /\ shown'[b] = shown[b] /\ Own(b)' = Own(b)
      BY <2>1
    <2>3. /\ OverlapsSeen' /\ ~Changing(r)' /\ ~Deleting(r)' /\ ~Linking(r)'
          /\ \A s \in Requests \ {r} : request'[s] = request[s]
               /\ (Deleting(s)' <=> Deleting(s)) /\ (Linking(s)' <=> Linking(s))
          /\ \A b \in Accounts \ mixed' : b # a => Settled(b)'
          /\ a \notin mixed' =>
               /\ Settled(a)
               /\ \A s \in Requests \ {r} : /\ ~(Changing(s) /\ request[s].account = a)
                                            /\ ~(Changing(s)' /\ request'[s].account = a)
      BY <2>1, <2>2, RequestEnds
    <2>4. ASSUME a \notin mixed' PROVE Settled(a)'
      <3>1. Steady(a)'
        BY <2>1, <2>3, <2>4 DEF Steady
      <3> QED BY <2>3, <2>4, <3>1, SettledSelf
    <2> QED BY <2>3, <2>4
  <1> QED BY <1>2, <1>3 DEF WithoutOld

LEMMA AvatarNext == ProfileTypeInv /\ ProfileTypeInv' /\ AvatarInv /\ [ProfileNext]_profileVars => AvatarInv'
  <1> SUFFICES ASSUME ProfileTypeInv, ProfileTypeInv', AvatarInv, [ProfileNext]_profileVars PROVE AvatarInv'
    OBVIOUS
  <1> USE NoneAssumption
  <1>0. ProfileTypeOK /\ ProfileTypeOK' /\ None \notin Keys
    BY ProfileAssumption DEF ProfileTypeInv
  <1>1. ASSUME UNCHANGED profileVars PROVE AvatarInv'
    BY <1>1, AvatarFrame DEF profileVars, avatarVars
  <1>2. ASSUME NEW r \in Requests, ~Changing(r), NEW q, q = None \/ (q # None /\ q.op = "nick"),
               request' = [request EXCEPT ![r] = q], UNCHANGED avatarVars
        PROVE  AvatarInv'
    <2>1. ~Changing(r)'
      BY <1>0, <1>2, OthersStay DEF Changing, Pending
    <2> QED BY <1>0, <1>2, <2>1, AvatarFrame, OthersStay
  <1>3. ASSUME NEW r \in Requests, FindNick(r) \/ PickTag(r) \/ UpdateNick(r) PROVE AvatarInv'
    <2>1. request[r] \in NickRequests /\ request[r].op = "nick" /\ UNCHANGED avatarVars
      BY <1>0, <1>3, Kinds DEF FindNick, PickTag, UpdateNick, RequestAt, Pending
    <2>2. ~Changing(r)
      BY <2>1 DEF Changing, Pending
    <2>3. ASSUME Answer(r) PROVE AvatarInv'
      BY <1>2, <2>1, <2>2, <2>3 DEF Answer
    <2>4. CASE request' = [request EXCEPT ![r].step = "pick"]
      <3> DEFINE q == [request[r] EXCEPT !.step = "pick"]
      <3>1. q.op = "nick" /\ q # None /\ request' = [request EXCEPT ![r] = q]
        BY <2>1, <2>4 DEF NickRequests
      <3> HIDE DEF q
      <3> QED BY <1>2, <2>1, <2>2, <3>1
    <2>5. ASSUME NEW tag \in Tags,
                 request' = [request EXCEPT ![r].tag = tag, ![r].step = "update"]
          PROVE  AvatarInv'
      <3> DEFINE q == [request[r] EXCEPT !.tag = tag, !.step = "update"]
      <3>1. q.op = "nick" /\ q # None /\ request' = [request EXCEPT ![r] = q]
        BY <2>1, <2>5 DEF NickRequests
      <3> HIDE DEF q
      <3> QED BY <1>2, <2>1, <2>2, <3>1
    <2> QED BY <1>3, <2>3, <2>4, <2>5 DEF FindNick, PickTag, UpdateNick, FreeTags
  <1>4. ASSUME NEW r \in Requests, NEW a \in Accounts, NEW name \in Names, PostNick(r, a, name)
        PROVE  AvatarInv'
    <2>1. ~Changing(r)
      BY <1>4 DEF PostNick, Changing, Pending
    <2> QED BY <1>2, <1>4, <2>1 DEF PostNick
  \* steps of avatar requests: what the other requests and accounts keep
  <1>5. ASSUME NEW r \in Requests, NEW q, request' = [request EXCEPT ![r] = q],
               NEW failed, WatchAvatar(failed), NEW a \in Accounts,
               Changing(r) => request[r].account = a, Changing(r)' => q.account = a,
               \A b \in Accounts \ {a} :
                 avatarKey'[b] = avatarKey[b] /\ shown'[b] = shown[b] /\ Own(b)' = Own(b)
        PROVE  /\ OverlapsSeen'
               /\ \A b \in Accounts \ mixed' : b # a => Settled(b)'
               /\ a \notin mixed' =>
                    /\ a \notin mixed /\ Settled(a) /\ a \notin failed
                    /\ Changing(r) \/ (Changing(r)' /\ q.account = a) =>
                         \A s \in Requests \ {r} : /\ ~(Changing(s) /\ request[s].account = a)
                                                   /\ ~(Changing(s)' /\ request'[s].account = a)
    <2>1. OverlapsSeen' /\ mixed \subseteq mixed' /\ failed \subseteq mixed'
      BY <1>0, <1>5, OverlapsSeenNext
    <2>2. ASSUME NEW b \in Accounts \ mixed', b # a PROVE Settled(b)'
      <3>1. Settled(b)
        BY <2>1, <2>2 DEF AvatarInv
      <3>2. avatarKey'[b] = avatarKey[b] /\ shown'[b] = shown[b] /\ Own(b)' = Own(b)
        BY <1>5, <2>2
      <3>3. (Changing(r) => request[r].account # b) /\ (Changing(r)' => q.account # b)
        BY <1>5, <2>2
      <3>4. request' = [request EXCEPT ![r] = q] /\ b \in Accounts
        BY <1>5, <2>2
      <3> QED BY ONLY <1>0, <3>1, <3>2, <3>3, <3>4, SettledOthers
    <2>3. \A s \in Requests \ {r} : request'[s] = request[s] /\ (Changing(s)' <=> Changing(s))
      BY <1>0, <1>5, OthersStay
    <2>4. request'[r] = q
      BY <1>0, <1>5, OthersStay
    <2>5. ASSUME a \notin mixed', Changing(r) \/ (Changing(r)' /\ q.account = a),
                 NEW s \in Requests \ {r}, Changing(s), request[s].account = a
          PROVE  FALSE
      BY <1>5, <2>1, <2>3, <2>4, <2>5 DEF AvatarInv, OverlapsSeen
    <2> QED BY <2>1, <2>2, <2>3, <2>5 DEF AvatarInv
  <1>6. ASSUME NEW r \in Requests, NEW a \in Accounts, NEW upload \in BOOLEAN,
               PostAvatar(r, a, upload)
        PROVE  AvatarInv'
    <2> DEFINE q == [op |-> "avatar", account |-> a, upload |-> upload, key |-> None, step |-> "find"]
    <2>1. request' = [request EXCEPT ![r] = q] /\ q.step = "find" /\ q.account = a /\ q # None
          /\ q.op = "avatar"
      BY <1>6 DEF PostAvatar, AvatarRequests
    <2> HIDE DEF q
    <2>2. WatchAvatar({}) /\ UNCHANGED <<avatarKey, avatars, shown, uploader>> /\ ~Changing(r)
      BY <1>6 DEF PostAvatar, Changing, Pending
    <2>3. \A b \in Accounts : Own(b)' = Own(b) /\ (Steady(b)' <=> Steady(b))
      BY <2>2 DEF Own, Steady
    <2>4. request'[r] = q /\ Changing(r)' /\ ~Deleting(r)' /\ ~Linking(r)'
      <3>1. request'[r] = q
        BY <1>0, <2>1, OthersStay
      <3> QED BY <2>1, <3>1 DEF Changing, Deleting, Linking, RequestAt, Pending
    <2>5. /\ OverlapsSeen'
          /\ \A b \in Accounts \ mixed' : b # a => Settled(b)'
          /\ a \notin mixed' =>
               /\ a \notin mixed /\ Settled(a)
               /\ \A s \in Requests \ {r} : /\ ~(Changing(s) /\ request[s].account = a)
                                            /\ ~(Changing(s)' /\ request'[s].account = a)
      <3>1. OverlapsSeen' /\ mixed \subseteq mixed'
        BY <1>0, <2>2, OverlapsSeenNext
      <3>2. \A s \in Requests \ {r} : request'[s] = request[s] /\ (Changing(s)' <=> Changing(s))
        BY <1>0, <2>1, OthersStay
      <3>3. ASSUME NEW b \in Accounts \ mixed', b # a PROVE Settled(b)'
        <4>1. Settled(b)
          BY <3>1, <3>3 DEF AvatarInv
        <4>2. b \in Accounts /\ avatarKey'[b] = avatarKey[b] /\ shown'[b] = shown[b]
              /\ Own(b)' = Own(b)
          BY <2>2, <2>3, <3>3
        <4>3. (Changing(r) => request[r].account # b) /\ (Changing(r)' => q.account # b)
          BY <2>1, <2>2, <3>3
        <4>4. r \in Requests /\ request' = [request EXCEPT ![r] = q]
          BY <1>6, <2>1
        <4> QED BY ONLY <1>0, <4>1, <4>2, <4>3, <4>4, SettledOthers
      <3>4. ASSUME a \notin mixed', NEW s \in Requests \ {r}
            PROVE  /\ ~(Changing(s) /\ request[s].account = a)
                   /\ ~(Changing(s)' /\ request'[s].account = a)
        <4>1. ~(Changing(s)' /\ request'[s].account = a)
          BY <2>1, <2>4, <3>1, <3>4 DEF OverlapsSeen
        <4> QED BY <3>2, <3>4, <4>1
      <3>5. a \notin mixed' => a \notin mixed /\ Settled(a)
        BY <3>1 DEF AvatarInv
      <3> QED BY <3>1, <3>3, <3>4, <3>5
    <2>6. ASSUME a \notin mixed' PROVE Settled(a)'
      <3>1. Steady(a)'
        BY <2>2, <2>3, <2>5, <2>6 DEF Settled
      <3> QED BY <2>1, <2>4, <2>5, <2>6, <3>1, SettledSelf
    <2>7. KeysOwned'
      BY <2>2 DEF AvatarInv, KeysOwned
    <2>8. \A s \in Requests \ {r} : request'[s] = request[s]
            /\ (Deleting(s)' <=> Deleting(s)) /\ (Linking(s)' <=> Linking(s))
      BY <1>0, <2>1, OthersStay
    <2>9. DeletesOwned' /\ LinksOwned'
      BY <2>2, <2>4, <2>8 DEF AvatarInv, DeletesOwned, LinksOwned
    <2> QED BY <2>5, <2>6, <2>7, <2>9 DEF AvatarInv
  <1>7. ASSUME NEW r \in Requests, RequestFails(r) PROVE AvatarInv'
    <2>0. PICK a \in Accounts : a = request[r].account
      BY <1>0, <1>7, Kinds DEF RequestFails
    <2> DEFINE failed == IF r \in Pending(request, "avatar", {"create", "link"}) THEN {a} ELSE {}
    <2>1. a \in Accounts /\ request' = [request EXCEPT ![r] = None] /\ WatchAvatar(failed)
          /\ UNCHANGED <<avatarKey, avatars, shown, uploader>>
      BY <1>7, <2>0 DEF RequestFails, Answer
    <2>2. \A b \in Accounts : Own(b)' = Own(b) /\ (Steady(b)' <=> Steady(b))
      BY <2>1 DEF Own, Steady
    <2>3. request'[r] = None /\ \A s \in Requests \ {r} : request'[s] = request[s]
            /\ (Deleting(s)' <=> Deleting(s)) /\ (Linking(s)' <=> Linking(s))
            /\ (Changing(s)' <=> Changing(s))
      BY <1>0, <2>1, OthersStay
    <2>4. ~Changing(r)' /\ ~Deleting(r)' /\ ~Linking(r)'
      BY <2>3 DEF Changing, Deleting, Linking, RequestAt, Pending
    <2>5. /\ OverlapsSeen'
          /\ \A b \in Accounts \ mixed' : b # a => Settled(b)'
          /\ a \notin mixed' =>
               /\ a \notin mixed /\ Settled(a) /\ a \notin failed
               /\ Changing(r) => \A s \in Requests \ {r} :
                                    /\ ~(Changing(s) /\ request[s].account = a)
                                    /\ ~(Changing(s)' /\ request'[s].account = a)
      <3> HIDE DEF failed
      <3> QED BY <1>5, <2>0, <2>1, <2>2, <2>4
    <2>6. ASSUME a \notin mixed' PROVE Settled(a)'
      <3>1. ~Creating(r) /\ ~Linking(r)
        BY <2>5, <2>6 DEF Creating, Linking, RequestAt, Pending
      <3>2. CASE Changing(r)
        <4>1. Deleting(r) \/ request[r].step = "find"
          BY <3>1, <3>2 DEF Changing, Deleting, Creating, Linking, RequestAt, Pending
        <4>2. Steady(a)'
          BY <2>0, <2>2, <2>5, <2>6, <3>2, <4>1 DEF Settled
        <4> QED BY <2>1, <2>4, <2>5, <2>6, <3>2, <4>2, SettledSelf
      <3>3. CASE ~Changing(r)
        <4>1. \A s \in Requests : Changing(s)' <=> Changing(s)
          BY <2>3, <2>4, <3>3
        <4>2. \A s \in Requests : Changing(s) => s # r /\ request'[s] = request[s]
          BY <2>3, <3>3
        <4>3. \A s \in Requests : (Deleting(s)' <=> Deleting(s)) /\ (Linking(s)' <=> Linking(s))
                /\ (Creating(s)' <=> Creating(s))
          BY <4>1, <4>2 DEF Changing, Deleting, Creating, Linking, RequestAt, Pending
        <4> QED BY <2>1, <2>2, <2>5, <2>6, <4>1, <4>2, <4>3 DEF Settled
      <3> QED BY <3>2, <3>3
    <2>7. KeysOwned'
      BY <2>1 DEF AvatarInv, KeysOwned
    <2>8. DeletesOwned' /\ LinksOwned'
      BY <2>1, <2>3, <2>4 DEF AvatarInv, DeletesOwned, LinksOwned
    <2> QED BY <2>5, <2>6, <2>7, <2>8 DEF AvatarInv
  <1>8. ASSUME NEW r \in Requests, FindAvatarKey(r) PROVE AvatarInv'
    <2>1. PICK a \in Accounts : a = request[r].account
      BY <1>0, <1>8, Kinds DEF FindAvatarKey, RequestAt, Pending
    <2>2. /\ request[r] \in AvatarRequests /\ Changing(r) /\ request[r].step = "find"
          /\ UNCHANGED <<avatarKey, avatars, uploader>> /\ WatchAvatar({})
      BY <1>0, <1>8, Kinds DEF FindAvatarKey, Changing, RequestAt, Pending
    <2>3. KeysOwned' /\ \A b \in Accounts : Own(b)' = Own(b)
      BY <2>2 DEF AvatarInv, KeysOwned, Own
    <2>4. CASE avatarKey[a] # None
      <3> DEFINE q == [request[r] EXCEPT !.step = "delete", !.key = avatarKey[a]]
      <3>1. request' = [request EXCEPT ![r] = q] /\ UNCHANGED shown
        BY <1>8, <2>1, <2>4 DEF FindAvatarKey
      <3>2. q.account = a /\ q.key = avatarKey[a] /\ q.step = "delete" /\ q.op = "avatar" /\ q # None
        <4>1. avatarKey[a] \in Keys
          BY <1>0, <2>4 DEF ProfileTypeOK
        <4> QED BY <2>1, <2>2, <4>1 DEF AvatarRequests
      <3> HIDE DEF q
      <3>3. /\ OverlapsSeen' /\ request'[r] = q
            /\ \A s \in Requests \ {r} : request'[s] = request[s]
                 /\ (Deleting(s)' <=> Deleting(s)) /\ (Linking(s)' <=> Linking(s))
            /\ \A b \in Accounts \ mixed' : b # a => Settled(b)'
            /\ a \notin mixed' =>
                 /\ Settled(a)
                 /\ \A s \in Requests \ {r} : /\ ~(Changing(s) /\ request[s].account = a)
                                              /\ ~(Changing(s)' /\ request'[s].account = a)
        BY <1>0, <2>1, <2>2, <2>3, <3>1, <3>2, RequestMoves
      <3>4. Changing(r)' /\ Deleting(r)' /\ ~Linking(r)'
        BY <3>2, <3>3 DEF Changing, Deleting, Linking, RequestAt, Pending
      <3>5. ASSUME a \notin mixed' PROVE Settled(a)'
        <4>1. Steady(a)
          BY <2>2, <3>3, <3>5 DEF Settled
        <4>2. Steady(a)'
          BY <2>2, <2>3, <3>1, <4>1 DEF Steady
        <4> QED BY <2>2, <3>2, <3>3, <3>4, <3>5, <4>2, SettledSelf
      <3>6. DeletesOwned'
        BY <2>1, <2>2, <2>4, <3>2, <3>3, <3>4 DEF AvatarInv, DeletesOwned, KeysOwned
      <3>7. LinksOwned'
        BY <2>1, <2>2, <2>4, <3>2, <3>3, <3>4 DEF AvatarInv, LinksOwned
      <3> QED BY <2>3, <3>3, <3>5, <3>6, <3>7 DEF AvatarInv
    <2>5. CASE avatarKey[a] = None
      <3>1. WithoutOld(r, request[r].upload) /\ request[r].upload \in BOOLEAN
        BY <1>8, <2>1, <2>2, <2>5 DEF FindAvatarKey, AvatarRequests
      <3>2. ASSUME a \notin mixed', Settled(a) PROVE Own(a) = {}
        <4>1. a \notin mixed
          BY <1>0, <2>2, <3>2, OverlapsSeenNext
        <4>2. \A s \in Requests : Changing(s) /\ request[s].account = a => s = r
          BY <2>1, <2>2, <4>1, Alone DEF AvatarInv
        <4>3. Steady(a)
          BY <2>2, <3>2, <4>2 DEF Settled
        <4> QED BY <2>5, <4>3 DEF Steady
      <3>3. /\ OverlapsSeen' /\ \A b \in Accounts \ mixed' : Settled(b)'
            /\ ~Deleting(r)' /\ ~Linking(r)'
            /\ \A s \in Requests \ {r} : request'[s] = request[s]
                 /\ (Deleting(s)' <=> Deleting(s)) /\ (Linking(s)' <=> Linking(s))
        BY <1>0, <2>1, <2>2, <2>3, <2>5, <3>1, <3>2, GoesWithoutOld
      <3>4. DeletesOwned' /\ LinksOwned'
        BY <2>2, <3>3 DEF AvatarInv, DeletesOwned, LinksOwned
      <3> QED BY <2>3, <3>3, <3>4 DEF AvatarInv
    <2> QED BY <2>4, <2>5
  <1>9. ASSUME NEW r \in Requests, DeleteAvatar(r) PROVE AvatarInv'
    <2>1. PICK a \in Accounts : a = request[r].account
      BY <1>0, <1>9, Kinds DEF DeleteAvatar, RequestAt, Pending
    <2>2. PICK key \in Keys : key = request[r].key
      BY <1>9 DEF ProfileTypeInv, KeysKnown, DeleteAvatar, RequestAt, Pending
    <2>3. /\ request[r] \in AvatarRequests /\ Changing(r) /\ Deleting(r)
          /\ UNCHANGED uploader /\ WatchAvatar({})
      BY <1>0, <1>9, Kinds DEF DeleteAvatar, Changing, Deleting, RequestAt, Pending
    <2>4. uploader[key] = a /\ key # None
      BY <1>0, <2>1, <2>2, <2>3 DEF AvatarInv, DeletesOwned
    <2>5. ASSUME a \notin mixed', Settled(a) PROVE Steady(a) /\ key = avatarKey[a]
      BY <2>1, <2>2, <2>3, <2>5 DEF Settled
    <2>6. CASE key \notin avatars /\ Answer(r) /\ UNCHANGED <<avatarKey, avatars, shown>>
      <3>1. a \notin mixed' => a \notin mixed /\ Settled(a)
        BY <1>0, <2>3, OverlapsSeenNext DEF AvatarInv
      <3>2. a \in mixed'
        BY <2>4, <2>5, <2>6, <3>1 DEF AvatarInv, KeysOwned
      <3>3. \A b \in Accounts \ {a} :
              avatarKey'[b] = avatarKey[b] /\ shown'[b] = shown[b] /\ Own(b)' = Own(b)
        BY <2>3, <2>6 DEF Own
      <3>4. /\ OverlapsSeen' /\ ~Deleting(r)' /\ ~Linking(r)'
            /\ \A s \in Requests \ {r} : request'[s] = request[s]
                 /\ (Deleting(s)' <=> Deleting(s)) /\ (Linking(s)' <=> Linking(s))
            /\ \A b \in Accounts \ mixed' : b # a => Settled(b)'
        BY <1>0, <2>1, <2>3, <2>6, <3>3, RequestEnds
      <3>5. KeysOwned' /\ DeletesOwned' /\ LinksOwned'
        BY <2>3, <2>6, <3>4 DEF AvatarInv, KeysOwned, DeletesOwned, LinksOwned
      <3> QED BY <3>2, <3>4, <3>5 DEF AvatarInv
    <2>7. CASE /\ avatars' = avatars \ {key}
               /\ avatarKey' = [b \in Accounts |-> IF avatarKey[b] = key THEN None ELSE avatarKey[b]]
               /\ WithoutOld(r, request[r].upload)
      <3>1. \A b \in Accounts \ {a} : avatarKey'[b] = avatarKey[b]
        BY <1>0, <2>4, <2>7 DEF AvatarInv, KeysOwned
      <3>2. \A b \in Accounts \ {a} : Own(b)' = Own(b)
        BY <2>3, <2>4, <2>7 DEF Own
      <3>3. ASSUME a \notin mixed', Settled(a) PROVE avatarKey'[a] = None /\ Own(a)' = {}
        <4>1. avatarKey[a] = key /\ Own(a) = {key}
          BY <2>4, <2>5, <3>3 DEF Steady
        <4> QED BY <2>3, <2>7, <4>1 DEF Own
      <3>4. request[r].upload \in BOOLEAN
        BY <2>3 DEF AvatarRequests
      <3>5. /\ OverlapsSeen' /\ \A b \in Accounts \ mixed' : Settled(b)'
            /\ ~Deleting(r)' /\ ~Linking(r)'
            /\ \A s \in Requests \ {r} : request'[s] = request[s]
                 /\ (Deleting(s)' <=> Deleting(s)) /\ (Linking(s)' <=> Linking(s))
        BY <1>0, <2>1, <2>3, <2>7, <3>1, <3>2, <3>3, <3>4, GoesWithoutOld
      <3>6. KeysOwned'
        BY <1>0, <2>3, <2>7 DEF AvatarInv, KeysOwned
      <3>7. DeletesOwned'
        BY <2>3, <3>5 DEF AvatarInv, DeletesOwned
      <3>8. \A s \in Requests \ {r} : Linking(s) => request[s].key # key
        BY <2>2, <2>3 DEF AvatarInv, LinksOwned
      <3>9. LinksOwned'
        BY <1>0, <2>3, <2>7, <3>5, <3>8 DEF AvatarInv, LinksOwned, ProfileTypeInv, KeysKnown, Linking, RequestAt, Pending
      <3> QED BY <3>5, <3>6, <3>7, <3>9 DEF AvatarInv
    <2> QED BY <1>9, <2>2, <2>6, <2>7 DEF DeleteAvatar
  <1>10. ASSUME NEW r \in Requests, CreateAvatar(r) PROVE AvatarInv'
    <2>1. PICK a \in Accounts : a = request[r].account
      BY <1>0, <1>10, Kinds DEF CreateAvatar, RequestAt, Pending
    <2>2. /\ request[r] \in AvatarRequests /\ Changing(r) /\ Creating(r)
          /\ UNCHANGED <<avatarKey, shown>> /\ WatchAvatar({})
      BY <1>0, <1>10, Kinds DEF CreateAvatar, Changing, Creating, RequestAt, Pending
    <2>3. PICK k \in FreshKeys :
            /\ avatars' = avatars \cup {k}
            /\ uploader' = [uploader EXCEPT ![k] = a]
            /\ request' = [request EXCEPT ![r].step = "link", ![r].key = k]
      BY <1>10, <2>1 DEF CreateAvatar
    <2>4. /\ k \in Keys /\ k \notin avatars /\ k # None
          /\ \A s \in Requests : Deleting(s) \/ Linking(s) => request[s].key # k
      BY <1>0 DEF FreshKeys, Deleting, Linking, RequestAt, Pending
    <2>5. uploader'[k] = a /\ \A j \in Keys \ {k} : uploader'[j] = uploader[j]
      BY <1>0, <2>3, <2>4 DEF ProfileTypeOK
    <2>6. \A b \in Accounts \ {a} : Own(b)' = Own(b)
      BY <1>0, <2>3, <2>4, <2>5 DEF Own, ProfileTypeOK
    <2>7. Own(a)' = Own(a) \cup {k}
      BY <1>0, <2>3, <2>4, <2>5 DEF Own, ProfileTypeOK
    <2> DEFINE q == [request[r] EXCEPT !.step = "link", !.key = k]
    <2>8. request' = [request EXCEPT ![r] = q]
      BY <2>3
    <2>9. q.account = a /\ q.key = k /\ q.step = "link" /\ q.op = "avatar" /\ q # None
      BY <2>1, <2>2, <2>4 DEF AvatarRequests
    <2> HIDE DEF q
    <2>10. \A b \in Accounts \ {a} :
             avatarKey'[b] = avatarKey[b] /\ shown'[b] = shown[b] /\ Own(b)' = Own(b)
      BY <2>2, <2>6
    <2>11. /\ OverlapsSeen' /\ request'[r] = q
           /\ \A s \in Requests \ {r} : request'[s] = request[s]
                /\ (Deleting(s)' <=> Deleting(s)) /\ (Linking(s)' <=> Linking(s))
           /\ \A b \in Accounts \ mixed' : b # a => Settled(b)'
           /\ a \notin mixed' =>
                /\ Settled(a)
                /\ \A s \in Requests \ {r} : /\ ~(Changing(s) /\ request[s].account = a)
                                             /\ ~(Changing(s)' /\ request'[s].account = a)
      BY <1>0, <2>1, <2>2, <2>8, <2>9, <2>10, RequestMoves
    <2>12. Linking(r)' /\ ~Deleting(r)'
      BY <2>9, <2>11 DEF Linking, Deleting, RequestAt, Pending
    <2>13. ASSUME a \notin mixed' PROVE Settled(a)'
      <3>1. avatarKey[a] = None /\ Own(a) = {}
        BY <2>1, <2>2, <2>11, <2>13 DEF Settled
      <3>2. avatarKey'[a] = None /\ Own(a)' = {request'[r].key}
        BY <2>2, <2>7, <2>9, <2>11, <3>1
      <3> QED BY <2>9, <2>11, <2>12, <2>13, <3>2, SettledSelf
    <2>14. KeysOwned'
      BY <1>0, <2>2, <2>3, <2>4, <2>5 DEF AvatarInv, KeysOwned, ProfileTypeOK
    <2>15. \A s \in Requests \ {r} : Deleting(s) \/ Linking(s) => request[s].key \in Keys \ {k}
      BY <2>4 DEF ProfileTypeInv, KeysKnown, Deleting, Linking, RequestAt, Pending
    <2>16. DeletesOwned'
      BY <2>5, <2>11, <2>12, <2>15 DEF AvatarInv, DeletesOwned
    <2>17. \A b \in Accounts : avatarKey'[b] # k
      BY <2>2, <2>4 DEF AvatarInv, KeysOwned
    <2>18. LinksOwned'
      <3>1. ASSUME NEW s \in Requests, Linking(s)'
            PROVE  /\ request'[s].key \in avatars' /\ uploader'[request'[s].key] = request'[s].account
                   /\ \A b \in Accounts : avatarKey'[b] # request'[s].key
        <4>1. CASE s = r
          <5>1. request'[s].key = k /\ request'[s].account = a
            BY <2>9, <2>11, <4>1
          <5>2. k \in avatars'
            BY <2>3
          <5> QED BY <2>5, <2>17, <5>1, <5>2
        <4>2. CASE s # r
          <5>1. Linking(s) /\ request'[s] = request[s] /\ request[s].key \in Keys \ {k}
            BY <2>11, <2>15, <3>1, <4>2
          <5>2. /\ request[s].key \in avatars /\ uploader[request[s].key] = request[s].account
                /\ \A b \in Accounts : avatarKey[b] # request[s].key
            BY <5>1 DEF AvatarInv, LinksOwned
          <5>3. request[s].key \in avatars' /\ uploader'[request[s].key] = uploader[request[s].key]
            BY <2>3, <2>5, <5>1, <5>2
          <5> QED BY <2>2, <5>1, <5>2, <5>3
        <4> QED BY <4>1, <4>2
      <3>2. ASSUME NEW s \in Requests, Linking(s)', NEW t \in Requests \ {s},
                   Deleting(t)' \/ Linking(t)'
            PROVE  request'[t].key # request'[s].key
        <4>1. CASE s = r
          BY <2>9, <2>11, <2>15, <3>2, <4>1
        <4>2. CASE t = r
          BY <2>9, <2>11, <2>15, <3>2, <4>2
        <4>3. CASE s # r /\ t # r
          BY <2>11, <3>2, <4>3 DEF AvatarInv, LinksOwned
        <4> QED BY <4>1, <4>2, <4>3
      <3> QED BY <3>1, <3>2 DEF LinksOwned
    <2> QED BY <2>11, <2>13, <2>14, <2>16, <2>18 DEF AvatarInv
  <1>11. ASSUME NEW r \in Requests, LinkAvatar(r) PROVE AvatarInv'
    <2>1. PICK a \in Accounts : a = request[r].account
      BY <1>0, <1>11, Kinds DEF LinkAvatar, RequestAt, Pending
    <2>2. PICK key \in Keys : key = request[r].key
      BY <1>11 DEF ProfileTypeInv, KeysKnown, LinkAvatar, RequestAt, Pending
    <2>3. /\ Changing(r) /\ Linking(r) /\ Answer(r)
          /\ UNCHANGED <<avatars, uploader>> /\ WatchAvatar({})
      BY <1>11 DEF LinkAvatar, AnswerAvatar, Changing, Linking, RequestAt, Pending
    <2>4. /\ avatarKey'[a] = key /\ shown'[a] = key
          /\ \A b \in Accounts \ {a} : avatarKey'[b] = avatarKey[b] /\ shown'[b] = shown[b]
      BY <1>0, <1>11, <2>1, <2>2 DEF LinkAvatar, AnswerAvatar, ProfileTypeOK
    <2>5. \A b \in Accounts : Own(b)' = Own(b)
      BY <2>3 DEF Own
    <2>6. \A b \in Accounts \ {a} :
            avatarKey'[b] = avatarKey[b] /\ shown'[b] = shown[b] /\ Own(b)' = Own(b)
      BY <2>4, <2>5
    <2>7. /\ OverlapsSeen' /\ ~Changing(r)' /\ ~Deleting(r)' /\ ~Linking(r)'
          /\ \A s \in Requests \ {r} : request'[s] = request[s]
               /\ (Deleting(s)' <=> Deleting(s)) /\ (Linking(s)' <=> Linking(s))
          /\ \A b \in Accounts \ mixed' : b # a => Settled(b)'
          /\ a \notin mixed' =>
               /\ Settled(a)
               /\ \A s \in Requests \ {r} : /\ ~(Changing(s) /\ request[s].account = a)
                                            /\ ~(Changing(s)' /\ request'[s].account = a)
      BY <1>0, <2>1, <2>3, <2>6, RequestEnds
    <2>8. /\ key \in avatars /\ uploader[key] = a /\ key # None
          /\ \A s \in Requests \ {r} : Linking(s) => request[s].key # key
      BY <1>0, <2>1, <2>2, <2>3 DEF AvatarInv, LinksOwned
    <2>9. ASSUME a \notin mixed' PROVE Settled(a)'
      <3>1. Own(a) = {key}
        BY <2>1, <2>2, <2>3, <2>7, <2>9 DEF Settled
      <3>2. Steady(a)'
        BY <2>4, <2>5, <2>8, <3>1 DEF Steady
      <3> QED BY <2>7, <2>9, <3>2, SettledSelf
    <2>10. KeysOwned'
      BY <2>3, <2>4, <2>8 DEF AvatarInv, KeysOwned
    <2>11. DeletesOwned' /\ LinksOwned'
      BY <2>3, <2>4, <2>7, <2>8 DEF AvatarInv, DeletesOwned, LinksOwned
    <2> QED BY <2>7, <2>9, <2>10, <2>11 DEF AvatarInv
  <1> QED BY <1>1, <1>3, <1>4, <1>6, <1>7, <1>8, <1>9, <1>10, <1>11 DEF ProfileNext

\* AvatarAgrees: an account refers to the avatar it was answered, and to no other
\* that it uploaded.
THEOREM AvatarsAgree == ProfileSpec => []AvatarAgrees
  <1>1. ProfileTypeInv /\ AvatarInv => AvatarAgrees
    <2> SUFFICES ASSUME AvatarInv, NEW a \in Accounts \ mixed,
                        \A r \in Pending(request, "avatar", {"find", "delete", "create", "link"}) :
                          request[r].account # a
                 PROVE  Steady(a)
      BY DEF AvatarAgrees, Steady, Own
    <2>1. Settled(a)
      BY DEF AvatarInv
    <2> QED BY <2>1 DEF Settled, Changing
  <1>2. ProfileInit => ProfileTypeInv /\ AvatarInv
    BY ProfileTypeInit, AvatarInit
  <1>3. ProfileTypeInv /\ AvatarInv /\ [ProfileNext]_profileVars => (ProfileTypeInv /\ AvatarInv)'
    BY ProfileTypeNext, AvatarNext
  <1> QED BY <1>1, <1>2, <1>3, PTL DEF ProfileSpec

-----------------------------------------------------------------------------
(***************************************************************************)
(* Friends.                                                                *)
(***************************************************************************)

\* An addition and a modification carry the contents of the row they write.
LabelsKnown ==
  \A h \in Handlers :
    handler[h] # Unused /\ handler[h].op \in {"add", "modify"} => handler[h].label \in Labels

FriendsTypeInv == FriendsTypeOK /\ LabelsKnown

-----------------------------------------------------------------------------
(* Type correctness. *)

LEMMA FriendsTypeInit == FriendsInit => FriendsTypeInv
  BY DEF FriendsInit, FriendsTypeInv, FriendsTypeOK, LabelsKnown, FriendLists, Views, Snapshots,
         NoFriends, NothingTold, NothingRead

LEMMA RecordsInHandlers ==
  ASSUME FriendsTypeInv, NEW h \in Handlers, handler[h] # Unused
  PROVE  /\ handler[h] \in HandlerRecords
         /\ handler[h].from \in Users /\ handler[h].to \in Users
         /\ handler[h].label \in Labels \cup {NoRow}
         /\ handler[h].op \in {"add", "modify"} => handler[h].label \in Labels
  BY DEF FriendsTypeInv, FriendsTypeOK, LabelsKnown, HandlerRecords

\* A handler that begins, goes on or ends
LEMMA TypeOfHandlers ==
  ASSUME FriendsTypeInv, NEW h \in Handlers, NEW q \in HandlerRecords \cup {Unused},
         q # Unused /\ q.op \in {"add", "modify"} => q.label \in Labels,
         handler' = [handler EXCEPT ![h] = q]
  PROVE  handler' \in [Handlers -> HandlerRecords \cup {Unused}] /\ LabelsKnown'
  <1>1. handler' \in [Handlers -> HandlerRecords \cup {Unused}]
    BY DEF FriendsTypeInv, FriendsTypeOK
  <1>2. \A k \in Handlers : handler'[k] = IF k = h THEN q ELSE handler[k]
    BY DEF FriendsTypeInv, FriendsTypeOK
  <1> QED BY <1>1, <1>2 DEF FriendsTypeInv, LabelsKnown

LEMMA TypeOfMoves ==
  ASSUME FriendsTypeInv, NEW h \in Handlers, handler[h] # Unused, NEW step \in {"query", "done", "refused"},
         handler' = [handler EXCEPT ![h].step = step]
  PROVE  handler' \in [Handlers -> HandlerRecords \cup {Unused}] /\ LabelsKnown'
  <1> DEFINE q == [handler[h] EXCEPT !.step = step]
  <1>1. handler' = [handler EXCEPT ![h] = q]
    OBVIOUS
  <1>2. q \in HandlerRecords /\ q.op = handler[h].op /\ q.label = handler[h].label
    BY RecordsInHandlers DEF HandlerRecords
  <1> HIDE DEF q
  <1> QED BY <1>1, <1>2, RecordsInHandlers, TypeOfHandlers

LEMMA TypeOfViews ==
  ASSUME FriendsTypeInv, NEW h \in Handlers, handler[h] # Unused, NEW u \in Users
  PROVE  TellAccount(u, handler[h]) \in Views
  <1> DEFINE r == handler[h]
  <1>1. /\ r.op \in {"add", "modify", "delete"} /\ r.from \in Users /\ r.to \in Users
        /\ r.label \in Labels \cup {NoRow}
    BY RecordsInHandlers DEF HandlerRecords
  <1>2. told[u] = [friends |-> told[u].friends, requests |-> told[u].requests]
        /\ told[u].friends \in FriendLists /\ told[u].requests \subseteq Users
    BY DEF FriendsTypeInv, FriendsTypeOK, Views
  <1> HIDE DEF r
  <1>3. [told[u].friends EXCEPT ![r.to] = r.label] \in FriendLists
    BY <1>1, <1>2 DEF FriendLists
  <1>4. ASSUME r.op = "add" PROVE TellAccount(u, r) \in Views
    BY <1>1, <1>2, <1>3, <1>4 DEF TellAccount, Views
  <1>5. ASSUME r.op = "modify" PROVE TellAccount(u, r) \in Views
    <2>1. TellAccount(u, r) =
            [told[u] EXCEPT !.friends = IF u = r.from THEN [@ EXCEPT ![r.to] = r.label] ELSE @]
      BY <1>5 DEF TellAccount
    <2> QED BY <1>2, <1>3, <2>1 DEF Views
  <1>6. ASSUME r.op = "delete" PROVE TellAccount(u, r) \in Views
    <2>1. [v \in Users |-> IF {u, v} = {r.from, r.to} THEN NoRow ELSE told[u].friends[v]] \in FriendLists
      BY <1>2 DEF FriendLists
    <2> QED BY <1>2, <1>6, <2>1 DEF TellAccount, Views
  <1> QED BY <1>1, <1>4, <1>5, <1>6 DEF r

LEMMA FriendsTypeNext == FriendsTypeInv /\ [FriendsNext]_friendsVars => FriendsTypeInv'
  <1> SUFFICES ASSUME FriendsTypeInv, [FriendsNext]_friendsVars PROVE FriendsTypeInv'
    OBVIOUS
  <1> USE UnusedAssumption, FriendsAssumption
  <1>1. FriendsTypeOK /\ LabelsKnown
    BY DEF FriendsTypeInv
  <1>2. ASSUME NEW failed, WatchFriends(failed), failed \subseteq Users \X Users
        PROVE  unsettled' \subseteq Users \X Users
    BY <1>1, <1>2 DEF WatchFriends, Watched, FriendsTypeOK
  <1>3. ASSUME WatchFriends({}) PROVE unsettled' \subseteq Users \X Users
    BY <1>2, <1>3
  <1>4. ASSUME NEW u \in Users, Hangup(u)
        PROVE  /\ socket' \in [Users -> {"off", "greeting", "on"}]
               /\ social' \in [Users -> Snapshots] /\ told' \in [Users -> Views]
    BY <1>1, <1>4 DEF Hangup, FriendsTypeOK, NothingRead, NothingTold, NoFriends, Snapshots, Views, FriendLists
  <1>5. ASSUME NEW h \in Handlers, handler' = [handler EXCEPT ![h] = Unused]
        PROVE  handler' \in [Handlers -> HandlerRecords \cup {Unused}] /\ LabelsKnown'
    BY <1>5, TypeOfHandlers
  <1>6. CASE UNCHANGED friendsVars
    BY <1>1, <1>6 DEF friendsVars, FriendsTypeInv, FriendsTypeOK, LabelsKnown
  <1>7. ASSUME NEW u \in Users, Greet(u) PROVE FriendsTypeInv'
    BY <1>1, <1>3, <1>7 DEF Greet, FriendsTypeInv, FriendsTypeOK, LabelsKnown, NothingRead, NoFriends, Snapshots, FriendLists
  <1>8. ASSUME NEW u \in Users, ReadFriends(u) PROVE FriendsTypeInv'
    <2> DEFINE row == [v \in Users |-> friend[u, v]]
               s == [social[u] EXCEPT !.read = @ \cup {"friends"}, !.friends = row]
    <2>1. row \in FriendLists
      BY <1>1 DEF FriendsTypeOK, FriendLists
    <2>2. social[u] \in Snapshots
      BY <1>1 DEF FriendsTypeOK
    <2>3. s \in Snapshots
      <3> HIDE DEF row
      <3> QED BY <2>1, <2>2 DEF Snapshots, Relations
    <2>4. social' = [social EXCEPT ![u] = s]
      BY <1>8 DEF ReadFriends
    <2> HIDE DEF s
    <2>5. social' \in [Users -> Snapshots]
      BY <1>1, <2>3, <2>4 DEF FriendsTypeOK
    <2> QED BY <1>1, <1>3, <1>8, <2>5 DEF ReadFriends, FriendsTypeInv, FriendsTypeOK, LabelsKnown
  <1>9. ASSUME NEW u \in Users, ReadReferences(u) PROVE FriendsTypeInv'
    <2> DEFINE refs == {v \in Users : friend[v, u] # NoRow}
               s == [social[u] EXCEPT !.read = @ \cup {"references"}, !.references = refs]
    <2>1. refs \subseteq Users /\ social[u] \in Snapshots
      BY <1>1 DEF FriendsTypeOK
    <2>2. s \in Snapshots
      <3> HIDE DEF refs
      <3> QED BY <2>1 DEF Snapshots, Relations
    <2>3. social' = [social EXCEPT ![u] = s]
      BY <1>9 DEF ReadReferences
    <2> HIDE DEF s
    <2>4. social' \in [Users -> Snapshots]
      BY <1>1, <2>2, <2>3 DEF FriendsTypeOK
    <2> QED BY <1>1, <1>3, <1>9, <2>4 DEF ReadReferences, FriendsTypeInv, FriendsTypeOK, LabelsKnown
  <1>10. ASSUME NEW u \in Users, SendSocial(u) PROVE FriendsTypeInv'
    <2>1. social[u].friends \in FriendLists /\ social[u].references \subseteq Users
      BY <1>1 DEF FriendsTypeOK, Snapshots
    <2>2. RequestList(social[u].friends, social[u].references) \subseteq Users
      BY <2>1 DEF RequestList
    <2>3. told' \in [Users -> Views]
      BY <1>1, <1>10, <2>1, <2>2 DEF SendSocial, FriendsTypeOK, Views
    <2>4. social' \in [Users -> Snapshots]
      BY <1>1, <1>10 DEF SendSocial, FriendsTypeOK, NothingRead, NoFriends, Snapshots, FriendLists
    <2> QED BY <1>1, <1>3, <1>10, <2>3, <2>4 DEF SendSocial, FriendsTypeInv, FriendsTypeOK, LabelsKnown
  <1>11. ASSUME NEW u \in Users, CloseSocket(u) PROVE FriendsTypeInv'
    BY <1>1, <1>3, <1>4, <1>11 DEF CloseSocket, FriendsTypeInv, FriendsTypeOK, LabelsKnown
  <1>12. ASSUME NEW h \in Handlers, NEW u \in Users, NEW v \in Users,
                NEW op \in {"add", "modify", "delete"}, NEW label \in Labels \cup {NoRow},
                op \in {"add", "modify"} => label \in Labels, Ask(h, op, u, v, label)
         PROVE  FriendsTypeInv'
    <2> DEFINE q == [op |-> op, from |-> u, to |-> v, label |-> label, step |-> "query"]
    <2>1. q \in HandlerRecords /\ (q.op \in {"add", "modify"} => q.label \in Labels)
      BY <1>12 DEF HandlerRecords
    <2>2. handler' = [handler EXCEPT ![h] = q]
      BY <1>12 DEF Ask
    <2> HIDE DEF q
    <2>3. handler' \in [Handlers -> HandlerRecords \cup {Unused}] /\ LabelsKnown'
      BY <2>1, <2>2, TypeOfHandlers
    <2> QED BY <1>1, <1>3, <1>12, <2>3 DEF Ask, FriendsTypeInv, FriendsTypeOK
  <1>13. ASSUME NEW h \in Handlers, AddExecutes(h) \/ ModifyExecutes(h) \/ DeleteFriendExecutes(h)
         PROVE  FriendsTypeInv'
    <2>1. handler[h] # Unused /\ UNCHANGED <<socket, social, told>> /\ WatchFriends({})
      BY <1>13 DEF AddExecutes, ModifyExecutes, DeleteFriendExecutes, HandlerAt, HandlerTo
    <2>2. handler' \in [Handlers -> HandlerRecords \cup {Unused}] /\ LabelsKnown'
      BY <1>13, <2>1, TypeOfMoves DEF AddExecutes, ModifyExecutes, DeleteFriendExecutes, HandlerTo
    <2>3. handler[h].from \in Users /\ handler[h].to \in Users /\ handler[h].label \in Labels \cup {NoRow}
      BY <2>1, RecordsInHandlers
    <2>4. friend' \in [Users \X Users -> Labels \cup {NoRow}]
      BY <1>1, <1>13, <2>3 DEF AddExecutes, ModifyExecutes, DeleteFriendExecutes, Unfriend, FriendsTypeOK
    <2> QED BY <1>1, <1>3, <2>1, <2>2, <2>4 DEF FriendsTypeInv, FriendsTypeOK
  <1>14. ASSUME NEW h \in Handlers, AnnounceFriend(h) PROVE FriendsTypeInv'
    <2>1. told' \in [Users -> Views]
      BY <1>1, <1>14, TypeOfViews DEF AnnounceFriend, FriendsTypeOK
    <2> QED BY <1>1, <1>3, <1>5, <1>14, <2>1 DEF AnnounceFriend, FriendsTypeInv, FriendsTypeOK
  <1>15. ASSUME NEW h \in Handlers, AddRefused(h) PROVE FriendsTypeInv'
    BY <1>1, <1>3, <1>5, <1>15 DEF AddRefused, FriendsTypeInv, FriendsTypeOK
  <1>16. ASSUME NEW h \in Handlers, ModifyThrows(h) PROVE FriendsTypeInv'
    <2>1. handler[h].from \in Users
      BY <1>16, RecordsInHandlers DEF ModifyThrows, HandlerAt
    <2> QED BY <1>1, <1>3, <1>4, <1>5, <1>16, <2>1 DEF ModifyThrows, FriendsTypeInv, FriendsTypeOK
  <1>17. ASSUME NEW h \in Handlers, ChangeFails(h) PROVE FriendsTypeInv'
    <2>1. handler[h].from \in Users /\ handler[h].to \in Users
      BY <1>17, RecordsInHandlers DEF ChangeFails
    <2>2. unsettled' \subseteq Users \X Users
      BY <1>2, <1>17, <2>1 DEF ChangeFails
    <2> QED BY <1>1, <1>4, <1>5, <1>17, <2>1, <2>2 DEF ChangeFails, FriendsTypeInv, FriendsTypeOK
  <1>18. CASE FriendsRestart
    BY <1>1, <1>3, <1>18 DEF FriendsRestart, FriendsTypeInv, FriendsTypeOK, LabelsKnown,
       NothingRead, NothingTold, NoFriends, Snapshots, Views, FriendLists
  <1> QED BY <1>6, <1>7, <1>8, <1>9, <1>10, <1>11, <1>12, <1>13, <1>14, <1>15, <1>16, <1>17, <1>18
          DEF FriendsNext

\* FriendsTypeOK: every variable keeps its type.
THEOREM FriendsTypesHold == FriendsSpec => []FriendsTypeOK
  <1>1. FriendsTypeInv => FriendsTypeOK
    BY DEF FriendsTypeInv
  <1> QED BY <1>1, FriendsTypeInit, FriendsTypeNext, PTL DEF FriendsSpec

-----------------------------------------------------------------------------
(* What clients are told. *)

\* row and asks say of v what the rows do: u's row, and whether v asks.
Known(u, v, row, asks) ==
  /\ row = friend[u, v]
  /\ (asks /\ row = NoRow) <=> (friend[v, u] # NoRow /\ friend[u, v] = NoRow)

Told(u, v) == Known(u, v, told[u].friends[v], v \in told[u].requests)
WillBeTold(u, v, r) ==
  Known(u, v, TellAccount(u, r).friends[v], v \in TellAccount(u, r).requests)

\* Overlapping changes, and a change that overlaps a snapshot, are known to.
OverlapsKnown ==
  \A u, v \in Users :
    /\ socket[u] # "off"
    /\ \/ \E h1, h2 \in Busy(handler, u, v) : h1 # h2
       \/ socket[u] = "greeting" /\ Busy(handler, u, v) # {}
    => <<u, v>> \in unsettled

\* A client with a snapshot was told what the rows say; the one handler that has
\* written and not told yet will tell it.
TellsRight(u, v) ==
  /\ Busy(handler, u, v) = {} => Told(u, v)
  /\ \A h \in Busy(handler, u, v) :
       /\ handler[h].step # "done" => Told(u, v)
       /\ handler[h].step = "done" => WillBeTold(u, v, handler[h])

\* What is read of a snapshot is what the rows say.
ReadRight(u, v) ==
  /\ "friends" \in social[u].read => social[u].friends[v] = friend[u, v]
  /\ "references" \in social[u].read => (v \in social[u].references <=> friend[v, u] # NoRow)

PairRight(u, v) ==
  <<u, v>> \notin unsettled =>
    /\ socket[u] = "on" => TellsRight(u, v)
    /\ socket[u] = "greeting" => ReadRight(u, v)

FriendsInv == OverlapsKnown /\ \A u, v \in Users : PairRight(u, v)

LEMMA FriendsInvInit == FriendsInit => FriendsInv
  BY DEF FriendsInit, FriendsInv, OverlapsKnown, PairRight

\* WatchFriends sees every overlap, and forgets none of a client that stays.
LEMMA OverlapsKnownNext ==
  ASSUME NEW failed, WatchFriends(failed)
  PROVE  /\ OverlapsKnown'
         /\ \A u, v \in Users : socket'[u] # "off" =>
              (<<u, v>> \in unsettled \/ <<u, v>> \in failed => <<u, v>> \in unsettled')
  <1>1. ASSUME NEW u \in Users, NEW v \in Users, socket'[u] # "off",
               \/ \E h1, h2 \in Busy(handler', u, v) : h1 # h2
               \/ socket'[u] = "greeting" /\ Busy(handler', u, v) # {}
        PROVE  <<u, v>> \in unsettled'
    <2>1. <<u, v>> \in Watched(handler', socket')
      BY <1>1 DEF Watched
    <2> QED BY <1>1, <2>1 DEF WatchFriends
  <1>2. OverlapsKnown'
    BY <1>1 DEF OverlapsKnown, Busy
  <1> QED BY <1>2 DEF WatchFriends

\* what u holds about v after the notices of a handler
RowAfter(u, v, r, row) ==
  IF r.op = "delete" THEN IF {u, v} = {r.from, r.to} THEN NoRow ELSE row
  ELSE IF u = r.from /\ v = r.to THEN r.label ELSE row
AsksAfter(u, v, r, asks) ==
  \/ asks /\ ~(r.op = "delete" /\ {u, v} = {r.from, r.to})
  \/ r.op = "add" /\ u = r.to /\ v = r.from

\* What the notices of a handler change for one pair
LEMMA TellEntry ==
  ASSUME FriendsTypeOK, NEW r \in HandlerRecords, NEW u \in Users, NEW v \in Users
  PROVE  /\ TellAccount(u, r).friends[v] = RowAfter(u, v, r, told[u].friends[v])
         /\ v \in TellAccount(u, r).requests <=> AsksAfter(u, v, r, v \in told[u].requests)
  <1>1. told[u] \in Views /\ told[u].friends \in FriendLists
    BY DEF FriendsTypeOK, Views
  <1>2. r.op \in {"add", "modify", "delete"} /\ r.to \in Users
    BY DEF HandlerRecords
  <1>3. [told[u].friends EXCEPT ![r.to] = r.label][v]
          = IF v = r.to THEN r.label ELSE told[u].friends[v]
    BY <1>1 DEF FriendLists
  <1>4. CASE r.op = "add"
    BY <1>3, <1>4 DEF TellAccount, RowAfter, AsksAfter
  <1>5. CASE r.op = "modify"
    <2>1. TellAccount(u, r) =
            [told[u] EXCEPT !.friends = IF u = r.from THEN [@ EXCEPT ![r.to] = r.label] ELSE @]
      BY <1>5 DEF TellAccount
    <2>2. /\ TellAccount(u, r).requests = told[u].requests
          /\ TellAccount(u, r).friends =
               IF u = r.from THEN [told[u].friends EXCEPT ![r.to] = r.label] ELSE told[u].friends
      BY <1>1, <2>1 DEF Views
    <2> QED BY <1>3, <1>5, <2>2 DEF RowAfter, AsksAfter
  <1>6. CASE r.op = "delete"
    BY <1>1, <1>6 DEF TellAccount, Views, RowAfter, AsksAfter
  <1> QED BY <1>2, <1>4, <1>5, <1>6

\* The same of the next state
LEMMA TellEntryNext ==
  ASSUME FriendsTypeOK', NEW r \in HandlerRecords, NEW u \in Users, NEW v \in Users
  PROVE  /\ TellAccount(u, r)'.friends[v] = RowAfter(u, v, r, told'[u].friends[v])
         /\ v \in TellAccount(u, r)'.requests <=> AsksAfter(u, v, r, v \in told'[u].requests)
  <1>1. told'[u] \in Views /\ told'[u].friends \in FriendLists
    BY DEF FriendsTypeOK, Views
  <1>2. r.op \in {"add", "modify", "delete"} /\ r.to \in Users
    BY DEF HandlerRecords
  <1>3. [told'[u].friends EXCEPT ![r.to] = r.label][v]
          = IF v = r.to THEN r.label ELSE told'[u].friends[v]
    BY <1>1 DEF FriendLists
  <1>4. CASE r.op = "add"
    BY <1>3, <1>4 DEF TellAccount, RowAfter, AsksAfter
  <1>5. CASE r.op = "modify"
    <2>1. TellAccount(u, r)' =
            [told'[u] EXCEPT !.friends = IF u = r.from THEN [@ EXCEPT ![r.to] = r.label] ELSE @]
      BY <1>5 DEF TellAccount
    <2>2. /\ TellAccount(u, r)'.requests = told'[u].requests
          /\ TellAccount(u, r)'.friends =
               IF u = r.from THEN [told'[u].friends EXCEPT ![r.to] = r.label] ELSE told'[u].friends
      BY <1>1, <2>1 DEF Views
    <2> QED BY <1>3, <1>5, <2>2 DEF RowAfter, AsksAfter
  <1>6. CASE r.op = "delete"
    BY <1>1, <1>6 DEF TellAccount, Views, RowAfter, AsksAfter
  <1> QED BY <1>2, <1>4, <1>5, <1>6

\* A step that concerns other pairs leaves what is known of this one.
LEMMA PairFrame ==
  ASSUME NEW failed, WatchFriends(failed), NEW u \in Users, NEW v \in Users, PairRight(u, v),
         socket'[u] = socket[u] \/ socket'[u] = "off",
         friend'[u, v] = friend[u, v], friend'[v, u] = friend[v, u],
         told'[u].friends[v] = told[u].friends[v] \/ socket'[u] # "on",
         (v \in told'[u].requests <=> v \in told[u].requests) \/ socket'[u] # "on",
         social'[u] = social[u] \/ socket'[u] # "greeting",
         Busy(handler', u, v) = Busy(handler, u, v),
         \A h \in Busy(handler, u, v) : handler'[h] = handler[h],
         FriendsTypeOK, FriendsTypeOK'
  PROVE  PairRight(u, v)'
  <1>1. SUFFICES ASSUME <<u, v>> \notin unsettled', socket'[u] # "off"
                 PROVE  /\ socket'[u] = "on" => TellsRight(u, v)'
                        /\ socket'[u] = "greeting" => ReadRight(u, v)'
    BY DEF PairRight
  <1>2. <<u, v>> \notin unsettled /\ socket'[u] = socket[u]
    BY <1>1, OverlapsKnownNext
  <1>3. ASSUME socket'[u] = "greeting" PROVE ReadRight(u, v)'
    BY <1>2, <1>3 DEF PairRight, ReadRight
  <1>4. ASSUME socket'[u] = "on" PROVE TellsRight(u, v)'
    <2>1. /\ told'[u].friends[v] = told[u].friends[v]
          /\ v \in told'[u].requests <=> v \in told[u].requests
      BY <1>4
    <2>2. Told(u, v)' <=> Told(u, v)
      BY <2>1 DEF Told, Known
    <2>3. ASSUME NEW h \in Busy(handler, u, v), handler[h].step = "done", WillBeTold(u, v, handler[h])
          PROVE  WillBeTold(u, v, handler[h])'
      <3>1. PICK r \in HandlerRecords : r = handler[h]
        BY DEF FriendsTypeOK, Busy
      <3>2. handler'[h] = r
        BY <3>1
      <3>3. WillBeTold(u, v, r)
        BY <2>3, <3>1
      <3>4. /\ TellAccount(u, r)'.friends[v] = TellAccount(u, r).friends[v]
            /\ v \in TellAccount(u, r)'.requests <=> v \in TellAccount(u, r).requests
        <4>1. /\ TellAccount(u, r).friends[v] = RowAfter(u, v, r, told[u].friends[v])
              /\ v \in TellAccount(u, r).requests <=> AsksAfter(u, v, r, v \in told[u].requests)
          BY TellEntry
        <4>2. /\ TellAccount(u, r)'.friends[v] = RowAfter(u, v, r, told'[u].friends[v])
              /\ v \in TellAccount(u, r)'.requests <=> AsksAfter(u, v, r, v \in told'[u].requests)
          BY TellEntryNext
        <4> QED BY <2>1, <4>1, <4>2 DEF AsksAfter
      <3>5. WillBeTold(u, v, r)'
        BY <3>3, <3>4 DEF WillBeTold, Known
      <3> QED BY <3>2, <3>5
    <2> QED BY <1>2, <1>4, <2>2, <2>3 DEF PairRight, TellsRight
  <1> QED BY <1>3, <1>4

\* The pair of the handler has no other one, as long as it is settled.
LEMMA OnlyHandler ==
  ASSUME FriendsTypeOK, NEW h \in Handlers, NEW q, handler' = [handler EXCEPT ![h] = q],
         NEW failed, WatchFriends(failed),
         NEW u \in Users, NEW v \in Users, <<u, v>> \notin unsettled', socket'[u] # "off",
         q # Unused, {q.from, q.to} = {u, v}
  PROVE  Busy(handler', u, v) = {h} /\ socket'[u] # "greeting" /\ handler'[h] = q
  <1>1. \A k \in Handlers : handler'[k] = IF k = h THEN q ELSE handler[k]
    BY DEF FriendsTypeOK
  <1>2. h \in Busy(handler', u, v)
    BY <1>1 DEF Busy
  <1>3. Busy(handler', u, v) = {h} /\ socket'[u] # "greeting"
    <2>1. OverlapsKnown'
      BY OverlapsKnownNext
    <2>2. /\ \A h1, h2 \in Busy(handler', u, v) : h1 = h2
          /\ socket'[u] # "greeting" \/ Busy(handler', u, v) = {}
      BY <2>1 DEF OverlapsKnown, Busy
    <2> QED BY <1>2, <2>2
  <1> QED BY <1>1, <1>3

\* The same of the state before the step
LEMMA WasOnlyHandler ==
  ASSUME OverlapsKnown, NEW h \in Handlers, NEW failed, WatchFriends(failed),
         NEW u \in Users, NEW v \in Users, <<u, v>> \notin unsettled',
         socket[u] # "off", socket'[u] = socket[u],
         handler[h] # Unused, {handler[h].from, handler[h].to} = {u, v}
  PROVE  <<u, v>> \notin unsettled /\ Busy(handler, u, v) = {h} /\ socket[u] # "greeting"
  <1>1. <<u, v>> \notin unsettled
    BY OverlapsKnownNext
  <1>2. h \in Busy(handler, u, v)
    BY DEF Busy
  <1> QED BY <1>1, <1>2 DEF OverlapsKnown

\* Whoever hangs up is told nothing; the others keep what they were told.
LEMMA HangupFrame ==
  ASSUME FriendsTypeOK, NEW w \in Users, Hangup(w), NEW u \in Users
  PROVE  /\ socket'[u] = IF u = w THEN "off" ELSE socket[u]
         /\ u # w => told'[u] = told[u] /\ social'[u] = social[u]
  BY DEF Hangup, FriendsTypeOK

LEMMA SnapshotPairs ==
  ASSUME FriendsTypeInv, FriendsTypeInv', FriendsInv, NEW w \in Users,
         Greet(w) \/ ReadFriends(w) \/ ReadReferences(w) \/ SendSocial(w) \/ CloseSocket(w),
         NEW u \in Users, NEW v \in Users
  PROVE  PairRight(u, v)'
  <1>1. FriendsTypeOK /\ FriendsTypeOK' /\ UNCHANGED <<friend, handler>> /\ WatchFriends({})
    BY DEF FriendsTypeInv, Greet, ReadFriends, ReadReferences, SendSocial, CloseSocket
  <1>2. CASE u # w \/ CloseSocket(w)
    <2>1. PairRight(u, v)
      BY DEF FriendsInv
    <2>2. /\ socket'[u] = socket[u] \/ socket'[u] = "off"
          /\ socket'[u] # "off" => told'[u] = told[u] /\ social'[u] = social[u]
      BY <1>1, <1>2, HangupFrame
         DEF Greet, ReadFriends, ReadReferences, SendSocial, CloseSocket, FriendsTypeOK
    <2> QED BY <1>1, <2>1, <2>2, PairFrame
  <1>3. CASE u = w /\ ~CloseSocket(w)
    <2> SUFFICES ASSUME <<u, v>> \notin unsettled', socket'[u] # "off"
                 PROVE  /\ socket'[u] = "on" => TellsRight(u, v)'
                        /\ socket'[u] = "greeting" => ReadRight(u, v)'
      BY DEF PairRight
    <2>1. <<u, v>> \notin unsettled
      BY <1>1, OverlapsKnownNext
    <2>2. CASE Greet(w)
      <3>1. socket'[u] = "greeting" /\ social'[u] = NothingRead
        BY <1>1, <1>3, <2>2 DEF Greet, FriendsTypeOK
      <3> QED BY <3>1 DEF ReadRight, NothingRead
    <2>3. ASSUME socket[u] = "greeting" PROVE ReadRight(u, v) /\ Busy(handler, u, v) = {}
      BY <2>1, <2>3 DEF FriendsInv, PairRight, OverlapsKnown
    <2>4. CASE ReadFriends(w)
      <3>1. socket[u] = "greeting" /\ socket'[u] = "greeting"
        BY <1>3, <2>4 DEF ReadFriends
      <3>2. /\ social'[u].friends[v] = friend[u, v]
            /\ social'[u].references = social[u].references
            /\ "references" \in social'[u].read => "references" \in social[u].read
        <4> DEFINE row == [x \in Users |-> friend[u, x]]
        <4>1. social' = [social EXCEPT ![u] = [social[u] EXCEPT !.read = @ \cup {"friends"},
                                                                !.friends = row]]
          BY <1>3, <2>4 DEF ReadFriends
        <4>2. row[v] = friend[u, v]
          OBVIOUS
        <4> HIDE DEF row
        <4>3. social'[u] = [social[u] EXCEPT !.read = @ \cup {"friends"}, !.friends = row]
          BY <1>1, <4>1 DEF FriendsTypeOK
        <4>4. social[u] \in Snapshots
          BY <1>1 DEF FriendsTypeOK
        <4> QED BY <4>2, <4>3, <4>4 DEF Snapshots
      <3> QED BY <1>1, <2>3, <3>1, <3>2 DEF ReadRight
    <2>5. CASE ReadReferences(w)
      <3>1. socket[u] = "greeting" /\ socket'[u] = "greeting"
        BY <1>3, <2>5 DEF ReadReferences
      <3>2. /\ v \in social'[u].references <=> friend[v, u] # NoRow
            /\ social'[u].friends = social[u].friends
            /\ "friends" \in social'[u].read => "friends" \in social[u].read
        <4> DEFINE refs == {x \in Users : friend[x, u] # NoRow}
        <4>1. social' = [social EXCEPT ![u] = [social[u] EXCEPT !.read = @ \cup {"references"},
                                                                !.references = refs]]
          BY <1>3, <2>5 DEF ReadReferences
        <4>2. v \in refs <=> friend[v, u] # NoRow
          OBVIOUS
        <4> HIDE DEF refs
        <4>3. social'[u] = [social[u] EXCEPT !.read = @ \cup {"references"}, !.references = refs]
          BY <1>1, <4>1 DEF FriendsTypeOK
        <4>4. social[u] \in Snapshots
          BY <1>1 DEF FriendsTypeOK
        <4> QED BY <4>2, <4>3, <4>4 DEF Snapshots
      <3> QED BY <1>1, <2>3, <3>1, <3>2 DEF ReadRight
    <2>6. CASE SendSocial(w)
      <3>1. socket[u] = "greeting" /\ socket'[u] = "on" /\ social[u].read = Relations
        BY <1>1, <1>3, <2>6 DEF SendSocial, FriendsTypeOK
      <3>2. /\ told'[u].friends = social[u].friends
            /\ told'[u].requests = RequestList(social[u].friends, social[u].references)
        BY <1>1, <1>3, <2>6 DEF SendSocial, FriendsTypeOK
      <3>3. social[u].friends[v] = friend[u, v] /\ (v \in social[u].references <=> friend[v, u] # NoRow)
        BY <2>3, <3>1 DEF ReadRight, Relations
      <3>4. Told(u, v)'
        BY <1>1, <3>2, <3>3 DEF Told, Known, RequestList
      <3>5. Busy(handler', u, v) = {}
        BY <1>1, <2>3, <3>1
      <3> QED BY <3>1, <3>4, <3>5 DEF TellsRight
    <2> QED BY <1>3, <2>2, <2>4, <2>5, <2>6
  <1> QED BY <1>2, <1>3

\* What a query writes, its notices tell.
LEMMA WriteTells ==
  ASSUME FriendsTypeOK, FriendsTypeOK', NEW q \in HandlerRecords, UNCHANGED told,
         q.op \in {"add", "modify"} => q.label \in Labels,
         NEW u \in Users, NEW v \in Users, {q.from, q.to} = {u, v}, Told(u, v),
         \/ /\ q.op = "add" /\ friend[q.from, q.to] = NoRow
            /\ friend' = [friend EXCEPT ![<<q.from, q.to>>] = q.label]
         \/ /\ q.op = "modify" /\ friend[q.from, q.to] # NoRow
            /\ friend' = [friend EXCEPT ![<<q.from, q.to>>] = q.label]
         \/ q.op = "delete" /\ friend' = Unfriend(q.from, q.to)
  PROVE  WillBeTold(u, v, q)'
  <1> DEFINE row == told[u].friends[v]
             asks == v \in told[u].requests
  <1>1. row = friend[u, v] /\ ((asks /\ row = NoRow) <=> (friend[v, u] # NoRow /\ friend[u, v] = NoRow))
    BY DEF Told, Known
  <1>2. /\ TellAccount(u, q)'.friends[v] = RowAfter(u, v, q, row)
        /\ v \in TellAccount(u, q)'.requests <=> AsksAfter(u, v, q, asks)
    <2>1. /\ TellAccount(u, q)'.friends[v] = RowAfter(u, v, q, told'[u].friends[v])
          /\ v \in TellAccount(u, q)'.requests <=> AsksAfter(u, v, q, v \in told'[u].requests)
      BY TellEntryNext
    <2> QED BY <2>1 DEF AsksAfter
  <1> HIDE DEF row, asks
  <1>3. q.from \in Users /\ q.to \in Users /\ q.op \in {"add", "modify", "delete"}
    BY DEF HandlerRecords
  <1>4. (q.from = u /\ q.to = v) \/ (q.from = v /\ q.to = u)
    OBVIOUS
  <1>5. CASE q.op \in {"add", "modify"}
    <2>1. \A x, y \in Users : friend'[x, y] = IF x = q.from /\ y = q.to THEN q.label ELSE friend[x, y]
      BY <1>3, <1>5 DEF FriendsTypeOK
    <2>2. q.label # NoRow
      BY <1>5, FriendsAssumption
    <2>3. friend'[u, v] = IF u = q.from /\ v = q.to THEN q.label ELSE friend[u, v]
      BY <2>1
    <2>4. friend'[v, u] = IF v = q.from /\ u = q.to THEN q.label ELSE friend[v, u]
      BY <2>1
    <2>5. friend[q.from, q.to] = NoRow <=> q.op = "add"
      BY <1>5
    <2>6. /\ RowAfter(u, v, q, row) = friend'[u, v]
          /\ (AsksAfter(u, v, q, asks) /\ RowAfter(u, v, q, row) = NoRow)
               <=> (friend'[v, u] # NoRow /\ friend'[u, v] = NoRow)
      BY <1>1, <1>4, <1>5, <2>2, <2>3, <2>4, <2>5 DEF RowAfter, AsksAfter
    <2> QED BY <1>2, <2>6 DEF WillBeTold, Known
  <1>6. CASE q.op = "delete"
    <2>1. friend'[u, v] = NoRow /\ friend'[v, u] = NoRow
      BY <1>3, <1>4, <1>6 DEF FriendsTypeOK, Unfriend
    <2>2. RowAfter(u, v, q, row) = NoRow /\ ~AsksAfter(u, v, q, asks)
      BY <1>6 DEF RowAfter, AsksAfter
    <2> QED BY <1>2, <2>1, <2>2 DEF WillBeTold, Known
  <1> QED BY <1>3, <1>5, <1>6

LEMMA HandlerPairs ==
  ASSUME FriendsTypeInv, FriendsTypeInv', FriendsInv, NEW h \in Handlers,
         \/ \E w, x \in Users, op \in {"add", "modify", "delete"}, label \in Labels \cup {NoRow} :
              Ask(h, op, w, x, label)
         \/ AddExecutes(h) \/ ModifyExecutes(h) \/ DeleteFriendExecutes(h)
         \/ AnnounceFriend(h) \/ AddRefused(h) \/ ModifyThrows(h) \/ ChangeFails(h),
         NEW u \in Users, NEW v \in Users
  PROVE  PairRight(u, v)'
  <1> USE UnusedAssumption, FriendsAssumption
  <1>1. FriendsTypeOK /\ FriendsTypeOK' /\ OverlapsKnown /\ PairRight(u, v)
    BY DEF FriendsTypeInv, FriendsInv
  \* a pair of others
  <1>2. ASSUME NEW q, handler' = [handler EXCEPT ![h] = q], NEW failed, WatchFriends(failed),
               handler[h] # Unused => {handler[h].from, handler[h].to} # {u, v},
               q # Unused => {q.from, q.to} # {u, v},
               socket'[u] = socket[u] \/ socket'[u] = "off",
               friend'[u, v] = friend[u, v], friend'[v, u] = friend[v, u],
               told'[u].friends[v] = told[u].friends[v] \/ socket'[u] # "on",
               (v \in told'[u].requests <=> v \in told[u].requests) \/ socket'[u] # "on",
               social'[u] = social[u] \/ socket'[u] # "greeting"
        PROVE  PairRight(u, v)'
    <2>1. /\ Busy(handler', u, v) = Busy(handler, u, v)
          /\ \A k \in Busy(handler, u, v) : handler'[k] = handler[k]
      <3>1. \A k \in Handlers : handler'[k] = IF k = h THEN q ELSE handler[k]
        BY <1>1, <1>2 DEF FriendsTypeOK
      <3> QED BY <1>2, <3>1 DEF Busy
    <2> QED BY <1>1, <1>2, <2>1, PairFrame
  <1>3. ASSUME NEW w \in Users, NEW x \in Users, NEW op \in {"add", "modify", "delete"},
               NEW label \in Labels \cup {NoRow}, Ask(h, op, w, x, label)
        PROVE  PairRight(u, v)'
    <2> DEFINE q == [op |-> op, from |-> w, to |-> x, label |-> label, step |-> "query"]
    <2>1. /\ handler' = [handler EXCEPT ![h] = q] /\ handler[h] = Unused
          /\ UNCHANGED <<friend, socket, social, told>> /\ WatchFriends({})
      BY <1>3 DEF Ask
    <2>2. q \in HandlerRecords /\ q.from = w /\ q.to = x /\ q.step = "query"
      BY DEF HandlerRecords
    <2> HIDE DEF q
    <2>3. CASE {w, x} # {u, v}
      BY <1>2, <2>1, <2>2, <2>3
    <2>4. ASSUME {w, x} = {u, v}, <<u, v>> \notin unsettled', socket'[u] # "off"
          PROVE  socket'[u] = "on" /\ TellsRight(u, v)'
      <3>1. Busy(handler', u, v) = {h} /\ socket'[u] # "greeting" /\ handler'[h] = q
        BY <1>1, <2>1, <2>2, <2>4, OnlyHandler
      <3>2. \A k \in Handlers \ {h} : handler'[k] = handler[k]
        BY <1>1, <2>1 DEF FriendsTypeOK
      <3>3. Busy(handler, u, v) = {}
        BY <2>1, <3>1, <3>2 DEF Busy
      <3>4. <<u, v>> \notin unsettled
        BY <2>1, <2>4, OverlapsKnownNext
      <3>5. socket[u] = "on" /\ socket'[u] = "on"
        BY <1>1, <2>1, <2>4, <3>1 DEF FriendsTypeOK
      <3>6. Told(u, v)
        BY <1>1, <3>3, <3>4, <3>5 DEF PairRight, TellsRight
      <3>7. Told(u, v)'
        BY <2>1, <3>6 DEF Told, Known
      <3> QED BY <2>2, <3>1, <3>5, <3>7 DEF TellsRight
    <2> QED BY <2>3, <2>4 DEF PairRight
  \* the query of a handler is executed, or refused
  <1>4. ASSUME AddExecutes(h) \/ ModifyExecutes(h) \/ DeleteFriendExecutes(h)
        PROVE  PairRight(u, v)'
    <2>1. /\ handler[h] # Unused /\ handler[h].step = "query"
          /\ UNCHANGED <<socket, social, told>> /\ WatchFriends({})
      BY <1>4 DEF AddExecutes, ModifyExecutes, DeleteFriendExecutes, HandlerAt, HandlerTo
    <2>2. PICK step \in {"done", "refused"} : handler' = [handler EXCEPT ![h].step = step]
            /\ \/ step = "refused" /\ UNCHANGED friend
               \/ /\ step = "done" /\ handler[h].op = "add"
                  /\ friend[handler[h].from, handler[h].to] = NoRow
                  /\ friend' = [friend EXCEPT ![<<handler[h].from, handler[h].to>>] = handler[h].label]
               \/ /\ step = "done" /\ handler[h].op = "modify"
                  /\ friend[handler[h].from, handler[h].to] # NoRow
                  /\ friend' = [friend EXCEPT ![<<handler[h].from, handler[h].to>>] = handler[h].label]
               \/ /\ step = "done" /\ handler[h].op = "delete"
                  /\ friend' = Unfriend(handler[h].from, handler[h].to)
      BY <1>4 DEF AddExecutes, ModifyExecutes, DeleteFriendExecutes, HandlerAt, HandlerTo
    <2>3. PICK q \in HandlerRecords : q = [handler[h] EXCEPT !.step = step]
      BY <2>1, RecordsInHandlers DEF HandlerRecords
    <2>4. /\ q.step = step /\ q.op = handler[h].op /\ q.from = handler[h].from
          /\ q.to = handler[h].to /\ q.label = handler[h].label
          /\ q.from \in Users /\ q.to \in Users
          /\ q.op \in {"add", "modify"} => q.label \in Labels
          /\ handler' = [handler EXCEPT ![h] = q]
      BY <2>1, <2>2, <2>3, RecordsInHandlers DEF HandlerRecords
    <2>5. CASE {q.from, q.to} # {u, v}
      <3>1. friend'[u, v] = friend[u, v] /\ friend'[v, u] = friend[v, u]
        <4>1. CASE step = "done" /\ handler[h].op = "delete"
          <5>1. friend' = [friend EXCEPT ![<<q.from, q.to>>] = NoRow, ![<<q.to, q.from>>] = NoRow]
            BY <2>2, <2>4, <4>1 DEF Unfriend
          <5>2. <<u, v>> \notin {<<q.from, q.to>>, <<q.to, q.from>>}
                /\ <<v, u>> \notin {<<q.from, q.to>>, <<q.to, q.from>>}
            BY <2>5
          <5> QED BY <1>1, <2>4, <5>1, <5>2 DEF FriendsTypeOK
        <4>2. CASE friend' = [friend EXCEPT ![<<handler[h].from, handler[h].to>>] = handler[h].label]
          BY <1>1, <2>4, <2>5, <4>2 DEF FriendsTypeOK
        <4> QED BY <2>2, <4>1, <4>2
      <3> QED BY <1>2, <2>1, <2>4, <2>5, <3>1
    <2>6. ASSUME {q.from, q.to} = {u, v}, <<u, v>> \notin unsettled', socket'[u] # "off"
          PROVE  socket'[u] = "on" /\ TellsRight(u, v)'
      <3>1. Busy(handler', u, v) = {h} /\ socket'[u] # "greeting" /\ handler'[h] = q
        BY <1>1, <2>1, <2>4, <2>6, OnlyHandler
      <3>2. <<u, v>> \notin unsettled /\ Busy(handler, u, v) = {h}
        BY <1>1, <2>1, <2>4, <2>6, WasOnlyHandler
      <3>3. socket[u] = "on" /\ socket'[u] = "on"
        BY <1>1, <2>1, <2>6, <3>1 DEF FriendsTypeOK
      <3>4. Told(u, v)
        BY <1>1, <2>1, <3>2, <3>3 DEF PairRight, TellsRight
      <3>5. CASE step = "refused"
        <4>1. Told(u, v)'
          BY <2>1, <2>2, <3>4, <3>5 DEF Told, Known
        <4> QED BY <2>4, <3>1, <3>3, <3>5, <4>1 DEF TellsRight
      <3>6. CASE step = "done"
        <4>1. WillBeTold(u, v, q)'
          <5>1. \/ /\ q.op = "add" /\ friend[q.from, q.to] = NoRow
                   /\ friend' = [friend EXCEPT ![<<q.from, q.to>>] = q.label]
                \/ /\ q.op = "modify" /\ friend[q.from, q.to] # NoRow
                   /\ friend' = [friend EXCEPT ![<<q.from, q.to>>] = q.label]
                \/ q.op = "delete" /\ friend' = Unfriend(q.from, q.to)
            BY <2>2, <2>4, <3>6
          <5> QED BY <1>1, <2>1, <2>4, <2>6, <3>4, <5>1, WriteTells
        <4> QED BY <2>4, <3>1, <3>3, <3>6, <4>1 DEF TellsRight
      <3> QED BY <3>3, <3>5, <3>6
    <2> QED BY <2>5, <2>6 DEF PairRight
  \* the notices of a handler
  <1>5. ASSUME AnnounceFriend(h) PROVE PairRight(u, v)'
    <2>1. /\ handler[h] # Unused /\ handler[h].step = "done"
          /\ handler' = [handler EXCEPT ![h] = Unused]
          /\ UNCHANGED <<friend, socket, social>> /\ WatchFriends({})
      BY <1>5 DEF AnnounceFriend
    <2>2. PICK r \in HandlerRecords : r = handler[h]
      BY <1>1, <2>1 DEF FriendsTypeOK
    <2>3. socket[u] = "on" => told'[u] = TellAccount(u, r)
      BY <1>5, <2>2 DEF AnnounceFriend
    <2>4. /\ TellAccount(u, r).friends[v] = RowAfter(u, v, r, told[u].friends[v])
          /\ v \in TellAccount(u, r).requests <=> AsksAfter(u, v, r, v \in told[u].requests)
      BY <1>1, TellEntry
    <2>5. CASE {r.from, r.to} # {u, v}
      <3>1. /\ told'[u].friends[v] = told[u].friends[v] \/ socket'[u] # "on"
            /\ (v \in told'[u].requests <=> v \in told[u].requests) \/ socket'[u] # "on"
        BY <2>1, <2>3, <2>4, <2>5 DEF RowAfter, AsksAfter
      <3> QED BY <1>2, <2>1, <2>2, <2>5, <3>1
    <2>6. ASSUME {r.from, r.to} = {u, v}, <<u, v>> \notin unsettled', socket'[u] # "off"
          PROVE  socket'[u] = "on" /\ TellsRight(u, v)'
      <3>1. <<u, v>> \notin unsettled /\ Busy(handler, u, v) = {h} /\ socket[u] # "greeting"
        BY <1>1, <2>1, <2>2, <2>6, WasOnlyHandler
      <3>2. socket[u] = "on" /\ socket'[u] = "on"
        BY <1>1, <2>1, <2>6, <3>1 DEF FriendsTypeOK
      <3>3. WillBeTold(u, v, r)
        BY <1>1, <2>1, <2>2, <3>1, <3>2 DEF PairRight, TellsRight
      <3>4. Told(u, v)'
        BY <2>1, <2>3, <3>2, <3>3 DEF Told, WillBeTold, Known
      <3>5. Busy(handler', u, v) = {}
        BY <1>1, <2>1, <3>1 DEF Busy, FriendsTypeOK
      <3> QED BY <3>2, <3>4, <3>5 DEF TellsRight
    <2> QED BY <2>5, <2>6 DEF PairRight
  \* a handler ends without notices
  <1>6. ASSUME AddRefused(h) \/ ModifyThrows(h) \/ ChangeFails(h) PROVE PairRight(u, v)'
    <2>1. /\ handler[h] # Unused /\ handler' = [handler EXCEPT ![h] = Unused] /\ UNCHANGED friend
          /\ handler[h].from \in Users /\ handler[h].to \in Users
      BY <1>6, RecordsInHandlers DEF AddRefused, ModifyThrows, ChangeFails, HandlerAt
    <2>2. PICK failed : /\ WatchFriends(failed)
                        /\ \/ handler[h].step = "refused"
                           \/ {<<handler[h].from, handler[h].to>>, <<handler[h].to, handler[h].from>>}
                                \subseteq failed
      BY <1>6 DEF AddRefused, ModifyThrows, ChangeFails, HandlerAt
    <2>3. /\ socket'[u] = socket[u] \/ socket'[u] = "off"
          /\ socket'[u] # "off" => told'[u] = told[u] /\ social'[u] = social[u]
      BY <1>1, <1>6, <2>1, HangupFrame DEF AddRefused, ModifyThrows, ChangeFails
    <2>4. CASE {handler[h].from, handler[h].to} # {u, v}
      BY <1>2, <2>1, <2>2, <2>3, <2>4
    <2>5. ASSUME {handler[h].from, handler[h].to} = {u, v}, <<u, v>> \notin unsettled', socket'[u] # "off"
          PROVE  socket'[u] = "on" /\ TellsRight(u, v)'
      <3>1. socket[u] # "off" /\ socket'[u] = socket[u] /\ told'[u] = told[u]
        BY <2>3, <2>5
      <3>2. <<u, v>> \notin unsettled /\ Busy(handler, u, v) = {h} /\ socket[u] # "greeting"
        BY <1>1, <2>1, <2>2, <2>5, <3>1, WasOnlyHandler
      <3>3. <<u, v>> \notin failed
        BY <2>2, <2>5, OverlapsKnownNext
      <3>4. handler[h].step = "refused"
        BY <2>1, <2>2, <2>5, <3>3
      <3>5. socket[u] = "on" /\ socket'[u] = "on"
        BY <1>1, <3>1, <3>2 DEF FriendsTypeOK
      <3>6. Told(u, v)
        BY <1>1, <3>2, <3>4, <3>5 DEF PairRight, TellsRight
      <3>7. Told(u, v)'
        BY <2>1, <3>1, <3>6 DEF Told, Known
      <3>8. Busy(handler', u, v) = {}
        BY <1>1, <2>1, <3>2 DEF Busy, FriendsTypeOK
      <3> QED BY <3>5, <3>7, <3>8 DEF TellsRight
    <2> QED BY <2>4, <2>5 DEF PairRight
  <1> QED BY <1>3, <1>4, <1>5, <1>6

LEMMA FriendsInvNext ==
  FriendsTypeInv /\ FriendsTypeInv' /\ FriendsInv /\ [FriendsNext]_friendsVars => FriendsInv'
  <1> SUFFICES ASSUME FriendsTypeInv, FriendsTypeInv', FriendsInv, [FriendsNext]_friendsVars
               PROVE  FriendsInv'
    OBVIOUS
  <1>1. CASE UNCHANGED friendsVars
    <2>1. UNCHANGED <<friend, socket, social, told, handler, unsettled>>
      BY <1>1 DEF friendsVars
    <2>2. OverlapsKnown'
      BY <2>1 DEF FriendsInv, OverlapsKnown, Busy
    <2>3. ASSUME NEW u \in Users, NEW v \in Users PROVE PairRight(u, v)'
      <3>1. \A r : WillBeTold(u, v, r)' <=> WillBeTold(u, v, r)
        BY <2>1 DEF WillBeTold, Known, TellAccount
      <3>2. (Told(u, v)' <=> Told(u, v)) /\ (ReadRight(u, v)' <=> ReadRight(u, v))
        BY <2>1 DEF Told, Known, ReadRight
      <3> QED BY <2>1, <3>1, <3>2 DEF FriendsInv, PairRight, TellsRight
    <2> QED BY <2>2, <2>3 DEF FriendsInv
  <1>2. ASSUME NEW w \in Users,
               Greet(w) \/ ReadFriends(w) \/ ReadReferences(w) \/ SendSocial(w) \/ CloseSocket(w)
        PROVE  FriendsInv'
    <2>1. OverlapsKnown'
      BY <1>2, OverlapsKnownNext DEF Greet, ReadFriends, ReadReferences, SendSocial, CloseSocket
    <2> QED BY <1>2, <2>1, SnapshotPairs DEF FriendsInv
  <1>3. ASSUME NEW h \in Handlers,
               \/ \E w, x \in Users, op \in {"add", "modify", "delete"}, label \in Labels \cup {NoRow} :
                    Ask(h, op, w, x, label)
               \/ AddExecutes(h) \/ ModifyExecutes(h) \/ DeleteFriendExecutes(h)
               \/ AnnounceFriend(h) \/ AddRefused(h) \/ ModifyThrows(h) \/ ChangeFails(h)
        PROVE  FriendsInv'
    <2>1. OverlapsKnown'
      BY <1>3, OverlapsKnownNext DEF Ask, AddExecutes, ModifyExecutes, DeleteFriendExecutes, HandlerTo,
         AnnounceFriend, AddRefused, ModifyThrows, ChangeFails
    <2> QED BY <1>3, <2>1, HandlerPairs DEF FriendsInv
  <1>4. CASE FriendsRestart
    BY <1>4 DEF FriendsRestart, FriendsInv, OverlapsKnown, PairRight
  <1> QED BY <1>1, <1>2, <1>3, <1>4 DEF FriendsNext

\* FriendsViewAgrees: what a client was told of another account is what the rows say.
THEOREM FriendsViewsAgree == FriendsSpec => []FriendsViewAgrees
  <1>1. FriendsTypeInv /\ FriendsInv => FriendsViewAgrees
    BY DEF FriendsInv, PairRight, TellsRight, Told, Known, FriendsViewAgrees
  <1>2. FriendsInit => FriendsTypeInv /\ FriendsInv
    BY FriendsTypeInit, FriendsInvInit
  <1>3. FriendsTypeInv /\ FriendsInv /\ [FriendsNext]_friendsVars => (FriendsTypeInv /\ FriendsInv)'
    BY FriendsTypeNext, FriendsInvNext
  <1> QED BY <1>1, <1>2, <1>3, PTL DEF FriendsSpec

-----------------------------------------------------------------------------
(***************************************************************************)
(* OAuth.                                                                  *)
(***************************************************************************)

\* A row that is there is what its state was made for, and was not exchanged.
RowsRight ==
  \A s \in States :
    /\ authorization[s] # Absent => authorization[s] = minted[s]
    /\ exchanges[s] <= 1
    /\ exchanges[s] = 1 => authorization[s] = Absent
    /\ minted[s] = Absent => exchanges[s] = 0

\* What is known of a request at each of its steps, and what its answer tells.
FlowRight(r) ==
  /\ r.row # Absent => r.query.state \in States /\ r.row = minted[r.query.state]
                       /\ minted[r.query.state] # Absent
  /\ r.step = "find" => r.row = Absent /\ r.query.state # Absent
  /\ r.step \in {"fetch", "subject"} => r.query.error = Absent
  /\ r.step = "subject" => r.response.status = 200 /\ r.response.access_token
  /\ r.step # "ended" => r.answer = 0
  /\ r.answer = 400 => r.row = Absent
  /\ r.answer = 502 => r.response # NoResponse
  /\ r.answer = 200 => r.query.error = Absent /\ r.response.access_token

OAuthInv ==
  OAuthTypeOK /\ RowsRight /\ \A f \in Flows : flow[f] # Absent => FlowRight(flow[f])

-----------------------------------------------------------------------------
LEMMA OAuthStarts == OAuthInit => OAuthInv
  BY DEF OAuthInit, OAuthInv, OAuthTypeOK, RowsRight, SourceKinds

\* Only request f goes on, and it ends up right.
LEMMA OneFlow ==
  ASSUME OAuthInv, NEW f \in Flows, NEW r \in FlowRecords,
         flow' = [flow EXCEPT ![f] = r], minted' = minted, FlowRight(r)
  PROVE  /\ flow' \in [Flows -> FlowRecords \cup {Absent}]
         /\ \A g \in Flows : (flow[g] # Absent => FlowRight(flow[g]))'
  <1>1. flow' \in [Flows -> FlowRecords \cup {Absent}]
    BY DEF OAuthInv, OAuthTypeOK
  <1>2. \A g \in Flows : flow'[g] = IF g = f THEN r ELSE flow[g]
    BY DEF OAuthInv, OAuthTypeOK
  <1>3. \A g \in Flows : flow'[g] # Absent => FlowRight(flow'[g])
    BY <1>2 DEF OAuthInv
  <1> QED BY <1>1, <1>3 DEF FlowRight

\* A step of one request that leaves states, rows and exchanges alone.
LEMMA OneFlowAlone ==
  ASSUME OAuthInv, NEW f \in Flows, NEW r \in FlowRecords,
         flow' = [flow EXCEPT ![f] = r], FlowRight(r),
         UNCHANGED <<sources, authorization, minted, exchanges>>
  PROVE  OAuthInv'
  <1>1. OAuthTypeOK'
    BY OneFlow DEF OAuthInv, OAuthTypeOK
  <1>2. RowsRight'
    BY DEF OAuthInv, RowsRight
  <1> QED BY <1>1, <1>2, OneFlow DEF OAuthInv

\* The request of a step that goes on.
LEMMA FlowKnown ==
  ASSUME OAuthInv, NEW f \in Flows, flow[f] # Absent
  PROVE  flow[f] \in FlowRecords /\ FlowRight(flow[f])
  BY DEF OAuthInv, OAuthTypeOK

\* An answer: only the step and the status are new.
LEMMA EndedFields ==
  ASSUME NEW r \in FlowRecords, NEW status \in {200, 400, 500, 502}
  PROVE  /\ Ended(r, status) \in FlowRecords
         /\ Ended(r, status).step = "ended" /\ Ended(r, status).answer = status
         /\ Ended(r, status).row = r.row /\ Ended(r, status).query = r.query
         /\ Ended(r, status).response = r.response
  <1> DEFINE s == [r EXCEPT !.step = "ended"]
  <1>1. s \in FlowRecords /\ s.step = "ended" /\ s.row = r.row /\ s.query = r.query
          /\ s.response = r.response
    BY DEF FlowRecords
  <1>2. Ended(r, status) = [s EXCEPT !.answer = status]
    BY DEF Ended
  <1> HIDE DEF s
  <1> QED BY <1>1, <1>2 DEF FlowRecords

LEMMA BeginsRight ==
  ASSUME OAuthInv, NEW key \in Sources, NEW redirect \in Redirects, BeginSignIn(key, redirect)
  PROVE  OAuthInv'
  <1>1. PICK s \in States :
          /\ minted[s] = Absent
          /\ minted' = [minted EXCEPT ![s] = [source |-> key, redirect |-> redirect]]
          /\ authorization' = [authorization EXCEPT ![s] = minted'[s]]
    BY DEF BeginSignIn
  <1>2. [source |-> key, redirect |-> redirect] \in Rows
    BY DEF Rows
  <1>3. /\ \A t \in States : minted'[t] = IF t = s THEN [source |-> key, redirect |-> redirect]
                                          ELSE minted[t]
        /\ \A t \in States : authorization'[t] = IF t = s THEN minted'[s] ELSE authorization[t]
    BY <1>1 DEF OAuthInv, OAuthTypeOK
  <1>4. OAuthTypeOK'
    BY <1>1, <1>2, <1>3 DEF BeginSignIn, OAuthInv, OAuthTypeOK
  <1>5. RowsRight'
    BY <1>1, <1>2, <1>3, AbsentAssumption DEF BeginSignIn, OAuthInv, RowsRight
  <1>6. ASSUME NEW f \in Flows, flow[f] # Absent PROVE FlowRight(flow[f])'
    BY <1>1, <1>3, <1>6 DEF BeginSignIn, OAuthInv, FlowRight
  <1>7. flow' = flow
    BY DEF BeginSignIn
  <1> QED BY <1>4, <1>5, <1>6, <1>7 DEF OAuthInv

LEMMA EndsRight ==
  ASSUME OAuthInv, NEW f \in Flows, NEW query \in Queries, EndSignIn(f, query)
  PROVE  OAuthInv'
  <1> DEFINE new == NewFlow(query)
  <1>1. new \in FlowRecords
    BY DEF NewFlow, FlowRecords
  <1>2. new.row = Absent
    BY DEF NewFlow
  <1>3. FlowRight(Ended(new, 400))
    <2> HIDE DEF new
    <2> QED BY <1>1, <1>2, EndedFields DEF FlowRight
  <1>4. query.state # Absent => FlowRight(new)
    BY DEF NewFlow, FlowRight
  <1>5. QueryStatus(QueryError(query)) = 400 \/ QueryError(query) = Absent
    BY DEF QueryStatus, QueryError, Unknown
  <1>6. CASE QueryError(query) # Absent \/ query.state = Absent
    <2>1. flow' = [flow EXCEPT ![f] = Ended(new, 400)]
      BY <1>5, <1>6 DEF EndSignIn
    <2>2. Ended(new, 400) \in FlowRecords
      <3> HIDE DEF new
      <3> QED BY <1>1, EndedFields
    <2> QED BY <2>1, <2>2, <1>3, OneFlowAlone DEF EndSignIn
  <1>7. CASE QueryError(query) = Absent /\ query.state # Absent
    <2>1. flow' = [flow EXCEPT ![f] = new]
      BY <1>7 DEF EndSignIn
    <2> QED BY <2>1, <1>1, <1>4, <1>7, OneFlowAlone DEF EndSignIn
  <1> QED BY <1>6, <1>7

\* What an answer has to be for a request that was right.
Blamed(r, status) ==
  /\ status = 400 => r.row = Absent
  /\ status = 502 => r.response # NoResponse
  /\ status = 200 => r.query.error = Absent /\ r.response.access_token

LEMMA EndedRight ==
  ASSUME NEW r \in FlowRecords, NEW status \in {200, 400, 500, 502}, Blamed(r, status),
         r.row # Absent => r.query.state \in States /\ r.row = minted[r.query.state]
                           /\ minted[r.query.state] # Absent
  PROVE  FlowRight(Ended(r, status))
  BY EndedFields DEF FlowRight, Blamed

\* A request that is answered, without anything else that happens.
LEMMA AnsweredRight ==
  ASSUME OAuthInv, NEW f \in Flows, NEW status \in {200, 400, 500, 502},
         flow[f] # Absent, AnswerFlow(f, status), Blamed(flow[f], status),
         UNCHANGED <<sources, authorization, minted, exchanges>>
  PROVE  OAuthInv'
  <1>1. flow[f] \in FlowRecords /\ FlowRight(flow[f])
    BY FlowKnown
  <1>2. Ended(flow[f], status) \in FlowRecords
    BY <1>1, EndedFields
  <1>3. FlowRight(Ended(flow[f], status))
    BY <1>1, EndedRight DEF FlowRight
  <1>4. flow' = [flow EXCEPT ![f] = Ended(flow[f], status)]
    BY DEF AnswerFlow
  <1> DEFINE r == Ended(flow[f], status)
  <1>5. r \in FlowRecords /\ FlowRight(r) /\ flow' = [flow EXCEPT ![f] = r]
    BY <1>2, <1>3, <1>4
  <1>6. /\ sources' = sources /\ authorization' = authorization
        /\ minted' = minted /\ exchanges' = exchanges
    OBVIOUS
  <1> HIDE DEF r
  <1> QED BY ONLY OAuthInv, f \in Flows, <1>5, <1>6, OneFlowAlone

LEMMA FoundRight ==
  ASSUME OAuthInv, NEW f \in Flows, StateFound(f)
  PROVE  OAuthInv'
  <1> DEFINE s == flow[f].query.state
             error == CodeError(flow[f].query)
             next == [flow[f] EXCEPT !.step = "fetch", !.row = authorization[s]]
  <1>1. flow[f] \in FlowRecords /\ FlowRight(flow[f]) /\ flow[f].step = "find"
    BY FlowKnown DEF StateFound, FlowAt
  <1>2. s \in States /\ authorization[s] # Absent
    BY <1>1, JoinedAssumption DEF StateFound, RowOf, FlowRight, FlowRecords, Queries
  <1>3. authorization[s] \in Rows /\ authorization[s] = minted[s]
    BY <1>2 DEF OAuthInv, OAuthTypeOK, RowsRight
  <1>4. /\ authorization' = [authorization EXCEPT ![s] = Absent]
        /\ sources' = sources /\ minted' = minted
    BY DEF StateFound
  <1>5. CASE flow' = [flow EXCEPT ![f] = Ended(flow[f], 400)] /\ exchanges' = exchanges
    <2>1. Ended(flow[f], 400) \in FlowRecords
      BY <1>1, EndedFields
    <2>2. FlowRight(Ended(flow[f], 400))
      BY <1>1, EndedRight DEF Blamed, FlowRight
    <2> DEFINE r == Ended(flow[f], 400)
    <2>3. r \in FlowRecords /\ FlowRight(r) /\ flow' = [flow EXCEPT ![f] = r]
      BY <2>1, <2>2, <1>5
    <2> HIDE DEF r
    <2>4. OAuthTypeOK'
      BY <2>3, <1>4, <1>5, OneFlow DEF OAuthInv, OAuthTypeOK
    <2>5. RowsRight'
      BY <1>2, <1>4, <1>5 DEF OAuthInv, OAuthTypeOK, RowsRight
    <2> QED BY <2>3, <2>4, <2>5, <1>4, OneFlow DEF OAuthInv
  <1>6. CASE /\ error = Absent
             /\ flow' = [flow EXCEPT ![f] = next]
             /\ exchanges' = [exchanges EXCEPT ![s] = @ + 1]
    <2>1. flow[f].query.error = Absent
      BY <1>6, AbsentAssumption DEF CodeError
    <2>2. /\ next \in FlowRecords /\ next.step = "fetch" /\ next.row = minted[s]
          /\ next.query = flow[f].query /\ next.answer = flow[f].answer
      <3> DEFINE one == [flow[f] EXCEPT !.step = "fetch"]
      <3>1. /\ one \in FlowRecords /\ one.step = "fetch" /\ one.query = flow[f].query
            /\ one.answer = flow[f].answer
        BY <1>1 DEF FlowRecords
      <3>2. next = [one EXCEPT !.row = authorization[s]]
        OBVIOUS
      <3> HIDE DEF one, next
      <3> QED BY <1>3, <3>1, <3>2 DEF FlowRecords
    <2>3. FlowRight(next)
      BY <2>1, <2>2, <1>1, <1>2, <1>3 DEF FlowRight
    <2>4. exchanges[s] = 0
      BY <1>2 DEF OAuthInv, OAuthTypeOK, RowsRight
    <2> HIDE DEF next
    <2>5. OAuthTypeOK'
      BY <2>2, <2>3, <1>2, <1>4, <1>6, OneFlow DEF OAuthInv, OAuthTypeOK
    <2>6. RowsRight'
      BY <2>4, <1>2, <1>3, <1>4, <1>6 DEF OAuthInv, OAuthTypeOK, RowsRight
    <2> QED BY <2>2, <2>3, <2>5, <2>6, <1>4, <1>6, OneFlow DEF OAuthInv
  <1> QED
    BY <1>5, <1>6 DEF StateFound, GoesOn, AnswerFlow, QueryStatus, CodeError, Defined

LEMMA TokenRight ==
  ASSUME OAuthInv, NEW f \in Flows, NEW response \in TokenResponses, TokenAnswered(f, response)
  PROVE  OAuthInv'
  <1> DEFINE r == [flow[f] EXCEPT !.response = response]
             next == [r EXCEPT !.step = "subject"]
             status == TokenStatus(TokenError(response))
  <1>1. flow[f] \in FlowRecords /\ FlowRight(flow[f]) /\ flow[f].step = "fetch"
    BY FlowKnown DEF TokenAnswered, FlowAt
  <1>2. /\ r \in FlowRecords /\ r.response = response /\ r.row = flow[f].row
        /\ r.query = flow[f].query /\ r.answer = flow[f].answer /\ r.step = "fetch"
    BY <1>1 DEF FlowRecords
  <1>3. response # NoResponse
    BY DEF TokenResponses, NoResponse
  <1>4. CASE TokenError(response) = Absent
    <2>1. response.status = 200 /\ response.access_token
      BY <1>4, AbsentAssumption DEF TokenError, IsTokenSuccessfulResponse
    <2>2. /\ next \in FlowRecords /\ next.step = "subject" /\ next.response = response
          /\ next.row = r.row /\ next.query = r.query /\ next.answer = r.answer
      <3> HIDE DEF r
      <3> QED BY <1>2 DEF FlowRecords
    <2> HIDE DEF r
    <2>3. flow' = [flow EXCEPT ![f] = next]
      BY <1>4 DEF TokenAnswered, r
    <2>4. FlowRight(next)
      <3> HIDE DEF next
      <3> QED BY <1>1, <1>2, <2>1, <2>2 DEF FlowRight
    <2> HIDE DEF next
    <2> QED BY <2>2, <2>3, <2>4, OneFlowAlone DEF TokenAnswered
  <1>5. CASE TokenError(response) # Absent
    <2>1. status \in {500, 502}
      BY DEF TokenStatus, Defined, Unknown
    <2> HIDE DEF r
    <2>2. flow' = [flow EXCEPT ![f] = Ended(r, status)]
      BY <1>5 DEF TokenAnswered, r
    <2> HIDE DEF status
    <2>3. Ended(r, status) \in FlowRecords
      BY <1>2, <2>1, EndedFields
    <2>4. FlowRight(Ended(r, status))
      BY <1>1, <1>2, <1>3, <2>1, EndedRight DEF Blamed, FlowRight
    <2> DEFINE e == Ended(r, status)
    <2>5. e \in FlowRecords /\ FlowRight(e) /\ flow' = [flow EXCEPT ![f] = e]
      BY <2>2, <2>3, <2>4
    <2> HIDE DEF e
    <2> QED BY <2>5, OneFlowAlone DEF TokenAnswered
  <1> QED BY <1>4, <1>5

LEMMA RefusedRight ==
  ASSUME OAuthInv, NEW f \in Flows, StateRefused(f)
  PROVE  OAuthInv'
  <1>1. flow[f] # Absent /\ FlowRight(flow[f]) /\ flow[f].step = "find"
    BY FlowKnown DEF StateRefused, FlowAt
  <1>2. Blamed(flow[f], 400)
    BY <1>1 DEF Blamed, FlowRight
  <1> QED BY <1>1, <1>2, AnsweredRight DEF StateRefused

LEMMA SubjectRight ==
  ASSUME OAuthInv, NEW f \in Flows, NEW subject \in SubjectAnswers, SubjectAnswered(f, subject)
  PROVE  OAuthInv'
  <1> DEFINE status == SubjectStatus(sources[flow[f].row.source], flow[f].response, subject)
  <1>1. flow[f] # Absent /\ FlowRight(flow[f]) /\ flow[f].step = "subject"
    BY FlowKnown DEF SubjectAnswered, FlowAt
  <1>2. status \in {200, 500, 502}
    BY DEF SubjectStatus
  <1> HIDE DEF status
  <1>3. Blamed(flow[f], status)
    BY <1>1, <1>2 DEF Blamed, FlowRight, NoResponse
  <1> QED BY <1>1, <1>2, <1>3, AnsweredRight DEF SubjectAnswered, status

LEMMA FailedRight ==
  ASSUME OAuthInv, NEW f \in Flows, FlowFails(f)
  PROVE  OAuthInv'
  <1>1. flow[f] # Absent
    BY DEF FlowFails, FlowAt
  <1>2. TokenStatus(Other) = 500
    BY DEF TokenStatus, Other, Defined, Unknown
  <1>3. Blamed(flow[f], 500)
    BY DEF Blamed
  <1> QED BY <1>1, <1>2, <1>3, AnsweredRight DEF FlowFails

LEMMA ClosedRight ==
  ASSUME OAuthInv, NEW f \in Flows, CloseFlow(f)
  PROVE  OAuthInv'
  <1>1. OAuthTypeOK' /\ RowsRight'
    BY DEF OAuthInv, OAuthTypeOK, RowsRight, CloseFlow
  <1>2. ASSUME NEW g \in Flows, flow'[g] # Absent PROVE FlowRight(flow[g])'
    BY <1>2 DEF OAuthInv, OAuthTypeOK, CloseFlow, FlowRight
  <1> QED BY <1>1, <1>2 DEF OAuthInv

LEMMA ReconfiguredRight ==
  ASSUME OAuthInv, Reconfigure
  PROVE  OAuthInv'
  BY DEF OAuthInv, OAuthTypeOK, RowsRight, Reconfigure

LEMMA OAuthSteps == OAuthInv /\ [OAuthNext]_oauthVars => OAuthInv'
  <1> SUFFICES ASSUME OAuthInv, [OAuthNext]_oauthVars PROVE OAuthInv'
    OBVIOUS
  <1>1. ASSUME NEW key \in Sources, NEW redirect \in Redirects, BeginSignIn(key, redirect)
        PROVE  OAuthInv'
    BY <1>1, BeginsRight
  <1>2. ASSUME NEW f \in Flows, NEW query \in Queries, EndSignIn(f, query)
        PROVE  OAuthInv'
    BY <1>2, EndsRight
  <1>3. ASSUME NEW f \in Flows, StateRefused(f) \/ StateFound(f) PROVE OAuthInv'
    BY <1>3, RefusedRight, FoundRight
  <1>4. ASSUME NEW f \in Flows, NEW response \in TokenResponses, TokenAnswered(f, response)
        PROVE  OAuthInv'
    BY <1>4, TokenRight
  <1>5. ASSUME NEW f \in Flows, NEW subject \in SubjectAnswers, SubjectAnswered(f, subject)
        PROVE  OAuthInv'
    BY <1>5, SubjectRight
  <1>6. ASSUME NEW f \in Flows, FlowFails(f) \/ CloseFlow(f) PROVE OAuthInv'
    BY <1>6, FailedRight, ClosedRight
  <1>7. CASE Reconfigure
    BY <1>7, ReconfiguredRight
  <1>8. CASE UNCHANGED oauthVars
    <2>1. OAuthTypeOK' /\ RowsRight'
      BY <1>8 DEF OAuthInv, OAuthTypeOK, RowsRight, oauthVars
    <2>2. ASSUME NEW f \in Flows, flow[f] # Absent PROVE FlowRight(flow[f])'
      BY <1>8, <2>2 DEF OAuthInv, FlowRight, oauthVars
    <2> QED BY <1>8, <2>1, <2>2 DEF OAuthInv, oauthVars
  <1> QED BY <1>1, <1>2, <1>3, <1>4, <1>5, <1>6, <1>7, <1>8 DEF OAuthNext

\* The sign-ins' variables have their types, whatever queries and answers come.
THEOREM OAuthTypesHold == OAuthSpec => []OAuthTypeOK
  <1>1. OAuthInv => OAuthTypeOK
    BY DEF OAuthInv
  <1> QED BY OAuthStarts, OAuthSteps, <1>1, PTL DEF OAuthSpec

\* However many requests bring the same state, one token is asked for with it, at
\* the source and with the redirect URI it was made for; and the status of an
\* answer blames the query, the provider or neither for what they did.
THEOREM SignInIsSound == OAuthSpec => []SignInSound
  <1>1. OAuthInv => SignInSound
    BY FlowKnown DEF OAuthInv, RowsRight, FlowRight, SignInSound, ExchangedOnce, BlameAgrees
  <1> QED BY OAuthStarts, OAuthSteps, <1>1, PTL DEF OAuthSpec

-----------------------------------------------------------------------------
(***************************************************************************)
(* GameRooms.                                                              *)
(***************************************************************************)

InCourt(pos) == pos \in BallRadius .. Height - BallRadius \cup {NaN}

\* Whatever a frame is, a goal or none leaves the ball in the court, and nothing
\* else of it changes but the score.
LEMMA GoalsCounted ==
  ASSUME NEW f \in Frames
  PROVE  /\ GetScore(f) \in Frames
         /\ GetScore(f).id = f.id /\ GetScore(f).paddle = f.paddle
         /\ InCourt(GetScore(f).ball.pos)
  <1> DEFINE served == [pos |-> Height \div 2, vel |-> Serve]
  <1>1. /\ served \in Bodies /\ InCourt(served.pos)
        /\ Height \in Nat /\ BallRadius \in Nat /\ NaN \notin Int
    BY GameAssumption DEF Bodies, InCourt
  <1>2. ASSUME NEW p \in Players
        PROVE  LET g == [f EXCEPT !.score[p] = @ + 1, !.ball = served]
               IN  g \in Frames /\ g.id = f.id /\ g.paddle = f.paddle /\ g.ball = served
    <2> DEFINE one == [f EXCEPT !.score[p] = @ + 1]
               two == [one EXCEPT !.ball = served]
    <2>1. one \in Frames /\ one.id = f.id /\ one.paddle = f.paddle
      BY DEF Frames, Players
    <2>2. two \in Frames /\ two.id = f.id /\ two.paddle = f.paddle /\ two.ball = served
      <3> HIDE DEF one, served
      <3> QED BY <1>1, <2>1 DEF Frames
    <2> QED BY <2>2
  <1>3. CASE Less(f.ball.pos, BallRadius)
    BY <1>1, <1>2, <1>3 DEF GetScore, Players
  <1>4. CASE ~Less(f.ball.pos, BallRadius) /\ Less(Height - BallRadius, f.ball.pos)
    BY <1>1, <1>2, <1>4 DEF GetScore, Players
  <1>5. CASE ~Less(f.ball.pos, BallRadius) /\ ~Less(Height - BallRadius, f.ball.pos)
    <2>1. f.ball.pos \in Int \cup {NaN}
      BY DEF Frames, Bodies
    <2> QED BY <1>1, <1>5, <2>1 DEF GetScore, Less, InCourt
  <1> QED BY <1>3, <1>4, <1>5

LEMMA ReflectionIsBody ==
  ASSUME NEW f \in Frames, NEW p \in Players, f.ball.pos # NaN
  PROVE  Reflected(f, p) \in Bodies
  <1>1. /\ f.ball.pos \in Int /\ f.ball.vel \in Int
        /\ f.paddle[p].pos \in Int /\ f.paddle[p].vel \in Int
    BY DEF Frames, Bodies, Paddles
  <1>2. f.paddle[p].vel \div 8 \in Int /\ Reach \in Int
    BY <1>1, GameAssumption
  <1> QED BY <1>1, <1>2 DEF Reflected, Bodies

LEMMA EngineKeepsCourt ==
  ASSUME NEW f \in Frames
  PROVE  /\ PhysicsEngine(f) \in Frames
         /\ PhysicsEngine(f).id = f.id /\ PhysicsEngine(f).paddle = f.paddle
         /\ InCourt(PhysicsEngine(f).ball.pos)
  <1> DEFINE hit == [p \in Players |-> Near(f, p) /\ (p = 2 => ~Near(f, 1))]
             ball == IF hit[1] THEN Reflected(f, 1) ELSE IF hit[2] THEN Reflected(f, 2)
                     ELSE f.ball
             limited == [ball EXCEPT !.vel = IF @ > MaxVelocity THEN MaxVelocity ELSE @]
             one == [f EXCEPT !.hit = hit]
             two == [one EXCEPT !.ball = limited]
  <1>1. hit \in [Players -> BOOLEAN] /\ \A p \in Players : hit[p] => f.ball.pos # NaN
    BY DEF Near
  <1>2. ball \in Bodies
    <2>1. f.ball \in Bodies
      BY DEF Frames
    <2> HIDE DEF hit
    <2> QED BY <1>1, <2>1, ReflectionIsBody DEF Players
  <1>3. limited \in Bodies
    <2> HIDE DEF ball
    <2> QED BY <1>2, GameAssumption DEF Bodies
  <1>4. one \in Frames /\ one.id = f.id /\ one.paddle = f.paddle
    <2> HIDE DEF hit
    <2> QED BY <1>1 DEF Frames
  <1>5. two \in Frames /\ two.id = f.id /\ two.paddle = f.paddle
    <2> HIDE DEF one, limited
    <2> QED BY <1>3, <1>4 DEF Frames
  <1>6. PhysicsEngine(f) = GetScore(two)
    BY DEF PhysicsEngine
  <1> HIDE DEF two
  <1> QED BY <1>5, <1>6, GoalsCounted

\* Frame g is f with a paddle of player p, after the goals of f were counted.
KeepsCourt(f, g, p, own) ==
  /\ g \in Frames /\ g.id = f.id /\ InCourt(g.ball.pos)
  /\ g.paddle = [f.paddle EXCEPT ![p] = own]

LEMMA MergeKeepsCourt ==
  ASSUME NEW f \in Frames, NEW frame \in Frames, NEW p \in Players
  PROVE  KeepsCourt(f, MergedFrame(p, f, frame), p, frame.paddle[p])
  <1> DEFINE ball == IF frame.hit[1] \/ frame.hit[2] THEN frame.ball ELSE f.ball
             one == [f EXCEPT !.paddle[p] = frame.paddle[p]]
             two == [one EXCEPT !.ball = ball]
  <1>1. ball \in Bodies
    BY DEF Frames
  <1>2. /\ one \in Frames /\ one.id = f.id /\ one.ball = f.ball
        /\ one.paddle = [f.paddle EXCEPT ![p] = frame.paddle[p]]
    BY DEF Frames
  <1>3. two \in Frames /\ two.id = f.id /\ two.paddle = one.paddle
    <2> HIDE DEF one, ball
    <2> QED BY <1>1, <1>2 DEF Frames
  <1>4. MergedFrame(p, f, frame) = GetScore(two)
    BY DEF MergedFrame
  <1> HIDE DEF two
  <1> QED BY <1>2, <1>3, <1>4, GoalsCounted DEF KeepsCourt

LEMMA LaterKeepsCourt ==
  ASSUME NEW f \in Frames, NEW p \in Players, NEW paddle \in Paddles, NEW ball \in Bodies
  PROVE  KeepsCourt(f, LaterFrame(p, f, paddle, ball), p, paddle)
  <1> DEFINE one == [f EXCEPT !.paddle[p] = paddle]
             two == [one EXCEPT !.ball = ball]
  <1>1. one \in Frames /\ one.id = f.id /\ one.paddle = [f.paddle EXCEPT ![p] = paddle]
    BY DEF Frames
  <1>2. two \in Frames /\ two.id = f.id /\ two.paddle = one.paddle
    <2> HIDE DEF one
    <2> QED BY <1>1 DEF Frames
  <1>3. LaterFrame(p, f, paddle, ball) = PhysicsEngine(two)
    BY DEF LaterFrame
  <1> HIDE DEF two
  <1> QED BY <1>1, <1>2, <1>3, EngineKeepsCourt DEF KeepsCourt

LEMMA MovedBodies ==
  /\ \A b \in Bodies : Moved(b) \in Bodies
  /\ \A b \in Paddles : Moved(b) \in Paddles
  /\ Rest \in Bodies /\ Rest \in Paddles
  BY GameAssumption DEF Moved, Bodies, Paddles, Plus, Rest

\* What a turn leaves for the next one.
Left == [paddle : Paddles, ball : Bodies, frame : Frames]

\* What a turn may make of a queued frame: the paddle of the others stays, and
\* that of the player in the frame of this id becomes the one it sent.
FrameRight(p, frame, f, g) ==
  /\ g \in Frames /\ g.id = f.id
  /\ f.id < frame.id => g = f
  /\ f.id >= frame.id => InCourt(g.ball.pos)
  /\ f.id = frame.id => g.paddle[p] = frame.paddle[p]
  /\ \A q \in Players \ {p} : g.paddle[q] = f.paddle[q]

TurnRight(p, frame, f, next) == next \in Left /\ FrameRight(p, frame, f, next.frame)

LEMMA TurnTyped ==
  ASSUME NEW p \in Players, NEW frame \in Frames, NEW f \in Frames, NEW left \in Left
  PROVE  TurnRight(p, frame, f, SyncTurn(p, frame, f, left))
  <1> DEFINE paddle == Moved(left.paddle)
             ball == Moved(left.ball)
             merged == MergedFrame(p, f, frame)
             later == LaterFrame(p, f, paddle, ball)
             next == SyncTurn(p, frame, f, left)
  <1>0. f.id \in Nat /\ frame.id \in Nat /\ f.paddle \in [Players -> Paddles]
    BY DEF Frames
  <1>1. paddle \in Paddles /\ ball \in Bodies
    BY MovedBodies DEF Left
  <1>2. /\ merged \in Frames /\ merged.id = f.id /\ InCourt(merged.ball.pos)
        /\ merged.paddle = [f.paddle EXCEPT ![p] = frame.paddle[p]]
    <2>1. KeepsCourt(f, MergedFrame(p, f, frame), p, frame.paddle[p])
      BY MergeKeepsCourt
    <2> QED BY <2>1 DEF KeepsCourt
  <1>3. /\ later \in Frames /\ later.id = f.id /\ InCourt(later.ball.pos)
        /\ later.paddle = [f.paddle EXCEPT ![p] = paddle]
    BY <1>1, LaterKeepsCourt DEF KeepsCourt
  <1>4. CASE f.id = frame.id
    <2>1. next = [paddle |-> merged.paddle[p], ball |-> merged.ball, frame |-> merged]
      BY <1>4 DEF SyncTurn
    <2>2. merged.paddle[p] \in Paddles /\ merged.ball \in Bodies
      BY <1>2 DEF Frames
    <2> HIDE DEF merged, next
    <2>3. TurnRight(p, frame, f, next)
      BY <1>0, <1>2, <1>4, <2>1, <2>2 DEF Left, TurnRight, FrameRight
    <2> QED BY <2>3 DEF next
  <1>5. CASE f.id > frame.id
    <2>1. next = [paddle |-> paddle, ball |-> ball, frame |-> later]
      BY <1>0, <1>5 DEF SyncTurn
    <2> HIDE DEF later, next, paddle, ball
    <2>3. TurnRight(p, frame, f, next)
      BY <1>0, <1>1, <1>3, <1>5, <2>1 DEF Left, TurnRight, FrameRight
    <2> QED BY <2>3 DEF next
  <1>6. CASE f.id < frame.id
    <2>1. next = [paddle |-> left.paddle, ball |-> left.ball, frame |-> f]
      BY <1>0, <1>6 DEF SyncTurn
    <2> HIDE DEF next
    <2>3. TurnRight(p, frame, f, next)
      BY <1>0, <1>6, <2>1 DEF Left, TurnRight, FrameRight
    <2> QED BY <2>3 DEF next
  <1> QED BY <1>0, <1>4, <1>5, <1>6

\* The loop has a result, and each turn of it leaves what the next one can use.
LEMMA TurnsTaken ==
  ASSUME NEW p \in Players, NEW frames \in Seq(Entries), NEW frame \in Frames
  PROVE  \A i \in 1 .. Len(frames) :
           \E left \in Left :
             SyncTurns(p, frames, frame)[i] = SyncTurn(p, frame, frames[i].frame, left)
  <1> DEFINE n == Len(frames)
             start == [paddle |-> Rest, ball |-> Rest, frame |-> frame]
             step == [x \in (1 .. n) \X Left |-> SyncTurn(p, frame, frames[x[1]].frame, x[2])]
             Turns(t) == t = [i \in 0 .. n |->
                                IF i = 0 THEN start
                                ELSE SyncTurn(p, frame, frames[i].frame, t[i - 1])]
             turns == SyncTurns(p, frames, frame)
  <1>0. \A i \in 1 .. n : frames[i].frame \in Frames
    <2>1. \A i \in 1 .. n : frames[i] \in Entries
      OBVIOUS
    <2> QED BY <2>1 DEF Entries
  <1>1. start \in Left
    BY MovedBodies DEF Left
  <1>2. \A i \in 1 .. n, left \in Left :
          SyncTurn(p, frame, frames[i].frame, left) \in Left
    BY <1>0, TurnTyped DEF TurnRight
  <1>3. step \in [(1 .. n) \X Left -> Left]
    <2> HIDE DEF n
    <2> QED BY <1>2
  <1>4. \E t : Turns(t)
    <2>1. \E t : Recurs(t, n, Left, start, step)
      <3>1. n \in Nat
        OBVIOUS
      <3>2. step \in [(1 .. n) \X Left -> Left] /\ start \in Left
        BY <1>1, <1>3
      <3> HIDE DEF n, start, step
      <3> QED BY <3>2, <3>1, RecursionSolved, Zenon
    <2>2. PICK t : Recurs(t, n, Left, start, step)
      BY <2>1
    <2>3. ASSUME NEW i \in 1 .. n
          PROVE  t[i] = SyncTurn(p, frame, frames[i].frame, t[i - 1])
      <3>1. t[i] = step[<<i, t[i - 1]>>] /\ t[i - 1] \in Left
        <4>1. n \in Nat
          OBVIOUS
        <4> HIDE DEF n, start, step, Turns, turns
        <4> QED BY <2>2, <4>1 DEF Recurs
      <3> QED BY <3>1
    <2>4. t \in [0 .. n -> Left] /\ t[0] = start
      BY <2>2 DEF Recurs
    <2> HIDE DEF start, step
    <2>5. Turns(t)
      BY <2>3, <2>4
    <2> QED BY <2>5
  <1>5. Turns(turns)
    <2>1. turns = CHOOSE t : Turns(t)
      BY DEF SyncTurns
    <2> HIDE DEF Turns, turns
    <2> QED BY <1>4, <2>1
  <1>6. turns[0] = start /\ \A i \in 1 .. n :
          turns[i] = SyncTurn(p, frame, frames[i].frame, turns[i - 1])
    <2> HIDE DEF turns, start
    <2> QED BY <1>5
  <1> HIDE DEF turns, start
  <1> DEFINE T == {k \in Nat : k <= n => turns[k] \in Left}
  <1>7. ASSUME NEW k \in Nat, k \in T PROVE k + 1 \in T
    BY <1>2, <1>6, <1>7
  <1>8. 0 \in T
    BY <1>1, <1>6
  <1>9. Nat \subseteq T
    <2> HIDE DEF T
    <2> QED BY <1>7, <1>8, NatSetInduction
  <1>10. \A i \in 1 .. n : turns[i - 1] \in Left
    BY <1>9
  <1> QED BY <1>6, <1>10 DEF turns

SyncedRight(p, frame, frames, synced) ==
  /\ synced \in Seq(Entries) /\ Len(synced) = Len(frames)
  /\ \A i \in 1 .. Len(frames) :
       /\ synced[i].fixed = frames[i].fixed
       /\ FrameRight(p, frame, frames[i].frame, synced[i].frame)

LEMMA FramesSynced ==
  ASSUME NEW p \in Players, NEW frames \in Seq(Entries), NEW frame \in Frames
  PROVE  SyncedRight(p, frame, frames, SyncFrame(p, frames, frame))
  <1> DEFINE synced == SyncFrame(p, frames, frame)
             turns == SyncTurns(p, frames, frame)
  <1>1. \A i \in 1 .. Len(frames) : frames[i] \in Entries
    OBVIOUS
  <1>2. synced = [i \in 1 .. Len(frames) |-> [frames[i] EXCEPT !.frame = turns[i].frame]]
    BY DEF SyncFrame
  <1> HIDE DEF turns, synced
  <1>3. ASSUME NEW i \in 1 .. Len(frames)
        PROVE  FrameRight(p, frame, frames[i].frame, turns[i].frame)
    <2>1. PICK left \in Left : turns[i] = SyncTurn(p, frame, frames[i].frame, left)
      BY TurnsTaken DEF turns
    <2>2. frames[i].frame \in Frames
      BY <1>1 DEF Entries
    <2> QED BY <2>1, <2>2, TurnTyped DEF TurnRight
  <1>4. ASSUME NEW i \in 1 .. Len(frames)
        PROVE  /\ synced[i] \in Entries /\ synced[i].frame = turns[i].frame
               /\ synced[i].fixed = frames[i].fixed
    BY <1>1, <1>2, <1>3 DEF Entries, FrameRight
  <1>5. synced \in Seq(Entries) /\ Len(synced) = Len(frames)
    BY <1>2, <1>4
  <1>6. SyncedRight(p, frame, frames, synced)
    BY <1>3, <1>4, <1>5 DEF SyncedRight
  <1> QED BY <1>6 DEF synced

LEMMA NothingDropped ==
  ASSUME NEW frames \in Seq(Entries), \A i \in 1 .. Len(frames) : ~frames[i].fixed
  PROVE  DropFixed(frames) = frames
  <1> DEFINE First(n) == /\ n = Len(frames) + 1 \/ ~frames[n].fixed
                         /\ \A i \in 1 .. n - 1 : frames[i].fixed
             n == CHOOSE n \in 1 .. Len(frames) + 1 : First(n)
  <1>1. 1 \in 1 .. Len(frames) + 1 /\ First(1)
    OBVIOUS
  <1>2. n \in 1 .. Len(frames) + 1 /\ First(n)
    <2> HIDE DEF First
    <2> QED BY <1>1, Zenon
  <1>3. n = 1
    <2> HIDE DEF n
    <2> QED BY <1>2
  <1>4. DropFixed(frames) = SubSeq(frames, n, Len(frames))
    BY DEF DropFixed
  <1>5. SubSeq(frames, 1, Len(frames)) = frames
    OBVIOUS
  <1> HIDE DEF n
  <1> QED BY <1>3, <1>4, <1>5

-----------------------------------------------------------------------------
\* The queue is in order and nothing in it is ever fixed.
QueueInOrder ==
  \A i \in 1 .. Len(worldFrames) :
    /\ ~worldFrames[i].fixed /\ worldFrames[i].frame.id \in 1 .. MaxFrames
    /\ \A j \in 1 .. Len(worldFrames) :
         i < j => worldFrames[i].frame.id < worldFrames[j].frame.id

\* A frame that was simulated is still queued, so a newer one was not simulated.
SimulatedQueued ==
  \A k \in simulated : \E i \in 1 .. Len(worldFrames) : worldFrames[i].frame.id = k

\* In the first game nobody is ahead of the queue.
NobodyAhead == ~reused => \A p \in Players : Len(sent[p]) <= Len(worldFrames)

GameInv ==
  /\ GameTypeOK /\ QueueInOrder /\ SimulatedQueued /\ NobodyAhead
  /\ PaddlesKept /\ BallInPlay

LEMMA GameInitInv == GameInit => GameInv
  <1> SUFFICES ASSUME GameInit PROVE GameInv
    OBVIOUS
  <1>1. GameTypeOK
    <2>1. /\ worldFrames \in Seq(Entries) /\ simulated = {}
          /\ sent \in [Players -> Seq(Paddles)]
      BY DEF GameInit
    <2>2. players \in [Players -> BOOLEAN] /\ clients = {} /\ members \in 0 .. 3
      BY DEF GameInit
    <2>3. reused \in BOOLEAN
      BY Zenon DEF GameInit
    <2> QED BY <2>1, <2>2, <2>3 DEF GameTypeOK
  <1>2. worldFrames = <<>> /\ Len(worldFrames) = 0 /\ simulated = {}
    BY DEF GameInit
  <1>3. \A p \in Players : Len(sent[p]) = 0
    BY DEF GameInit
  <1> QED BY <1>1, <1>2, <1>3
      DEF GameInv, QueueInOrder, SimulatedQueued, NobodyAhead, PaddlesKept, BallInPlay

\* The frame that GetFrame makes of a stroke.
SentFrame(p, id, stroke) ==
  [id |-> id, ball |-> stroke.ball, score |-> [q \in Players |-> 0],
   paddle |-> [q \in Players |-> IF q = p THEN stroke.paddle ELSE Guess],
   hit |-> [q \in Players |-> q = p /\ stroke.hit]]

LEMMA SentFrameTyped ==
  ASSUME NEW p \in Players, NEW id \in Nat, NEW stroke \in Strokes
  PROVE  /\ SentFrame(p, id, stroke) \in Frames
         /\ SentFrame(p, id, stroke).id = id
         /\ SentFrame(p, id, stroke).paddle[p] = stroke.paddle
         /\ stroke.paddle \in Paddles
  <1>1. /\ stroke \in [paddle : Paddles, hit : BOOLEAN, ball : Bodies]
        /\ Guess \in Paddles
    BY StrokesAssumption
  <1>2. stroke.paddle \in Paddles /\ stroke.hit \in BOOLEAN /\ stroke.ball \in Bodies
    BY <1>1
  <1>3. /\ [q \in Players |-> 0] \in [Players -> Nat]
        /\ [q \in Players |-> IF q = p THEN stroke.paddle ELSE Guess] \in [Players -> Paddles]
        /\ [q \in Players |-> q = p /\ stroke.hit] \in [Players -> BOOLEAN]
    BY <1>1, <1>2
  <1> QED BY <1>2, <1>3 DEF SentFrame, Frames

\* The two ways of GetFrame.
Queued(p, frame) ==
  /\ LET size == Len(worldFrames) IN size = 0 \/ worldFrames[size].frame.id < frame.id
  /\ worldFrames' = Append(worldFrames, [fixed |-> FALSE, frame |-> frame])
  /\ UNCHANGED simulated

Merged(p, frame) ==
  LET size == Len(worldFrames) IN
  /\ ~(size = 0 \/ worldFrames[size].frame.id < frame.id)
  /\ worldFrames' = DropFixed(SyncFrame(p, worldFrames, frame))
  /\ simulated' = simulated \cup
       {j \in 1 .. MaxFrames : \E i \in 1 .. size :
          worldFrames[i].frame.id = j /\ j >= frame.id}

GotFrame(p, frame) ==
  /\ frame.id = Len(sent[p]) + 1 /\ frame.id \in 1 .. MaxFrames
  /\ sent' = [sent EXCEPT ![p] = Append(@, frame.paddle[p])]
  /\ UNCHANGED <<players, clients, members, reused>>

LEMMA GetFrameWays ==
  ASSUME NEW p \in Players, NEW stroke \in Strokes, GameInv, GetFrame(p, stroke)
  PROVE  \E frame \in Frames : GotFrame(p, frame) /\ (Queued(p, frame) \/ Merged(p, frame))
  <1> DEFINE id == Len(sent[p]) + 1
             frame == SentFrame(p, id, stroke)
  <1>1. id \in Nat /\ id \in 1 .. MaxFrames /\ id <= MaxFrames
    BY GameAssumption DEF GetFrame, GameInv, GameTypeOK
  <1>2. /\ frame \in Frames /\ frame.id = id /\ frame.paddle[p] = stroke.paddle
    <2> HIDE DEF id
    <2> QED BY <1>1, SentFrameTyped
  <1> HIDE DEF frame
  <1>3. GotFrame(p, frame)
    BY <1>1, <1>2 DEF GetFrame, GotFrame
  <1>4. Queued(p, frame) \/ Merged(p, frame)
    <2>1. frame = SentFrame(p, id, stroke)
      BY DEF frame
    <2> QED BY <1>2, <2>1 DEF GetFrame, Queued, Merged, SentFrame
  <1> QED BY <1>2, <1>3, <1>4

LEMMA QueuedKeeps ==
  ASSUME NEW p \in Players, NEW frame \in Frames, GameInv,
         GotFrame(p, frame), Queued(p, frame)
  PROVE  GameInv'
  <1> DEFINE size == Len(worldFrames)
             entry == [fixed |-> FALSE, frame |-> frame]
  <1>1. /\ GameTypeOK /\ worldFrames \in Seq(Entries) /\ sent \in [Players -> Seq(Paddles)]
        /\ simulated' = simulated /\ reused' = reused /\ frame.paddle[p] \in Paddles
        /\ size \in Nat /\ entry \in Entries
    BY DEF GameInv, GameTypeOK, GotFrame, Queued, Frames, Entries
  <1>2. /\ Len(worldFrames') = size + 1 /\ worldFrames'[size + 1] = entry
        /\ worldFrames' \in Seq(Entries)
        /\ \A i \in 1 .. size : worldFrames'[i] = worldFrames[i]
    <2>1. worldFrames' = Append(worldFrames, entry)
      BY DEF Queued
    <2> HIDE DEF entry
    <2> QED BY <1>1, <2>1
  <1>3. /\ \A q \in Players \ {p} : sent'[q] = sent[q]
        /\ sent'[p] = Append(sent[p], frame.paddle[p])
        /\ sent' \in [Players -> Seq(Paddles)]
    BY <1>1 DEF GotFrame
  <1>4. \A i \in 1 .. size : worldFrames[i].frame.id < frame.id
    <2>1. \A i \in 1 .. size : worldFrames[i].frame.id \in Nat /\ frame.id \in Nat
      <3>1. \A i \in 1 .. size : worldFrames[i] \in Entries
        BY <1>1
      <3> QED BY <3>1 DEF Entries, Frames
    <2>2. \A i \in 1 .. size : i < size =>
            worldFrames[i].frame.id < worldFrames[size].frame.id
      BY <1>1 DEF GameInv, QueueInOrder
    <2>3. size = 0 \/ worldFrames[size].frame.id < frame.id
      BY DEF Queued
    <2> QED BY <1>1, <2>1, <2>2, <2>3
  <1>5. frame.id = Len(sent[p]) + 1 /\ frame.id \in 1 .. MaxFrames
        /\ \A q \in Players : Len(sent[q]) \in Nat
    BY <1>1 DEF GotFrame
  <1> HIDE DEF size
  <1>6. GameTypeOK'
    BY <1>1, <1>2, <1>3 DEF GameTypeOK, GotFrame
  <1>7. QueueInOrder'
    <2> SUFFICES ASSUME NEW i \in 1 .. size + 1
                 PROVE  /\ ~worldFrames'[i].fixed /\ worldFrames'[i].frame.id \in 1 .. MaxFrames
                        /\ \A j \in 1 .. size + 1 :
                             i < j => worldFrames'[i].frame.id < worldFrames'[j].frame.id
      BY <1>2 DEF QueueInOrder
    <2>1. CASE i = size + 1
      BY <1>1, <1>2, <1>5, <2>1
    <2>2. CASE i \in 1 .. size
      <3>1. /\ ~worldFrames[i].fixed /\ worldFrames[i].frame.id \in 1 .. MaxFrames
            /\ \A j \in 1 .. size :
                  i < j => worldFrames[i].frame.id < worldFrames[j].frame.id
        BY <2>2 DEF GameInv, QueueInOrder, size
      <3>2. worldFrames[i].frame.id < frame.id
        BY <1>4, <2>2
      <3>3. worldFrames'[i] = worldFrames[i]
        BY <1>2, <2>2
      <3>4. ASSUME NEW j \in 1 .. size + 1, i < j
            PROVE  worldFrames[i].frame.id < worldFrames'[j].frame.id
        <4>1. CASE j = size + 1
          BY <1>2, <3>2, <4>1
        <4>2. CASE j \in 1 .. size
          BY <1>2, <3>1, <3>4, <4>2
        <4> QED BY <1>1, <4>1, <4>2
      <3> QED BY <3>1, <3>3, <3>4
    <2> QED BY <1>1, <2>1, <2>2
  <1>8. SimulatedQueued'
    <2>1. \A k \in simulated : \E i \in 1 .. size : worldFrames[i].frame.id = k
      BY DEF GameInv, SimulatedQueued, size
    <2>2. \A k \in simulated : \E i \in 1 .. size + 1 : worldFrames'[i].frame.id = k
      <3> TAKE k \in simulated
      <3>1. PICK i \in 1 .. size : worldFrames[i].frame.id = k
        BY <2>1
      <3>2. i \in 1 .. size + 1 /\ worldFrames'[i] = worldFrames[i]
        BY <1>1, <1>2
      <3> QED BY <3>1, <3>2
    <2> QED BY <1>1, <1>2, <2>2 DEF SimulatedQueued
  <1>9. NobodyAhead'
    <2> SUFFICES ASSUME ~reused, NEW q \in Players PROVE Len(sent'[q]) <= size + 1
      BY <1>1, <1>2 DEF NobodyAhead
    <2>1. Len(sent[q]) <= size
      BY DEF GameInv, NobodyAhead, size
    <2>2. Len(sent'[q]) \in {Len(sent[q]), Len(sent[q]) + 1}
      <3>1. CASE q = p
        BY <1>1, <1>3, <3>1
      <3>2. CASE q # p
        BY <1>3, <3>2
      <3> QED BY <3>1, <3>2
    <2> QED BY <1>1, <1>5, <2>1, <2>2
  <1>10. PaddlesKept'
    <2> SUFFICES ASSUME ~reused, NEW i \in 1 .. size + 1
                 PROVE  /\ worldFrames'[i].frame.id = i
                        /\ \A q \in Players :
                             i <= Len(sent'[q]) =>
                               worldFrames'[i].frame.paddle[q] = sent'[q][i]
      BY <1>1, <1>2 DEF PaddlesKept
    <2>1. \A q \in Players : Len(sent[q]) <= size
      BY DEF GameInv, NobodyAhead, size
    <2>2. \A k \in 1 .. size :
            /\ worldFrames[k].frame.id = k
            /\ \A q \in Players :
                 k <= Len(sent[q]) => worldFrames[k].frame.paddle[q] = sent[q][k]
      BY DEF GameInv, PaddlesKept, size
    <2>3. frame.id = size + 1
      <3>1. size = 0 \/ size < frame.id
        BY <1>1, <1>4, <2>2
      <3> QED BY <1>1, <1>5, <2>1, <3>1
    <2>4. CASE i = size + 1
      <3>1. worldFrames'[i].frame = frame
        BY <1>2, <2>4
      <3>2. \A q \in Players \ {p} : ~(i <= Len(sent'[q]))
        BY <1>1, <1>3, <1>5, <2>1, <2>4
      <3>3. sent'[p][i] = frame.paddle[p]
        BY <1>1, <1>3, <1>5, <2>3, <2>4
      <3> QED BY <2>3, <2>4, <3>1, <3>2, <3>3
    <2>5. CASE i \in 1 .. size
      <3>1. worldFrames'[i] = worldFrames[i]
        BY <1>2, <2>5
      <3>2. ASSUME NEW q \in Players, i <= Len(sent'[q])
            PROVE  worldFrames[i].frame.paddle[q] = sent'[q][i]
        <4>1. i <= Len(sent[q]) /\ sent'[q][i] = sent[q][i]
          <5>1. i < frame.id
            BY <1>1, <2>3, <2>5
          <5>2. CASE q = p
            BY <1>1, <1>3, <1>5, <2>5, <5>1, <5>2
          <5>3. CASE q # p
            BY <1>3, <3>2, <5>3
          <5> QED BY <5>2, <5>3
        <4> QED BY <2>2, <2>5, <4>1
      <3> QED BY <2>2, <2>5, <3>1, <3>2
    <2> QED BY <1>1, <2>4, <2>5
  <1>11. BallInPlay'
    <2> SUFFICES ASSUME NEW i \in 1 .. size + 1, worldFrames'[i].frame.id \in simulated
                 PROVE  InCourt(worldFrames'[i].frame.ball.pos)
      BY <1>1, <1>2 DEF BallInPlay, InCourt
    <2>1. CASE i = size + 1
      <3>1. PICK j \in 1 .. size : worldFrames[j].frame.id = frame.id
        BY <1>2, <2>1 DEF GameInv, SimulatedQueued, size
      <3>2. frame.id \in Nat
        BY DEF Frames
      <3> QED BY <1>4, <3>1, <3>2
    <2>2. CASE i \in 1 .. size
      BY <1>2, <2>2 DEF GameInv, BallInPlay, InCourt, size
    <2> QED BY <1>1, <2>1, <2>2
  <1> QED BY <1>6, <1>7, <1>8, <1>9, <1>10, <1>11 DEF GameInv

LEMMA MergedKeeps ==
  ASSUME NEW p \in Players, NEW frame \in Frames, GameInv,
         GotFrame(p, frame), Merged(p, frame)
  PROVE  GameInv'
  <1> DEFINE size == Len(worldFrames)
             synced == SyncFrame(p, worldFrames, frame)
  <1>1. /\ GameTypeOK /\ worldFrames \in Seq(Entries) /\ sent \in [Players -> Seq(Paddles)]
        /\ reused' = reused /\ frame.paddle[p] \in Paddles /\ size \in Nat
    BY DEF GameInv, GameTypeOK, GotFrame, Frames
  <1>2. SyncedRight(p, frame, worldFrames, worldFrames')
    <2>1. SyncedRight(p, frame, worldFrames, synced)
      BY <1>1, FramesSynced
    <2>2. worldFrames' = DropFixed(synced)
      BY DEF Merged
    <2> HIDE DEF synced
    <2>3. \A i \in 1 .. size : ~worldFrames[i].fixed
      BY DEF GameInv, QueueInOrder
    <2>4. synced \in Seq(Entries) /\ \A i \in 1 .. Len(synced) : ~synced[i].fixed
      BY <2>1, <2>3 DEF SyncedRight
    <2>5. worldFrames' = synced
      BY <2>2, <2>4, NothingDropped
    <2> QED BY <2>1, <2>5
  <1>3. /\ \A q \in Players \ {p} : sent'[q] = sent[q]
        /\ sent'[p] = Append(sent[p], frame.paddle[p])
        /\ sent' \in [Players -> Seq(Paddles)]
    BY <1>1 DEF GotFrame
  <1>4. /\ frame.id = Len(sent[p]) + 1 /\ frame.id \in 1 .. MaxFrames
        /\ \A q \in Players : Len(sent[q]) \in Nat
        /\ size > 0 /\ ~(worldFrames[size].frame.id < frame.id)
        /\ simulated' = simulated \cup {j \in 1 .. MaxFrames :
              \E i \in 1 .. size : worldFrames[i].frame.id = j /\ j >= frame.id}
    BY <1>1 DEF GotFrame, Merged
  <1>5. /\ Len(worldFrames') = size /\ worldFrames' \in Seq(Entries)
        /\ \A i \in 1 .. size :
             /\ worldFrames'[i].fixed = worldFrames[i].fixed
             /\ FrameRight(p, frame, worldFrames[i].frame, worldFrames'[i].frame)
             /\ worldFrames'[i].frame.id = worldFrames[i].frame.id
             /\ worldFrames[i].frame.id \in 1 .. MaxFrames
    BY <1>2 DEF SyncedRight, FrameRight, GameInv, QueueInOrder
  <1> HIDE DEF size
  <1>6. GameTypeOK'
    BY <1>1, <1>3, <1>4, <1>5 DEF GameTypeOK, GotFrame
  <1>7. QueueInOrder'
    BY <1>5 DEF GameInv, QueueInOrder, size
  <1>8. SimulatedQueued'
    <2>1. \A k \in simulated' : \E i \in 1 .. size : worldFrames[i].frame.id = k
      BY <1>4 DEF GameInv, SimulatedQueued, size
    <2> QED BY <1>5, <2>1 DEF SimulatedQueued
  <1>9. ASSUME ~reused PROVE /\ \A i \in 1 .. size : worldFrames[i].frame.id = i
                             /\ frame.id <= size
    <2>1. \A i \in 1 .. size : worldFrames[i].frame.id = i
      BY <1>9 DEF GameInv, PaddlesKept, size
    <2> QED BY <1>1, <1>4, <2>1
  <1>10. NobodyAhead'
    <2> SUFFICES ASSUME ~reused, NEW q \in Players PROVE Len(sent'[q]) <= size
      BY <1>1, <1>5 DEF NobodyAhead
    <2>1. Len(sent[q]) <= size
      BY DEF GameInv, NobodyAhead, size
    <2>2. CASE q = p
      BY <1>1, <1>3, <1>4, <1>9, <2>2
    <2> QED BY <1>3, <2>1, <2>2
  <1>11. PaddlesKept'
    <2> SUFFICES ASSUME ~reused, NEW i \in 1 .. size
                 PROVE  /\ worldFrames'[i].frame.id = i
                        /\ \A q \in Players :
                             i <= Len(sent'[q]) =>
                               worldFrames'[i].frame.paddle[q] = sent'[q][i]
      BY <1>1, <1>5 DEF PaddlesKept
    <2>1. /\ worldFrames[i].frame.id = i /\ worldFrames'[i].frame.id = i
          /\ \A q \in Players :
               i <= Len(sent[q]) => worldFrames[i].frame.paddle[q] = sent[q][i]
      BY <1>5, <1>9 DEF GameInv, PaddlesKept, size
    <2>2. FrameRight(p, frame, worldFrames[i].frame, worldFrames'[i].frame)
      BY <1>5
    <2>3. ASSUME NEW q \in Players \ {p}, i <= Len(sent'[q])
          PROVE  worldFrames'[i].frame.paddle[q] = sent'[q][i]
      BY <1>3, <2>1, <2>2, <2>3 DEF FrameRight
    <2>4. ASSUME i <= Len(sent'[p])
          PROVE  worldFrames'[i].frame.paddle[p] = sent'[p][i]
      <3>1. Len(sent'[p]) = frame.id /\ frame.id \in Nat /\ i \in Nat
        BY <1>1, <1>3, <1>4
      <3>2. CASE i = frame.id
        <4>1. sent'[p][i] = frame.paddle[p]
          BY <1>1, <1>3, <1>4, <3>2
        <4>2. worldFrames'[i].frame.paddle[p] = frame.paddle[p]
          BY <2>1, <2>2, <3>2 DEF FrameRight
        <4> QED BY <4>1, <4>2
      <3>3. CASE i < frame.id
        <4>1. i <= Len(sent[p]) /\ sent'[p][i] = sent[p][i]
          BY <1>1, <1>3, <1>4, <3>1, <3>3
        <4>2. worldFrames'[i].frame = worldFrames[i].frame
          BY <2>1, <2>2, <3>3 DEF FrameRight
        <4> QED BY <2>1, <4>1, <4>2
      <3> QED BY <2>4, <3>1, <3>2, <3>3
    <2> QED BY <2>1, <2>3, <2>4
  <1>12. BallInPlay'
    <2> SUFFICES ASSUME NEW i \in 1 .. size, worldFrames'[i].frame.id \in simulated'
                 PROVE  InCourt(worldFrames'[i].frame.ball.pos)
      BY <1>5 DEF BallInPlay, InCourt
    <2>1. /\ FrameRight(p, frame, worldFrames[i].frame, worldFrames'[i].frame)
          /\ worldFrames[i].frame.id \in simulated' /\ worldFrames[i].frame.id \in Nat
          /\ frame.id \in Nat
      BY <1>4, <1>5
    <2>2. CASE worldFrames[i].frame.id >= frame.id
      BY <2>1, <2>2 DEF FrameRight
    <2>3. CASE worldFrames[i].frame.id < frame.id
      <3>1. worldFrames[i].frame.id \in simulated
        BY <1>4, <2>1, <2>3
      <3>2. InCourt(worldFrames[i].frame.ball.pos)
        BY <3>1 DEF GameInv, BallInPlay, InCourt, size
      <3> QED BY <2>1, <2>3, <3>2 DEF FrameRight
    <2> QED BY <2>1, <2>2, <2>3
  <1> QED BY <1>6, <1>7, <1>8, <1>10, <1>11, <1>12 DEF GameInv

LEMMA GameStepInv == GameInv /\ [GameNext]_gameVars => GameInv'
  <1> SUFFICES ASSUME GameInv, [GameNext]_gameVars PROVE GameInv'
    OBVIOUS
  <1>1. ASSUME NEW p \in Players,
               OpenSocket(p) \/ Disconnect(p) \/ JoinRoom(p)
        PROVE  GameInv'
    <2>1. UNCHANGED <<worldFrames, sent, simulated, reused>>
      BY <1>1 DEF OpenSocket, Disconnect, JoinRoom
    <2>2. GameTypeOK'
      <3>1. /\ players \in [Players -> BOOLEAN] /\ clients = {} /\ members \in 0 .. 3
            /\ worldFrames \in Seq(Entries) /\ sent \in [Players -> Seq(Paddles)]
            /\ simulated \subseteq 1 .. MaxFrames /\ reused \in BOOLEAN
        BY DEF GameInv, GameTypeOK
      <3>2. /\ players' \in [Players -> BOOLEAN] /\ clients' = {}
        BY <1>1, <3>1 DEF OpenSocket, Disconnect, JoinRoom
      <3>3. members' \in 0 .. 3
        BY <1>1, <3>1 DEF OpenSocket, Disconnect, JoinRoom
      <3> QED BY <2>1, <3>1, <3>2, <3>3 DEF GameTypeOK
    <2> QED BY <2>1, <2>2
        DEF GameInv, QueueInOrder, SimulatedQueued, NobodyAhead, PaddlesKept, BallInPlay
  <1>2. ASSUME NEW p \in Players, CreateRoom(p) PROVE GameInv'
    <2>1. /\ UNCHANGED <<worldFrames, simulated>> /\ reused' = (worldFrames # <<>>)
          /\ worldFrames \in Seq(Entries)
      BY <1>2 DEF CreateRoom, GameInv, GameTypeOK
    <2>2. GameTypeOK' /\ \A q \in Players : sent'[q] = <<>>
      BY <1>2 DEF GameInv, GameTypeOK, CreateRoom
    <2>3. ~reused' => Len(worldFrames) = 0
      <3>1. ~reused' => worldFrames = <<>>
        BY <2>1, Zenon
      <3> QED BY <3>1
    <2>4. NobodyAhead' /\ PaddlesKept'
      BY <2>1, <2>2, <2>3 DEF NobodyAhead, PaddlesKept
    <2> QED BY <2>1, <2>2, <2>4 DEF GameInv, QueueInOrder, SimulatedQueued, BallInPlay
  <1>3. ASSUME NEW p \in Players, NEW stroke \in Strokes, GetFrame(p, stroke) PROVE GameInv'
    BY <1>3, GetFrameWays, QueuedKeeps, MergedKeeps
  <1>4. CASE UNCHANGED gameVars
    BY <1>4 DEF gameVars, GameInv, GameTypeOK, QueueInOrder, SimulatedQueued, NobodyAhead,
       PaddlesKept, BallInPlay
  <1> QED BY <1>1, <1>2, <1>3, <1>4 DEF GameNext

\* Every variable of the gateway keeps its type, and no socket joins clients.
THEOREM GameTypesHold == GameSpec => []GameTypeOK
  <1>1. GameInv => GameTypeOK
    BY DEF GameInv
  <1> QED BY GameInitInv, GameStepInv, <1>1, PTL DEF GameSpec

\* Whatever players send, and however late: in the first game each queued frame
\* keeps the paddles its players sent, and simulated frames a ball in the court.
THEOREM FramesAreKept == GameSpec => []FramesKept
  <1>1. GameInv => FramesKept
    BY DEF GameInv, FramesKept
  <1> QED BY GameInitInv, GameStepInv, <1>1, PTL DEF GameSpec

-----------------------------------------------------------------------------
(***************************************************************************)
(* The four of them beside each other.                                     *)
(***************************************************************************)

\* A step of the four is a step of one of them, or none, for each of them.
LEMMA ServicesStep ==
  [MCNext]_<<part, profileVars, friendsVars, gameVars, oauthVars>> =>
    /\ [ProfileNext]_profileVars /\ [FriendsNext]_friendsVars
    /\ [GameNext]_gameVars /\ [OAuthNext]_oauthVars
  BY DEF MCNext

\* The services that run beside each other keep the types of their variables.
THEOREM ServicesTypesHold == MCSpec => []ServicesTypeOK
  <1>1. MCInit => ProfileInit /\ FriendsInit /\ GameInit /\ OAuthInit
    BY DEF MCInit
  <1>2. MCSpec => ProfileSpec /\ FriendsSpec /\ GameSpec /\ OAuthSpec
    BY <1>1, ServicesStep, PTL DEF MCSpec, ProfileSpec, FriendsSpec, GameSpec, OAuthSpec
  <1>3. ProfileTypeOK /\ FriendsTypeOK /\ GameTypeOK /\ OAuthTypeOK => ServicesTypeOK
    BY DEF ServicesTypeOK
  <1> QED BY <1>2, <1>3, ProfileTypesHold, FriendsTypesHold, GameTypesHold, OAuthTypesHold, PTL

=============================================================================
