------------------------------ MODULE Profile ------------------------------
(***************************************************************************)
(* A profile's nickname and avatar: POST profile/nick, POST and DELETE     *)
(* profile/avatar, each a handler of several queries without a transaction.*)
(* An action is one query together with what the handler does when it      *)
(* returns; other requests and failures come in between.                   *)
(***************************************************************************)
EXTENDS FiniteSets, Naturals

CONSTANTS
  Accounts,    \* accounts with a row
  Names,       \* nicknames that match NICK_NAME_REGEX
  Tags,        \* MIN_TAG_NUMBER .. MAX_TAG_NUMBER
  Keys,        \* bound: avatar ids; a request that finds none fails
  Requests,    \* bound: requests in flight at once
  None

ASSUME ProfileAssumption == None \notin Keys \cup Accounts \cup (Names \X Tags) \cup Tags

VARIABLES
  nick,        \* nickName and nickTag of each account, or None
  avatarKey,   \* the avatar each account refers to, or None
  avatars,     \* the rows of `avatar`
  request,     \* the requests in flight
  answered,    \* history: names that were answered to their accounts
  contended,   \* history: accounts whose registration raced another one
  shown,       \* history: the avatar key last answered to each account
  uploader,    \* history: whose request created an avatar
  mixed        \* history: accounts whose avatar requests overlapped or failed

profileVars ==
  <<nick, avatarKey, avatars, request, answered, contended, shown, uploader, mixed>>
nickVars == <<nick, answered, contended>>
avatarVars == <<avatarKey, avatars, shown, uploader, mixed>>

NickRequests ==
  [op : {"nick"}, account : Accounts, name : Names, tag : Tags \cup {None},
   step : {"find", "pick", "update"}]
AvatarRequests ==
  [op : {"avatar"}, account : Accounts, upload : BOOLEAN, key : Keys \cup {None},
   step : {"find", "delete", "create", "link"}]

ASSUME NoneAssumption == None \notin NickRequests \cup AvatarRequests

ProfileInit ==
  /\ nick = [a \in Accounts |-> None]
  /\ avatarKey = [a \in Accounts |-> None]
  /\ avatars = {}
  /\ request = [r \in Requests |-> None]
  /\ answered = {}
  /\ contended = {}
  /\ shown = [a \in Accounts |-> None]
  /\ uploader = [k \in Keys |-> None]
  /\ mixed = {}

Pending(requests, op, steps) ==
  {r \in Requests : requests[r] # None /\ requests[r].op = op /\ requests[r].step \in steps}
RequestAt(r, op, step) == r \in Pending(request, op, {step})
Answer(r) == request' = [request EXCEPT ![r] = None]

(***************************************************************************)
(* Registrations race when two of one account both found no nickname, or   *)
(* two of one name both picked a tag that is not written yet.              *)
(***************************************************************************)
Racing ==
  {a \in Accounts : \E r, s \in Pending(request', "nick", {"pick", "update"}) :
     /\ r # s /\ request'[r].account = a
     /\ \/ request'[s].account = a
        \/ {r, s} \subseteq Pending(request', "nick", {"update"})
           /\ request'[r].name = request'[s].name}
WatchNick == contended' = contended \cup Racing

\* requests that change an account's avatar overlap
Mixing ==
  {a \in Accounts : \E r, s \in Pending(request', "avatar", {"find", "delete", "create", "link"}) :
     r # s /\ request'[r].account = a /\ request'[s].account = a}
WatchAvatar(failed) == mixed' = mixed \cup Mixing \cup failed

(***************************************************************************)
(* registerNick.  A name that does not match is answered 400 at once, and  *)
(* a token below COMPLETED 403: they leave no trace.                       *)
(***************************************************************************)
PostNick(r, a, name) ==
  /\ request[r] = None
  /\ request' = [request EXCEPT ![r] = [op |-> "nick", account |-> a, name |-> name,
                                        tag |-> None, step |-> "find"]]
  /\ UNCHANGED <<nick, answered, avatarVars>>
  /\ WatchNick

\* Mutant of FindNick: the nickname that is there is not looked at.
FindNickUnchecked(r) ==
  /\ RequestAt(r, "nick", "find")
  /\ request' = [request EXCEPT ![r].step = "pick"]
  /\ UNCHANGED <<nick, answered, avatarVars>>
  /\ WatchNick

\* findNickByUUID: a second registration is answered 400
FindNick(r) ==
  /\ RequestAt(r, "nick", "find")
  /\ \/ nick[request[r].account] # None /\ Answer(r)
     \/ /\ nick[request[r].account] = None
        /\ request' = [request EXCEPT ![r].step = "pick"]
  /\ UNCHANGED <<nick, answered, avatarVars>>
  /\ WatchNick

\* Mutant of FreeTags: tags in use are not left out.
AllTags(name) == Tags

\* the tags no account of that name has
FreeTags(name) == {tag \in Tags : \A a \in Accounts : nick[a] # <<name, tag>>}

\* pickRandomTag: 409 when there is none left
PickTag(r) ==
  /\ RequestAt(r, "nick", "pick")
  /\ \/ FreeTags(request[r].name) = {} /\ Answer(r)
     \/ \E tag \in FreeTags(request[r].name) :
          request' = [request EXCEPT ![r].tag = tag, ![r].step = "update"]
  /\ UNCHANGED <<nick, answered, avatarVars>>
  /\ WatchNick

\* account.update, whatever the account's nickname is by now
UpdateNick(r) ==
  /\ RequestAt(r, "nick", "update")
  /\ LET a == request[r].account
         name == <<request[r].name, request[r].tag>>
     IN /\ nick' = [nick EXCEPT ![a] = name]
        /\ answered' = answered \cup {<<a, name>>}
  /\ Answer(r)
  /\ UNCHANGED avatarVars
  /\ WatchNick

(***************************************************************************)
(* updateAvatar.                                                           *)
(***************************************************************************)
PostAvatar(r, a, upload) ==
  /\ request[r] = None
  /\ request' = [request EXCEPT ![r] = [op |-> "avatar", account |-> a, upload |-> upload,
                                        key |-> None, step |-> "find"]]
  /\ UNCHANGED <<nickVars, avatarKey, avatars, shown, uploader>>
  /\ WatchAvatar({})

\* the request is over: the account is answered its new key, or null
AnswerAvatar(r, key) ==
  /\ Answer(r)
  /\ shown' = [shown EXCEPT ![request[r].account] = key]

\* what follows when there is no old avatar (any more)
WithoutOld(r, upload) ==
  \/ upload /\ request' = [request EXCEPT ![r].step = "create", ![r].key = None] /\ UNCHANGED shown
  \/ ~upload /\ AnswerAvatar(r, None)

FindAvatarKey(r) ==
  /\ RequestAt(r, "avatar", "find")
  /\ LET prevKey == avatarKey[request[r].account] IN
       \/ prevKey = None /\ WithoutOld(r, request[r].upload)
       \/ /\ prevKey # None
          /\ request' = [request EXCEPT ![r].step = "delete", ![r].key = prevKey]
          /\ UNCHANGED shown
  /\ UNCHANGED <<nickVars, avatarKey, avatars, uploader>>
  /\ WatchAvatar({})

\* deleteAvatar: accounts that refer to the row are set to NULL; no row, 404
DeleteAvatar(r) ==
  /\ RequestAt(r, "avatar", "delete")
  /\ LET key == request[r].key IN
       \/ /\ key \notin avatars
          /\ Answer(r)
          /\ UNCHANGED <<avatarKey, avatars, shown>>
       \/ /\ key \in avatars
          /\ avatars' = avatars \ {key}
          /\ avatarKey' = [a \in Accounts |-> IF avatarKey[a] = key THEN None ELSE avatarKey[a]]
          /\ WithoutOld(r, request[r].upload)
  /\ UNCHANGED <<nickVars, uploader>>
  /\ WatchAvatar({})

\* an id nobody has heard of
FreshKeys ==
  {k \in Keys : /\ k \notin avatars
                /\ \A a \in Accounts : shown[a] # k
                /\ \A r \in Pending(request, "avatar", {"delete", "link"}) : request[r].key # k}

CreateAvatar(r) ==
  /\ RequestAt(r, "avatar", "create")
  /\ \E k \in FreshKeys :
       /\ avatars' = avatars \cup {k}
       /\ uploader' = [uploader EXCEPT ![k] = request[r].account]
       /\ request' = [request EXCEPT ![r].step = "link", ![r].key = k]
  /\ UNCHANGED <<nickVars, avatarKey, shown>>
  /\ WatchAvatar({})

\* Mutant of LinkAvatar: the key is answered, the account does not refer to it.
LinkAvatarForgotten(r) ==
  /\ RequestAt(r, "avatar", "link")
  /\ AnswerAvatar(r, request[r].key)
  /\ UNCHANGED <<nickVars, avatars, avatarKey, uploader>>
  /\ WatchAvatar({})

\* updateAvatarKeyByUUID
LinkAvatar(r) ==
  /\ RequestAt(r, "avatar", "link")
  /\ avatarKey' = [avatarKey EXCEPT ![request[r].account] = request[r].key]
  /\ AnswerAvatar(r, request[r].key)
  /\ UNCHANGED <<nickVars, avatars, uploader>>
  /\ WatchAvatar({})

\* A query fails, or the process stops: what was executed stays.
RequestFails(r) ==
  /\ request[r] # None
  /\ Answer(r)
  /\ WatchNick
  /\ WatchAvatar(IF r \in Pending(request, "avatar", {"create", "link"})
                 THEN {request[r].account} ELSE {})
  /\ UNCHANGED <<nick, answered, avatarKey, avatars, shown, uploader>>

ProfileNext ==
  \E r \in Requests :
    \/ \E a \in Accounts :
         \/ \E name \in Names : PostNick(r, a, name)
         \/ \E upload \in BOOLEAN : PostAvatar(r, a, upload)
    \/ FindNick(r) \/ PickTag(r) \/ UpdateNick(r)
    \/ FindAvatarKey(r) \/ DeleteAvatar(r) \/ CreateAvatar(r) \/ LinkAvatar(r)
    \/ RequestFails(r)

ProfileSpec == ProfileInit /\ [][ProfileNext]_profileVars
-----------------------------------------------------------------------------
(***************************************************************************)
(* Properties.                                                             *)
(***************************************************************************)

\* Every variable has its type.
ProfileTypeOK ==
  /\ nick \in [Accounts -> (Names \X Tags) \cup {None}]
  /\ avatarKey \in [Accounts -> Keys \cup {None}]
  /\ avatars \subseteq Keys
  /\ request \in [Requests -> NickRequests \cup AvatarRequests \cup {None}]
  /\ answered \subseteq Accounts \X (Names \X Tags)
  /\ contended \subseteq Accounts
  /\ shown \in [Accounts -> Keys \cup {None}]
  /\ uploader \in [Keys -> Accounts \cup {None}]
  /\ mixed \subseteq Accounts

\* A name and tag that registerNick answered to an account stay that account's,
\* and no other account gets both, as long as no registration of the account ran
\* between another one's queries (of the account, or of the name).
NamesKept ==
  \A p \in answered : p[1] \notin contended =>
    /\ nick[p[1]] = p[2]
    /\ \A a \in Accounts \ contended : nick[a] = p[2] => a = p[1]

\* As long as no two avatar requests of an account overlapped and none failed
\* between deleting the old avatar and linking the new one, an account with no
\* request in flight refers to the avatar it was answered last, and the rows hold
\* no other avatar it uploaded.
AvatarAgrees ==
  \A a \in Accounts \ mixed :
    (\A r \in Pending(request, "avatar", {"find", "delete", "create", "link"}) :
        request[r].account # a)
    => /\ avatarKey[a] = shown[a]
       /\ {k \in avatars : uploader[k] = a} = {avatarKey[a]} \ {None}

=============================================================================
