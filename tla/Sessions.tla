------------------------------ MODULE Sessions ------------------------------
(***************************************************************************)
(* Sign-in and token rotation: AuthService over SessionsService.  Each     *)
(* HTTP request runs one handler, split at its awaits and begun with its   *)
(* first query; the handlers share only the database rows.  An             *)
(* authorization row is an OAuth round trip or, when it names an account,  *)
(* a temporary token that waits for an OTP.  A session row is one refresh  *)
(* token; refreshing it creates its successor.                             *)
(***************************************************************************)
EXTENDS FiniteSets

CONSTANTS
  Accounts,    \* accounts
  Protected,   \* the accounts with an otpSecret
  States,      \* bound: authorization ids
  Ids,         \* bound: session ids
  Requests,    \* bound: HTTP requests in flight at once
  Idle,        \* no request
  None         \* no session, no account

ASSUME SessionsAssumption ==
  /\ Protected \subseteq Accounts
  /\ None \notin Accounts \cup Ids

VARIABLES
  row,         \* authorization rows: "unused", "present" or "deleted"
  subject,     \* the account a row waits for an OTP of, None for an OAuth row
  sessions,    \* session ids in the database
  predecessor, \* Session.predecessorId
  valid,       \* sessions whose isValid is true
  holder,      \* Session.accountId
  origin,      \* history: the authorization row a session's login consumed
  late,        \* history: sessions inserted after their predecessor was invalidated
  disclosed,   \* sessions whose token was delivered to a client
  banned,      \* accounts with an active ban
  cleanup,     \* invalidateSession calls in flight that nobody awaits
  request,     \* the requests in flight
  answer       \* how the last request of each slot was answered

rows == <<row, subject>>
tokens == <<sessions, predecessor, valid, holder, origin, late>>
vars == <<rows, tokens, disclosed, banned, cleanup, request, answer>>

Steps == {"identify", "verify", "temporary", "session", "reuse", "create", "bans"}
RequestRecords ==
  [step : Steps, state : States \cup {None}, account : Accounts \cup {None},
   session : Ids \cup {None}, banned : SUBSET Accounts]
Answers == {"none", "completed", "temporary", "blocked", "refused", "conflict", "error"}

At(r, step) == request[r] # Idle /\ request[r].step = step
GoTo(r, step) == request' = [request EXCEPT ![r].step = step]
GoToWith(r, step, account) ==
  request' = [request EXCEPT ![r].step = step, ![r].account = account]
End(r, how) ==
  /\ request' = [request EXCEPT ![r] = Idle]
  /\ answer' = [answer EXCEPT ![r] = how]

Begin(r, step, state, account, session) ==
  /\ request' = [request EXCEPT ![r] =
       [step |-> step, state |-> state, account |-> account, session |-> session,
        banned |-> banned]]
  /\ answer' = [answer EXCEPT ![r] = "none"]

Refuse(r) == answer' = [answer EXCEPT ![r] = "refused"] /\ UNCHANGED request

Successors(p) == {c \in sessions : predecessor[c] = p}

\* Session ids reached from p over successors: the smallest set closed under them.
Closed(S) == \A c \in sessions : predecessor[c] \in S => c \in S
Tree(p) == {d \in sessions : \A S \in SUBSET sessions : p \in S /\ Closed(S) => d \in S}

Init ==
  /\ row = [s \in States |-> "unused"]
  /\ subject = [s \in States |-> None]
  /\ sessions = {}
  /\ predecessor = [i \in Ids |-> None]
  /\ valid = {}
  /\ holder = [i \in Ids |-> None]
  /\ origin = [i \in Ids |-> None]
  /\ late = {}
  /\ disclosed = {}
  /\ banned \in SUBSET Accounts
  /\ cleanup = {}
  /\ request = [r \in Requests |-> Idle]
  /\ answer = [r \in Requests |-> "none"]

(***************************************************************************)
(* SessionsService.                                                        *)
(***************************************************************************)

\* Mutant of NewTemporaryState: the row names itself where the account belongs.
NewTemporaryStateOfItself(s, account) ==
  /\ row[s] = "unused"
  /\ row' = [row EXCEPT ![s] = "present"]
  /\ subject' = [subject EXCEPT ![s] = s]

\* createNewTemporaryState
NewTemporaryState(s, account) ==
  /\ row[s] = "unused"
  /\ row' = [row EXCEPT ![s] = "present"]
  /\ subject' = [subject EXCEPT ![s] = account]

\* Mutant of DeleteTemporaryState: the row is found and its deletion left to later.
DeleteTemporaryStateLazily(s) == UNCHANGED rows

\* findAndDeleteTemporaryState of a row that is there: one DELETE
DeleteTemporaryState(s) ==
  /\ row' = [row EXCEPT ![s] = "deleted"]
  /\ UNCHANGED subject

\* session.create of a fresh id.  Its token is delivered by the caller.
InsertSession(i, account, p, state) ==
  /\ i \notin sessions
  /\ sessions' = sessions \cup {i}
  /\ predecessor' = [predecessor EXCEPT ![i] = p]
  /\ valid' = valid \cup {i}
  /\ holder' = [holder EXCEPT ![i] = account]
  /\ origin' = [origin EXCEPT ![i] = state]
  /\ late' = IF p \in sessions \ valid THEN late \cup {i} ELSE late

\* Mutant of Invalidated: the statement without its recursion.
InvalidatedAlone(p) == {p}

\* the ids that the recursive statement of invalidateSession updates
Invalidated(p) == Tree(p)

InvalidateSession(p) ==
  /\ valid' = valid \ Invalidated(p)
  /\ UNCHANGED <<sessions, predecessor, holder, origin, late>>

(***************************************************************************)
(* beginAuthURL: one insert.                                               *)
(***************************************************************************)
BeginAuthURL(s) ==
  /\ NewTemporaryState(s, None)
  /\ UNCHANGED <<tokens, disclosed, banned, cleanup, request, answer>>

(***************************************************************************)
(* endAuthURL, on the state that the OAuth provider hands back.            *)
(***************************************************************************)
EndAuthURL(r, s) ==
  /\ request[r] = Idle
  /\ \/ /\ row[s] = "present" /\ subject[s] = None
        /\ DeleteTemporaryState(s)
        /\ Begin(r, "identify", s, None, None)
     \/ /\ row[s] = "present" /\ subject[s] # None    \* consumed, but no auth source
        /\ DeleteTemporaryState(s)
        /\ Refuse(r)
     \/ /\ row[s] # "present"
        /\ Refuse(r)
        /\ UNCHANGED rows
  /\ UNCHANGED <<tokens, disclosed, banned, cleanup>>

\* Mutant of NextStep: accounts with an OTP are signed in at once.
NextStepWithoutOTP(a) == IF a \in banned THEN "blocked" ELSE "session"

\* what endAuthURL does with the account it found
NextStep(a) ==
  IF a \in Protected THEN "temporary"
  ELSE IF a \in banned THEN "blocked" ELSE "session"

\* fetchSubject and findOrCreateAccountForAuth: the account, with its bans
IdentifyAccount(r, a) ==
  /\ At(r, "identify")
  /\ IF NextStep(a) = "blocked"
     THEN End(r, "blocked")
     ELSE GoToWith(r, NextStep(a), a) /\ UNCHANGED answer
  /\ UNCHANGED <<rows, tokens, disclosed, banned, cleanup>>

\* makeTemporaryToken: the account waits for its OTP
MakeTemporaryToken(r, s) ==
  /\ At(r, "temporary")
  /\ NewTemporaryState(s, request[r].account)
  /\ End(r, "temporary")
  /\ UNCHANGED <<tokens, disclosed, banned, cleanup>>

(***************************************************************************)
(* promotionAuth, with a temporary token: its state names the account.     *)
(***************************************************************************)
PromotionAuth(r, s) ==
  /\ request[r] = Idle
  /\ subject[s] # None
  /\ \/ /\ row[s] = "present"
        /\ DeleteTemporaryState(s)
        /\ Begin(r, "verify", s, subject[s], None)
     \/ /\ row[s] # "present"
        /\ Refuse(r)
        /\ UNCHANGED rows
  /\ UNCHANGED <<tokens, disclosed, banned, cleanup>>

\* the bans are read and the OTP is compared
VerifyOTP(r) ==
  /\ At(r, "verify")
  /\ \/ End(r, "refused")              \* "Wrong OTP"
     \/ /\ request[r].account \in banned
        /\ End(r, "blocked")
     \/ /\ request[r].account \notin banned
        /\ GoTo(r, "session")
        /\ UNCHANGED answer
  /\ UNCHANGED <<rows, tokens, disclosed, banned, cleanup>>

\* createNewSession and makeCompletedToken, for both logins
CreateNewSession(r, i) ==
  /\ At(r, "session")
  /\ InsertSession(i, request[r].account, None, request[r].state)
  /\ disclosed' \in {disclosed, disclosed \cup {i}}
  /\ End(r, "completed")
  /\ UNCHANGED <<rows, banned, cleanup>>

(***************************************************************************)
(* refreshAuth and refreshSession.                                         *)
(***************************************************************************)

\* findUnique with the successor, and the checks on what it returned.  None
\* stands for a token that no session has.
RefreshAuth(r, p) ==
  /\ request[r] = Idle
  /\ p \in disclosed \cup {None}
  /\ \/ p \notin valid /\ Refuse(r)
     \/ p \in valid /\ Successors(p) # {} /\ Begin(r, "reuse", None, None, p)
     \/ p \in valid /\ Successors(p) = {} /\ Begin(r, "create", None, holder[p], p)
  /\ UNCHANGED <<rows, tokens, disclosed, banned, cleanup>>

DetectReuse(r) ==
  /\ At(r, "reuse")
  /\ InvalidateSession(request[r].session)
  /\ End(r, "conflict")
  /\ UNCHANGED <<rows, disclosed, banned, cleanup>>

\* Mutant of SuccessorFree: the database without @unique on predecessorId.
SuccessorFreeUnchecked(p) == TRUE

\* predecessorId is unique
SuccessorFree(p) == Successors(p) = {}

CreateSuccessor(r, i) ==
  /\ At(r, "create")
  /\ LET p == request[r].session IN
       \/ /\ SuccessorFree(p)
          /\ InsertSession(i, request[r].account, p, origin[p])
          /\ request' = [request EXCEPT ![r].step = "bans", ![r].session = i]
          /\ UNCHANGED answer
       \/ /\ ~SuccessorFree(p)         \* P2002: PrismaClientExceptionFilter
          /\ End(r, "conflict")
          /\ UNCHANGED tokens
  /\ UNCHANGED <<rows, disclosed, banned, cleanup>>

\* Mutant of Refusable: a refresh does not look at the bans.
RefusableNever(a) == FALSE

Refusable(a) == a \in banned

\* findAccountForAuth: a banned account's new session is dropped, not awaited
CheckBans(r) ==
  /\ At(r, "bans")
  /\ LET i == request[r].session IN
       \/ /\ Refusable(request[r].account)
          /\ cleanup' = cleanup \cup {i}
          /\ End(r, "blocked")
          /\ UNCHANGED disclosed
       \/ /\ ~Refusable(request[r].account)
          /\ disclosed' \in {disclosed, disclosed \cup {i}}
          /\ End(r, "completed")
          /\ UNCHANGED cleanup
  /\ UNCHANGED <<rows, tokens, banned>>

Cleanup(i) ==
  /\ i \in cleanup
  /\ cleanup' = cleanup \ {i}
  /\ InvalidateSession(i)
  /\ UNCHANGED <<rows, disclosed, banned, request, answer>>

(***************************************************************************)
(* The environment.                                                        *)
(***************************************************************************)

\* a query, the OAuth provider, or the OTP's decoding fails
RequestFails(r) ==
  /\ request[r] # Idle
  /\ End(r, "error")
  /\ UNCHANGED <<rows, tokens, disclosed, banned, cleanup>>

Ban(a) ==
  /\ banned' = banned \cup {a}
  /\ UNCHANGED <<rows, tokens, disclosed, cleanup, request, answer>>

\* a ban expires: it no longer lasts through the requests in flight
BanExpires(a) ==
  /\ a \in banned
  /\ banned' = banned \ {a}
  /\ request' = [r \in Requests |->
       IF request[r] = Idle THEN Idle
       ELSE [request[r] EXCEPT !.banned = @ \ {a}]]
  /\ UNCHANGED <<rows, tokens, disclosed, cleanup, answer>>

\* the process stops, and starts again with the rows
Restart ==
  /\ request' = [r \in Requests |-> Idle]
  /\ answer' = [r \in Requests |-> IF request[r] = Idle THEN answer[r] ELSE "error"]
  /\ cleanup' = {}
  /\ UNCHANGED <<rows, tokens, disclosed, banned>>

Next ==
  \/ \E s \in States : BeginAuthURL(s)
  \/ \E r \in Requests, s \in States :
       EndAuthURL(r, s) \/ MakeTemporaryToken(r, s) \/ PromotionAuth(r, s)
  \/ \E r \in Requests, a \in Accounts : IdentifyAccount(r, a)
  \/ \E r \in Requests, i \in Ids : CreateNewSession(r, i) \/ CreateSuccessor(r, i)
  \/ \E r \in Requests, p \in Ids \cup {None} : RefreshAuth(r, p)
  \/ \E r \in Requests :
       \/ VerifyOTP(r) \/ DetectReuse(r) \/ CheckBans(r) \/ RequestFails(r)
  \/ \E i \in Ids : Cleanup(i)
  \/ \E a \in Accounts : Ban(a) \/ BanExpires(a)
  \/ Restart

Spec == Init /\ [][Next]_vars
-----------------------------------------------------------------------------
(***************************************************************************)
(* Properties.                                                             *)
(***************************************************************************)

\* Every variable has its type.
TypeOK ==
  /\ row \in [States -> {"unused", "present", "deleted"}]
  /\ subject \in [States -> Accounts \cup {None}]
  /\ sessions \subseteq Ids
  /\ predecessor \in [Ids -> Ids \cup {None}]
  /\ valid \subseteq sessions
  /\ holder \in [Ids -> Accounts \cup {None}]
  /\ origin \in [Ids -> States \cup {None}]
  /\ late \subseteq sessions
  /\ disclosed \subseteq sessions
  /\ banned \subseteq Accounts
  /\ cleanup \subseteq sessions
  /\ request \in [Requests -> RequestRecords \cup {Idle}]
  /\ answer \in [Requests -> Answers]

\* One login, one live token: of the sessions that go back to the same
\* authorization row, however many requests presented that row or refreshed the
\* same token at once, one alone has no successor and could be refreshed.
OneLiveToken ==
  \A i, j \in sessions :
    /\ origin[i] = origin[j]
    /\ Successors(i) = {} /\ Successors(j) = {}
    => i = j

\* An account with an OTP has a session only through a temporary token made out
\* to it and consumed by promotionAuth; any other only through an OAuth row.
\* Successors keep the account of the login.
PromotionRequired ==
  \A i \in sessions :
    /\ row[origin[i]] = "deleted"
    /\ subject[origin[i]] = IF holder[i] \in Protected THEN holder[i] ELSE None

\* invalidateSession reaches every session that descends from its argument: a
\* valid successor of an invalidated session was inserted after the invalidation
\* by a refreshSession that had already looked at the predecessor.
InvalidationReachesSuccessors ==
  \A i \in valid : predecessor[i] \in sessions \ valid => i \in late

\* A ban that lasts through a whole request keeps it from completing a token, on
\* each of the three paths that read the bans.
BanEnforced ==
  [][\A r \in Requests :
       request[r] # Idle /\ answer[r] = "none" /\ answer'[r] = "completed"
         => request[r].account \notin request[r].banned]_vars

=============================================================================
