--------------------------- MODULE Sessions_proofs ---------------------------
(***************************************************************************)
(* Theorems about sign-in and token rotation, for every set of accounts,   *)
(* authorization rows, sessions and requests.                              *)
(***************************************************************************)
EXTENDS Sessions, TLAPS

\* A row waits for the OTP of an account that has one.
Subjects == \A s \in States : subject[s] \in Protected \cup {None}

\* What a request knows, and stays true while it waits.
Knowledge(q) ==
  /\ q.banned \subseteq banned
  /\ q.step \in {"identify", "verify", "session"} =>
       q.state \in States /\ row[q.state] = "deleted"
  /\ q.step = "identify" => subject[q.state] = None
  /\ q.step = "verify" => q.account = subject[q.state] /\ q.account \in Protected
  /\ q.step = "temporary" => q.account \in Protected
  /\ q.step = "session" =>
       /\ q.account \in Accounts \ q.banned
       /\ subject[q.state] = IF q.account \in Protected THEN q.account ELSE None
  /\ q.step \in {"reuse", "create", "bans"} => q.session \in sessions
  /\ q.step = "create" => q.account = holder[q.session]
RequestsKnow == \A r \in Requests : request[r] # Idle => Knowledge(request[r])

\* A request that consumed a row is the only one, and no session comes from it yet.
Claims(q) == q # Idle /\ q.step \in {"identify", "verify", "session"}
OneClaim ==
  /\ \A r1, r2 \in Requests :
       /\ Claims(request[r1]) /\ Claims(request[r2])
       /\ request[r1].state = request[r2].state
       => r1 = r2
  /\ \A r \in Requests, i \in sessions :
       Claims(request[r]) => origin[i] # request[r].state

\* Predecessors are sessions, and every session has an account and a login.
Chains ==
  \A i \in sessions :
    /\ predecessor[i] \in sessions \cup {None}
    /\ origin[i] \in States
    /\ holder[i] \in Accounts

SessionsInv == Chains /\ OneLiveToken /\ PromotionRequired /\ InvalidationReachesSuccessors

\* The inductive invariant.
IInv == TypeOK /\ Subjects /\ RequestsKnow /\ OneClaim /\ SessionsInv

-----------------------------------------------------------------------------
(* What a step that is not about it leaves true. *)

\* Deleted rows keep what they say.
DeletedRowsStay ==
  \A s \in States : row[s] = "deleted" => row'[s] = "deleted" /\ subject'[s] = subject[s]

\* The requests that do not end go on as they were.
RequestsEnd == \A r \in Requests : request'[r] = Idle \/ request'[r] = request[r]

LEMMA RequestsFrame ==
  ASSUME RequestsKnow, RequestsEnd, DeletedRowsStay, banned \subseteq banned',
         sessions \subseteq sessions', \A i \in sessions : holder'[i] = holder[i]
  PROVE  RequestsKnow'
  BY DEF RequestsKnow, RequestsEnd, DeletedRowsStay, Knowledge

LEMMA ClaimFrame ==
  ASSUME OneClaim, RequestsEnd,
         \A i \in sessions' : i \in sessions /\ origin'[i] = origin[i]
  PROVE  OneClaim'
  BY DEF OneClaim, RequestsEnd, Claims

LEMMA SessionsFrame ==
  ASSUME SessionsInv, DeletedRowsStay, UNCHANGED tokens
  PROVE  SessionsInv'
  <1> USE DEF tokens
  <1>1. Chains'
    BY DEF SessionsInv, Chains
  <1>2. OneLiveToken'
    BY DEF SessionsInv, OneLiveToken, Successors
  <1>3. PromotionRequired'
    BY DEF SessionsInv, Chains, PromotionRequired, DeletedRowsStay
  <1>4. InvalidationReachesSuccessors'
    BY DEF SessionsInv, InvalidationReachesSuccessors
  <1> QED BY <1>1, <1>2, <1>3, <1>4 DEF SessionsInv

\* Deleting or creating an authorization row does not change a deleted one.
LEMMA RowsStay ==
  ASSUME TypeOK,
         \/ UNCHANGED rows
         \/ \E s \in States : DeleteTemporaryState(s)
         \/ \E s \in States, a \in Protected \cup {None} : NewTemporaryState(s, a)
  PROVE  DeletedRowsStay
  BY DEF TypeOK, rows, DeletedRowsStay, DeleteTemporaryState, NewTemporaryState

-----------------------------------------------------------------------------
(* invalidateSession. *)

\* A tree of sessions is closed under successors.
LEMMA TreeClosed ==
  ASSUME NEW p, NEW i \in sessions, predecessor[i] \in Tree(p)
  PROVE  i \in Tree(p)
  <1> SUFFICES ASSUME NEW S \in SUBSET sessions, p \in S, Closed(S) PROVE i \in S
    BY DEF Tree
  <1>1. predecessor[i] \in S
    BY DEF Tree
  <1> QED BY <1>1 DEF Closed

\* Invalidating a tree keeps what is said of the sessions.
LEMMA InvalidateStep ==
  ASSUME TypeOK, SessionsInv, NEW p, InvalidateSession(p), UNCHANGED rows
  PROVE  SessionsInv' /\ valid' \subseteq sessions'
  <1> USE DEF InvalidateSession, Invalidated, rows
  <1>1. Chains'
    BY DEF SessionsInv, Chains
  <1>2. OneLiveToken'
    BY DEF SessionsInv, OneLiveToken, Successors
  <1>3. PromotionRequired'
    BY DEF SessionsInv, PromotionRequired
  <1>4. InvalidationReachesSuccessors'
    <2> SUFFICES ASSUME NEW i \in valid', predecessor[i] \in sessions \ valid'
                 PROVE  i \in late
      BY DEF InvalidationReachesSuccessors
    <2>1. i \in valid /\ i \in sessions /\ i \notin Tree(p)
      BY DEF TypeOK
    <2>2. predecessor[i] \notin Tree(p)
      BY <2>1, TreeClosed
    <2> QED BY <2>1, <2>2 DEF SessionsInv, InvalidationReachesSuccessors
  <1> QED BY <1>1, <1>2, <1>3, <1>4 DEF SessionsInv, TypeOK

-----------------------------------------------------------------------------
(* session.create. *)

\* A new session is the one live token of its login: it either begins one or
\* takes the place of the live token that it succeeds.
LEMMA InsertStep ==
  ASSUME SessionsAssumption, TypeOK, SessionsInv, UNCHANGED rows,
         NEW i \in Ids, NEW a \in Accounts, NEW p \in Ids \cup {None}, NEW s \in States,
         InsertSession(i, a, p, s),
         row[s] = "deleted",
         subject[s] = IF a \in Protected THEN a ELSE None,
         \/ p = None /\ \A j \in sessions : origin[j] # s
         \/ p \in sessions /\ Successors(p) = {} /\ s = origin[p]
  PROVE  SessionsInv'
  <1> USE DEF InsertSession, rows
  <1>1. /\ i \notin sessions
        /\ predecessor'[i] = p /\ origin'[i] = s /\ holder'[i] = a
        /\ \A j \in sessions : /\ predecessor'[j] = predecessor[j]
                               /\ origin'[j] = origin[j]
                               /\ holder'[j] = holder[j]
    BY DEF TypeOK
  <1>2. Chains'
    BY <1>1 DEF SessionsInv, Chains
  <1>3. PromotionRequired'
    BY <1>1 DEF SessionsInv, PromotionRequired
  <1>4. None \notin sessions /\ i # None
    BY DEF SessionsAssumption, TypeOK
  <1>5. Successors(i)' = {}
    BY <1>1, <1>4 DEF Successors, SessionsInv, Chains
  <1>6. ASSUME NEW j \in sessions, Successors(j)' = {}, origin[j] = s PROVE FALSE
    <2>1. Successors(j) = {}
      BY <1>1, <1>6 DEF Successors
    <2>2. CASE p = None /\ \A k \in sessions : origin[k] # s
      BY <2>2, <1>6
    <2>3. CASE p \in sessions /\ Successors(p) = {} /\ s = origin[p]
      <3>1. j = p
        BY <2>1, <2>3, <1>6 DEF SessionsInv, OneLiveToken
      <3>2. i \in Successors(p)'
        BY <1>1 DEF Successors
      <3> QED BY <3>1, <3>2, <1>6
    <2> QED BY <2>2, <2>3
  <1>7. ASSUME NEW j \in sessions, Successors(j)' = {} PROVE Successors(j) = {}
    BY <1>1, <1>7 DEF Successors
  <1>8. OneLiveToken'
    <2> SUFFICES ASSUME NEW j \in sessions', NEW k \in sessions', origin'[j] = origin'[k],
                        Successors(j)' = {}, Successors(k)' = {}
                 PROVE  j = k
      BY DEF OneLiveToken
    <2>1. CASE j = i
      BY <2>1, <1>1, <1>6
    <2>2. CASE k = i
      BY <2>2, <1>1, <1>6
    <2>3. CASE j # i /\ k # i
      <3>1. j \in sessions /\ k \in sessions /\ origin[j] = origin[k]
        BY <2>3, <1>1
      <3> QED BY <3>1, <1>7 DEF SessionsInv, OneLiveToken
    <2> QED BY <2>1, <2>2, <2>3
  <1>9. InvalidationReachesSuccessors'
    <2> SUFFICES ASSUME NEW j \in valid', predecessor'[j] \in sessions' \ valid'
                 PROVE  j \in late'
      BY DEF InvalidationReachesSuccessors
    <2>1. CASE j = i
      BY <2>1, <1>1
    <2>2. CASE j # i
      <3>1. j \in valid /\ j \in sessions /\ predecessor[j] \in sessions \ valid
        BY <2>2, <1>1 DEF TypeOK
      <3> QED BY <3>1 DEF SessionsInv, InvalidationReachesSuccessors
    <2> QED BY <2>1, <2>2
  <1> QED BY <1>2, <1>3, <1>8, <1>9 DEF SessionsInv
-----------------------------------------------------------------------------
(* The steps of the handlers. *)

\* A request that has just begun, or moved on: the others are as they were.
LEMMA OneRequestMoves ==
  ASSUME RequestsKnow, UNCHANGED banned, DeletedRowsStay,
         sessions \subseteq sessions', \A i \in sessions : holder'[i] = holder[i],
         NEW r \in Requests, \A x \in Requests \ {r} : request'[x] = request[x],
         request'[r] # Idle => Knowledge(request[r])'
  PROVE  RequestsKnow'
  <1> SUFFICES ASSUME NEW x \in Requests, request'[x] # Idle
               PROVE  Knowledge(request[x])'
    BY DEF RequestsKnow
  <1>1. CASE x = r
    BY <1>1
  <1>2. CASE x # r
    <2>1. request'[x] = request[x]
      BY <1>2
    <2>2. Knowledge(request[x])
      BY <2>1 DEF RequestsKnow
    <2> QED BY <2>1, <2>2 DEF Knowledge, DeletedRowsStay
  <1> QED BY <1>1, <1>2

\* beginAuthURL adds an OAuth row.
LEMMA BeginAuthURLStep ==
  ASSUME IInv, NEW s \in States, BeginAuthURL(s)
  PROVE  IInv'
  <1> USE DEF IInv, BeginAuthURL, tokens
  <1>1. DeletedRowsStay
    BY RowsStay
  <1>2. TypeOK' /\ Subjects'
    BY DEF TypeOK, NewTemporaryState, Subjects
  <1>3. RequestsKnow' /\ OneClaim'
    BY <1>1, RequestsFrame, ClaimFrame DEF RequestsEnd
  <1>4. SessionsInv'
    BY <1>1, SessionsFrame
  <1> QED BY <1>2, <1>3, <1>4

\* endAuthURL and promotionAuth: whoever deletes the row has the only claim to it.
LEMMA EndAuthURLStep ==
  ASSUME IInv, NEW r \in Requests, NEW s \in States, EndAuthURL(r, s)
  PROVE  IInv'
  <1> USE DEF IInv, EndAuthURL, tokens
  <1>1. DeletedRowsStay
    BY RowsStay
  <1>2. TypeOK' /\ Subjects'
    BY DEF TypeOK, DeleteTemporaryState, Subjects, Begin, Refuse, RequestRecords, Steps, Answers, rows
  <1>3. SessionsInv'
    BY <1>1, SessionsFrame
  <1>4. CASE row[s] = "present" /\ DeleteTemporaryState(s) /\ Begin(r, "identify", s, None, None)
             /\ subject[s] = None
    <2>1. /\ \A x \in Requests \ {r} : request'[x] = request[x]
          /\ request'[r] = [step |-> "identify", state |-> s, account |-> None,
                            session |-> None, banned |-> banned]
      BY <1>4 DEF Begin, TypeOK
    <2>2. Knowledge(request[r])'
      BY <1>4, <2>1 DEF Knowledge, DeleteTemporaryState, TypeOK
    <2>3. RequestsKnow'
      BY <1>1, <2>1, <2>2, OneRequestMoves
    <2>4. \A x \in Requests : Claims(request[x]) => request[x].state # s
      BY <1>4 DEF RequestsKnow, Knowledge, Claims
    <2>5. \A i \in sessions : origin[i] # s
      BY <1>4 DEF SessionsInv, PromotionRequired
    <2>6. OneClaim'
      BY <2>1, <2>4, <2>5 DEF OneClaim, Claims
    <2> QED BY <1>2, <1>3, <2>3, <2>6
  <1>5. CASE Refuse(r)
    BY <1>1, <1>2, <1>3, <1>5, RequestsFrame, ClaimFrame DEF RequestsEnd, Refuse
  <1> QED BY <1>4, <1>5

LEMMA PromotionAuthStep ==
  ASSUME IInv, NEW r \in Requests, NEW s \in States, PromotionAuth(r, s)
  PROVE  IInv'
  <1> USE DEF IInv, PromotionAuth, tokens
  <1>1. DeletedRowsStay
    BY RowsStay
  <1>2. TypeOK' /\ Subjects'
    BY DEF TypeOK, DeleteTemporaryState, Subjects, Begin, Refuse, RequestRecords, Steps, Answers, rows
  <1>3. SessionsInv'
    BY <1>1, SessionsFrame
  <1>4. CASE row[s] = "present" /\ DeleteTemporaryState(s) /\ Begin(r, "verify", s, subject[s], None)
    <2>1. /\ \A x \in Requests \ {r} : request'[x] = request[x]
          /\ request'[r] = [step |-> "verify", state |-> s, account |-> subject[s],
                            session |-> None, banned |-> banned]
      BY <1>4 DEF Begin, TypeOK
    <2>2. Knowledge(request[r])'
      BY <1>4, <2>1 DEF Knowledge, DeleteTemporaryState, TypeOK, Subjects
    <2>3. RequestsKnow'
      BY <1>1, <2>1, <2>2, OneRequestMoves
    <2>4. \A x \in Requests : Claims(request[x]) => request[x].state # s
      BY <1>4 DEF RequestsKnow, Knowledge, Claims
    <2>5. \A i \in sessions : origin[i] # s
      BY <1>4 DEF SessionsInv, PromotionRequired
    <2>6. OneClaim'
      BY <2>1, <2>4, <2>5 DEF OneClaim, Claims
    <2> QED BY <1>2, <1>3, <2>3, <2>6
  <1>5. CASE Refuse(r)
    BY <1>1, <1>2, <1>3, <1>5, RequestsFrame, ClaimFrame DEF RequestsEnd, Refuse
  <1> QED BY <1>4, <1>5

\* A request that keeps its row and moves on keeps its claim, and gets no new one.
LEMMA ClaimMoves ==
  ASSUME OneClaim, UNCHANGED <<sessions, origin>>,
         NEW r \in Requests, \A x \in Requests \ {r} : request'[x] = request[x],
         Claims(request[r])' => Claims(request[r]) /\ request'[r].state = request[r].state
  PROVE  OneClaim'
  BY DEF OneClaim, Claims

\* The account that came back from the provider, and the check of an OTP.
LEMMA IdentifyAccountStep ==
  ASSUME IInv, SessionsAssumption, NEW r \in Requests, NEW a \in Accounts, IdentifyAccount(r, a)
  PROVE  IInv'
  <1> USE DEF IInv, IdentifyAccount, tokens, rows
  <1>1. DeletedRowsStay
    BY RowsStay
  <1>2. TypeOK' /\ Subjects'
    BY DEF TypeOK, Subjects, At, End, GoToWith, NextStep, RequestRecords, Steps, Answers
  <1>3. SessionsInv'
    BY <1>1, SessionsFrame
  <1>4. CASE End(r, "blocked")
    BY <1>1, <1>2, <1>3, <1>4, RequestsFrame, ClaimFrame DEF RequestsEnd, End, TypeOK
  <1>5. CASE NextStep(a) # "blocked"
    <2>1. /\ \A x \in Requests \ {r} : request'[x] = request[x]
          /\ request'[r] = [request[r] EXCEPT !.step = NextStep(a), !.account = a]
          /\ request[r] \in RequestRecords /\ request[r].step = "identify"
      BY <1>5 DEF GoToWith, TypeOK, At
    <2>2. Knowledge(request[r])
      BY <2>1 DEF RequestsKnow, At
    <2>3. Knowledge(request[r])'
      BY <1>5, <2>1, <2>2 DEF Knowledge, NextStep, RequestRecords, SessionsAssumption
    <2>4. RequestsKnow'
      BY <1>1, <2>1, <2>3, OneRequestMoves
    <2>5. OneClaim'
      BY <2>1, ClaimMoves DEF Claims, RequestRecords, At
    <2> QED BY <1>2, <1>3, <2>4, <2>5
  <1> QED BY <1>4, <1>5

LEMMA VerifyOTPStep ==
  ASSUME IInv, SessionsAssumption, NEW r \in Requests, VerifyOTP(r)
  PROVE  IInv'
  <1> USE DEF IInv, VerifyOTP, tokens, rows
  <1>1. DeletedRowsStay
    BY RowsStay
  <1>2. TypeOK' /\ Subjects'
    BY DEF TypeOK, Subjects, At, End, GoTo, RequestRecords, Steps, Answers
  <1>3. SessionsInv'
    BY <1>1, SessionsFrame
  <1>4. CASE UNCHANGED request \/ request' = [request EXCEPT ![r] = Idle]
    BY <1>1, <1>2, <1>3, <1>4, RequestsFrame, ClaimFrame DEF RequestsEnd, TypeOK
  <1>5. CASE request[r].account \notin banned /\ GoTo(r, "session")
    <2>1. /\ \A x \in Requests \ {r} : request'[x] = request[x]
          /\ request'[r] = [request[r] EXCEPT !.step = "session"]
          /\ request[r] \in RequestRecords /\ request[r].step = "verify"
      BY <1>5 DEF GoTo, TypeOK, At
    <2>2. Knowledge(request[r])
      BY DEF RequestsKnow, At
    <2>3. Knowledge(request[r])'
      BY <1>5, <2>1, <2>2 DEF Knowledge, RequestRecords, SessionsAssumption
    <2>4. RequestsKnow'
      BY <1>1, <2>1, <2>3, OneRequestMoves
    <2>5. OneClaim'
      BY <2>1, ClaimMoves DEF Claims, RequestRecords, At
    <2> QED BY <1>2, <1>3, <2>4, <2>5
  <1> QED BY <1>4, <1>5 DEF End

LEMMA MakeTemporaryTokenStep ==
  ASSUME IInv, SessionsAssumption, NEW r \in Requests, NEW s \in States, MakeTemporaryToken(r, s)
  PROVE  IInv'
  <1> USE DEF IInv, MakeTemporaryToken, tokens
  <1>1. request[r].account \in Protected
    BY DEF At, RequestsKnow, Knowledge
  <1>2. DeletedRowsStay
    BY <1>1, RowsStay
  <1>3. TypeOK' /\ Subjects'
    BY <1>1 DEF TypeOK, Subjects, At, End, NewTemporaryState, RequestRecords, Answers, SessionsAssumption
  <1>4. SessionsInv'
    BY <1>2, SessionsFrame
  <1>5. RequestsKnow' /\ OneClaim'
    BY <1>2, RequestsFrame, ClaimFrame DEF RequestsEnd, End, TypeOK
  <1> QED BY <1>3, <1>4, <1>5

\* A login's first session: the request's claim becomes the session.
LEMMA CreateNewSessionStep ==
  ASSUME IInv, SessionsAssumption, NEW r \in Requests, NEW i \in Ids, CreateNewSession(r, i)
  PROVE  IInv'
  <1> USE DEF IInv, CreateNewSession, rows
  <1> DEFINE q == request[r]
  <1>1. /\ q \in RequestRecords /\ q.step = "session" /\ q # Idle
        /\ Knowledge(q) /\ Claims(q)
    BY DEF At, TypeOK, RequestsKnow, Claims
  <1>2. /\ q.account \in Accounts /\ q.state \in States /\ row[q.state] = "deleted"
        /\ subject[q.state] = IF q.account \in Protected THEN q.account ELSE None
        /\ \A j \in sessions : origin[j] # q.state
    BY <1>1 DEF Knowledge, OneClaim
  <1>3. SessionsInv'
    BY <1>2, InsertStep
  <1>4. TypeOK' /\ Subjects'
    BY <1>2 DEF TypeOK, Subjects, InsertSession, End, Answers
  <1>5. DeletedRowsStay
    BY RowsStay
  <1>6. RequestsKnow'
    BY <1>5, RequestsFrame DEF RequestsEnd, End, TypeOK, InsertSession
  <1>7. ASSUME NEW x \in Requests, Claims(request[x])'
        PROVE  x # r /\ request'[x] = request[x] /\ Claims(request[x]) /\ request[x].state # q.state
    BY <1>1, <1>7 DEF Claims, End, TypeOK, OneClaim
  <1>8. OneClaim'
    BY <1>7 DEF OneClaim, InsertSession, TypeOK
  <1> QED BY <1>3, <1>4, <1>6, <1>8

\* refreshAuth starts with what the row says.
LEMMA RefreshAuthStep ==
  ASSUME IInv, NEW r \in Requests, NEW p \in Ids \cup {None}, RefreshAuth(r, p)
  PROVE  IInv'
  <1> USE DEF IInv, RefreshAuth, tokens, rows
  <1>1. DeletedRowsStay
    BY RowsStay
  <1>2. TypeOK' /\ Subjects'
    BY DEF TypeOK, Subjects, Begin, Refuse, RequestRecords, Steps, Answers
  <1>3. SessionsInv'
    BY <1>1, SessionsFrame
  <1>4. CASE Refuse(r)
    BY <1>1, <1>2, <1>3, <1>4, RequestsFrame, ClaimFrame DEF RequestsEnd, Refuse
  <1>5. ASSUME NEW step \in {"reuse", "create"}, NEW a, Begin(r, step, None, a, p), p \in valid,
               step = "create" => a = holder[p]
        PROVE  IInv'
    <2>1. /\ \A x \in Requests \ {r} : request'[x] = request[x]
          /\ request'[r] = [step |-> step, state |-> None, account |-> a, session |-> p,
                            banned |-> banned]
      BY <1>5 DEF Begin, TypeOK
    <2>2. Knowledge(request[r])'
      BY <1>5, <2>1 DEF Knowledge, TypeOK
    <2>3. RequestsKnow'
      BY <1>1, <2>1, <2>2, OneRequestMoves
    <2>4. OneClaim'
      BY <2>1, ClaimMoves DEF Claims
    <2> QED BY <1>2, <1>3, <2>3, <2>4
  <1> QED BY <1>4, <1>5

LEMMA DetectReuseStep ==
  ASSUME IInv, NEW r \in Requests, DetectReuse(r)
  PROVE  IInv'
  <1> USE DEF IInv, DetectReuse, rows
  <1>1. DeletedRowsStay
    BY RowsStay
  <1>2. SessionsInv' /\ valid' \subseteq sessions'
    BY InvalidateStep
  <1>3. TypeOK' /\ Subjects'
    BY <1>2 DEF TypeOK, Subjects, End, Answers, InvalidateSession
  <1>4. RequestsKnow' /\ OneClaim'
    BY <1>1, RequestsFrame, ClaimFrame DEF RequestsEnd, End, TypeOK, InvalidateSession
  <1> QED BY <1>2, <1>3, <1>4

LEMMA CleanupStep ==
  ASSUME IInv, NEW i \in Ids, Cleanup(i)
  PROVE  IInv'
  <1> USE DEF IInv, Cleanup, rows
  <1>1. DeletedRowsStay
    BY RowsStay
  <1>2. SessionsInv' /\ valid' \subseteq sessions'
    BY InvalidateStep
  <1>3. TypeOK' /\ Subjects'
    BY <1>2 DEF TypeOK, Subjects, InvalidateSession
  <1>4. RequestsKnow' /\ OneClaim'
    BY <1>1, RequestsFrame, ClaimFrame DEF RequestsEnd, InvalidateSession
  <1> QED BY <1>2, <1>3, <1>4

\* A refresh inserts the successor of a token that was live, or is refused.
LEMMA CreateSuccessorStep ==
  ASSUME IInv, SessionsAssumption, NEW r \in Requests, NEW i \in Ids, CreateSuccessor(r, i)
  PROVE  IInv'
  <1> USE DEF IInv, CreateSuccessor, rows
  <1> DEFINE p == request[r].session
  <1>1. DeletedRowsStay
    BY RowsStay
  <1>2. /\ request[r] \in RequestRecords /\ request[r].step = "create"
        /\ p \in sessions /\ request[r].account = holder[p]
        /\ request[r].banned \subseteq banned
    BY DEF At, TypeOK, RequestsKnow, Knowledge
  <1>3. CASE End(r, "conflict") /\ UNCHANGED tokens
    <2>1. TypeOK' /\ Subjects'
      BY <1>3 DEF TypeOK, Subjects, End, Answers, tokens
    <2>2. RequestsKnow' /\ OneClaim'
      BY <1>1, <1>3, RequestsFrame, ClaimFrame DEF RequestsEnd, End, TypeOK, tokens
    <2>3. SessionsInv'
      BY <1>1, <1>3, SessionsFrame
    <2> QED BY <2>1, <2>2, <2>3
  <1>4. CASE /\ SuccessorFree(p)
             /\ InsertSession(i, request[r].account, p, origin[p])
             /\ request' = [request EXCEPT ![r].step = "bans", ![r].session = i]
             /\ UNCHANGED answer
    <2>1. /\ holder[p] \in Accounts /\ origin[p] \in States /\ row[origin[p]] = "deleted"
          /\ subject[origin[p]] = IF holder[p] \in Protected THEN holder[p] ELSE None
          /\ p \in Ids
      BY <1>2 DEF SessionsInv, Chains, PromotionRequired, TypeOK
    <2>2. SessionsInv'
      BY <1>2, <1>4, <2>1, InsertStep DEF SuccessorFree
    <2>3. TypeOK' /\ Subjects'
      BY <1>2, <1>4, <2>1 DEF TypeOK, Subjects, InsertSession, RequestRecords, Steps
    <2>4. /\ \A x \in Requests \ {r} : request'[x] = request[x]
          /\ request'[r] = [request[r] EXCEPT !.step = "bans", !.session = i]
          /\ sessions' = sessions \cup {i} /\ i \notin sessions
          /\ origin'[i] = origin[p]
          /\ \A j \in sessions : holder'[j] = holder[j] /\ origin'[j] = origin[j]
      BY <1>4 DEF InsertSession, TypeOK
    <2>5. Knowledge(request[r])'
      BY <1>2, <2>4 DEF Knowledge, RequestRecords
    <2>6. RequestsKnow'
      BY <1>1, <2>4, <2>5, OneRequestMoves
    <2>7. ASSUME NEW x \in Requests, Claims(request[x])'
          PROVE  /\ request'[x] = request[x] /\ Claims(request[x])
                 /\ origin[p] # request[x].state
      <3>1. x # r
        BY <1>2, <2>4, <2>7 DEF Claims, RequestRecords
      <3> QED BY <1>2, <2>4, <2>7, <3>1 DEF Claims, OneClaim
    <2>8. OneClaim'
      BY <2>4, <2>7 DEF OneClaim
    <2> QED BY <2>2, <2>3, <2>6, <2>8
  <1> QED BY <1>3, <1>4

\* The end of a refresh, and a request that fails.
LEMMA EndingStep ==
  ASSUME IInv, NEW r \in Requests, CheckBans(r) \/ RequestFails(r)
  PROVE  IInv'
  <1> USE DEF IInv, CheckBans, RequestFails, rows, tokens
  <1>1. DeletedRowsStay
    BY RowsStay
  <1>2. TypeOK' /\ Subjects'
    BY DEF TypeOK, Subjects, At, End, Answers, RequestsKnow, Knowledge
  <1>3. SessionsInv'
    BY <1>1, SessionsFrame
  <1>4. RequestsKnow' /\ OneClaim'
    BY <1>1, RequestsFrame, ClaimFrame DEF RequestsEnd, End, TypeOK
  <1> QED BY <1>2, <1>3, <1>4

\* Bans come and go, and the process restarts.
LEMMA EnvironmentStep ==
  ASSUME IInv, Restart \/ \E a \in Accounts : Ban(a) \/ BanExpires(a)
  PROVE  IInv'
  <1> USE DEF IInv, rows, tokens
  <1>1. UNCHANGED <<rows, tokens, disclosed>>
    BY DEF Restart, Ban, BanExpires
  <1>2. DeletedRowsStay /\ SessionsInv'
    BY <1>1, RowsStay, SessionsFrame
  <1>3. CASE Restart
    <2>1. TypeOK' /\ Subjects'
      BY <1>3 DEF Restart, TypeOK, Subjects, Answers
    <2>2. RequestsKnow' /\ OneClaim'
      BY <1>2, <1>3, RequestsFrame, ClaimFrame DEF RequestsEnd, Restart
    <2> QED BY <1>2, <2>1, <2>2
  <1>4. ASSUME NEW a \in Accounts, Ban(a) PROVE IInv'
    <2>1. TypeOK' /\ Subjects'
      BY <1>4 DEF Ban, TypeOK, Subjects
    <2>2. RequestsKnow' /\ OneClaim'
      BY <1>2, <1>4, RequestsFrame, ClaimFrame DEF RequestsEnd, Ban
    <2> QED BY <1>2, <2>1, <2>2
  <1>5. ASSUME NEW a \in Accounts, BanExpires(a) PROVE IInv'
    <2>1. ASSUME NEW x \in Requests, request[x] # Idle
          PROVE  /\ request[x] \in RequestRecords
                 /\ request'[x] = [request[x] EXCEPT !.banned = @ \ {a}]
      BY <1>5, <2>1 DEF BanExpires, TypeOK
    <2>2. \A x \in Requests : request[x] = Idle => request'[x] = Idle
      BY <1>5 DEF BanExpires
    <2>3. TypeOK' /\ Subjects'
      BY <1>5 DEF BanExpires, TypeOK, Subjects, RequestRecords
    <2>4. RequestsKnow'
      BY <1>5, <2>1, <2>2 DEF RequestsKnow, Knowledge, BanExpires, RequestRecords
    <2>5. ASSUME NEW x \in Requests, Claims(request[x])'
          PROVE  Claims(request[x]) /\ request'[x].state = request[x].state
      BY <2>1, <2>2, <2>5 DEF Claims, RequestRecords
    <2>6. OneClaim'
      BY <1>1, <2>5 DEF OneClaim
    <2> QED BY <1>2, <2>3, <2>4, <2>6
  <1> QED BY <1>3, <1>4, <1>5

-----------------------------------------------------------------------------
(* The theorems. *)

LEMMA InitIInv == Init => IInv
  BY DEF Init, IInv, TypeOK, Subjects, RequestsKnow, OneClaim, Claims, SessionsInv, Chains,
     OneLiveToken, PromotionRequired, InvalidationReachesSuccessors, Answers

LEMMA NextIInv ==
  ASSUME SessionsAssumption, IInv, [Next]_vars
  PROVE  IInv'
  <1>1. CASE UNCHANGED vars
    <2> USE DEF vars, rows, tokens
    <2>1. DeletedRowsStay
      BY <1>1 DEF DeletedRowsStay
    <2>2. TypeOK' /\ Subjects'
      BY <1>1 DEF IInv, TypeOK, Subjects
    <2>3. SessionsInv'
      BY <1>1, <2>1, SessionsFrame DEF IInv
    <2>4. RequestsKnow' /\ OneClaim'
      BY <1>1, <2>1, RequestsFrame, ClaimFrame DEF IInv, RequestsEnd
    <2> QED BY <2>2, <2>3, <2>4 DEF IInv
  <1>2. CASE Next
    BY <1>2, BeginAuthURLStep, EndAuthURLStep, MakeTemporaryTokenStep, PromotionAuthStep,
       IdentifyAccountStep, CreateNewSessionStep, CreateSuccessorStep, RefreshAuthStep,
       VerifyOTPStep, DetectReuseStep, EndingStep, CleanupStep, EnvironmentStep DEF Next
  <1> QED BY <1>1, <1>2

\* Every behaviour of the handlers keeps the inductive invariant.
THEOREM Invariance == Spec => []IInv
  BY InitIInv, NextIInv, SessionsAssumption, PTL DEF Spec

\* Type correctness of the rows and the requests.
THEOREM TypeCorrect == Spec => []TypeOK
  BY Invariance, PTL DEF IInv

\* One login has at most one token that can be refreshed, whatever is retried or
\* runs at once (findAndDeleteTemporaryState, the unique predecessorId).
THEOREM OneLiveTokenPerLogin == Spec => []OneLiveToken
  BY Invariance, PTL DEF IInv, SessionsInv

\* A session of an account with an OTP goes back to promotionAuth.
THEOREM PromotionIsRequired == Spec => []PromotionRequired
  BY Invariance, PTL DEF IInv, SessionsInv

\* invalidateSession leaves valid only successors inserted after it.
THEOREM InvalidationIsRecursive == Spec => []InvalidationReachesSuccessors
  BY Invariance, PTL DEF IInv, SessionsInv

\* No token is completed for an account that is banned throughout the request.
THEOREM BansAreEnforced == Spec => BanEnforced
  <1> DEFINE Enforced ==
        \A r \in Requests :
          request[r] # Idle /\ answer[r] = "none" /\ answer'[r] = "completed"
            => request[r].account \notin request[r].banned
  <1>1. ASSUME IInv, [Next]_vars PROVE Enforced
    <2> SUFFICES ASSUME NEW r \in Requests, request[r] # Idle, answer[r] = "none",
                        answer'[r] = "completed"
                 PROVE  request[r].account \notin request[r].banned
      OBVIOUS
    <2>1. Knowledge(request[r])
      BY <1>1 DEF IInv, RequestsKnow
    <2>2. answer \in [Requests -> Answers]
      BY <1>1 DEF IInv, TypeOK
    <2>3. Next
      BY <1>1 DEF vars
    <2>4. ASSUME NEW x \in Requests, NEW how \in Answers \ {"completed"},
                 answer' = [answer EXCEPT ![x] = how]
          PROVE  FALSE
      BY <2>2, <2>4
    <2>5. \/ \E x \in Requests, i \in Ids : CreateNewSession(x, i)
          \/ \E x \in Requests : CheckBans(x)
      <3> SUFFICES ASSUME answer' # answer, answer' # [q \in Requests |->
                            IF request[q] = Idle THEN answer[q] ELSE "error"]
                   PROVE  \/ \E x \in Requests, i \in Ids : CreateNewSession(x, i)
                          \/ \E x \in Requests : CheckBans(x)
        OBVIOUS
      <3> QED BY <2>3, <2>4
        DEF Answers, Next, End, Refuse, Begin, BeginAuthURL, EndAuthURL, MakeTemporaryToken,
            PromotionAuth, IdentifyAccount, CreateSuccessor, RefreshAuth, VerifyOTP,
            DetectReuse, RequestFails, Cleanup, Ban, BanExpires, Restart
    <2>6. CASE \E x \in Requests, i \in Ids : CreateNewSession(x, i)
      <3>1. request[r].step = "session"
        BY <2>2, <2>6 DEF CreateNewSession, End, At
      <3> QED BY <2>1, <3>1 DEF Knowledge
    <2>7. CASE \E x \in Requests : CheckBans(x)
      <3>1. request[r].account \notin banned
        BY <2>2, <2>7 DEF CheckBans, End, Refusable
      <3> QED BY <2>1, <3>1 DEF Knowledge
    <2> QED BY <2>5, <2>6, <2>7
  <1> QED BY <1>1, Invariance, PTL DEF Spec, BanEnforced
=============================================================================
