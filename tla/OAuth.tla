------------------------------- MODULE OAuth -------------------------------
(***************************************************************************)
(* The OAuth exchange behind auth/begin and auth/end: the query that the   *)
(* user agent brings back, the one-time state, the token request, and the  *)
(* subject that the provider names.  Errors are thrown as exceptions of    *)
(* two families and caught twice, in fetchSubject and in endAuthURL.       *)
(* What the account is then given is modelled in Sessions.                 *)
(***************************************************************************)
EXTENDS FiniteSets, Naturals

CONSTANTS
  Sources,       \* endpoint keys
  Redirects,     \* redirect URIs
  States,        \* ids of authorization rows
  Flows,         \* bound: auth/end requests in flight at once
  Absent         \* no parameter, no row, no flow

VARIABLES
  sources,       \* the configured sources: key -> kind; see SourceKinds
  authorization, \* the authorization rows: [States -> Rows \cup {Absent}]
  flow,          \* the auth/end requests
  minted,        \* history: what each state was made for
  exchanges      \* history: how often a token was asked for with each state

oauthVars == <<sources, authorization, flow, minted, exchanges>>

\* an OpenID source with or without JWKs, another one with or without a subject URL
SourceKinds == {"openid", "openid_no_jwks", "manual", "manual_no_url", "undefined"}

Rows == [source : Sources, redirect : Redirects]

(***************************************************************************)
(* A query holds each parameter not at all, once, or several times.  The   *)
(* framework turns the last into an array, and URLSearchParams joins it to *)
(* one value that names nothing: MultipleParameterError is never thrown.   *)
(***************************************************************************)
Joined == "joined"
Queries ==
  [state : States \cup {Absent, Joined},
   error : {Absent, "access_denied", Joined},
   code : {Absent, "code", Joined}]

\* the token endpoint's answer: its HTTP status, and what is looked at in its JSON body
TokenResponses ==
  [status : {200}, access_token : BOOLEAN, token_type : BOOLEAN, id_token : BOOLEAN]
    \cup [status : {400}, access_token : BOOLEAN, error : {Absent, "invalid_grant", "other"}]
    \cup [status : {401, 503}]

\* ways in which the subject is obtained: fine, a server or a signature that is
\* not, a body without the subject
SubjectAnswers == {"subject", "bad_server", "no_subject"}

Unknown == "UnknownOAuthError"        \* and its subclasses
Defined == "OAuthDefinedError"        \* and its subclasses
Other == "Error"                      \* not an OAuthError

NoResponse == [status |-> 0]
FlowRecords ==
  [step : {"find", "fetch", "subject", "ended"}, query : Queries,
   row : Rows \cup {Absent}, response : TokenResponses \cup {NoResponse},
   answer : {0, 200, 400, 500, 502}]

ASSUME AbsentAssumption == Absent \notin Rows \cup FlowRecords \cup {Unknown, Defined}
ASSUME JoinedAssumption == Joined \notin States

OAuthInit ==
  /\ sources = [k \in Sources |-> "openid"]
  /\ authorization = [s \in States |-> Absent]
  /\ flow = [f \in Flows |-> Absent]
  /\ minted = [s \in States |-> Absent]
  /\ exchanges = [s \in States |-> 0]

(***************************************************************************)
(* The classifiers of library/oauth.ts.                                    *)
(***************************************************************************)
IsAuthorizationError(error) == error = "access_denied"    \* one of the seven codes
IsTokenError(error) == error = "invalid_grant"            \* one of the six codes

\* endAuthorizationCodeURL: the error it throws, or Absent
QueryError(query) ==
  IF query.error # Absent
  THEN IF IsAuthorizationError(query.error) THEN Absent ELSE Unknown
  ELSE IF query.code = Absent THEN Unknown ELSE Absent

\* makeAuthorizationCodeRequest: an error response throws what it says
CodeError(query) == IF query.error = Absent THEN Absent ELSE Defined

IsTokenSuccessfulResponse(response) == response.access_token /\ response.token_type

\* isTokenErrorResponse also asks for an access_token
IsTokenErrorResponse(response) ==
  response.access_token /\ response.error # Absent /\ IsTokenError(response.error)

\* fetchToken: the error it throws, or Absent
TokenError(response) ==
  IF response.status = 200
  THEN IF IsTokenSuccessfulResponse(response) THEN Absent ELSE Unknown
  ELSE IF response.status = 400
  THEN IF IsTokenErrorResponse(response) THEN Defined ELSE Unknown
  ELSE IF response.status = 401 THEN Defined
  ELSE Unknown

\* the catch of endAuthURL: both families are the query's fault
QueryStatus(error) == IF error \in {Unknown, Defined} THEN 400 ELSE 500

\* Mutant of TokenStatus: the inner catch is missing.
TokenStatusUncaught(error) == QueryStatus(error)

\* the catch of fetchSubject, which comes first and leaves the outer one nothing to catch
TokenStatus(error) ==
  CASE error = Defined -> 500 [] error = Unknown -> 502 [] OTHER -> 500

(***************************************************************************)
(* auth/begin: a row, and a URL that carries its id.                       *)
(***************************************************************************)
BeginSignIn(key, redirect) ==
  /\ sources[key] # "undefined"
  /\ \E s \in States :
       /\ minted[s] = Absent                         \* ids are never used again
       /\ minted' = [minted EXCEPT ![s] = [source |-> key, redirect |-> redirect]]
       /\ authorization' = [authorization EXCEPT ![s] = minted'[s]]
  /\ UNCHANGED <<sources, flow, exchanges>>

(***************************************************************************)
(* auth/end.                                                               *)
(***************************************************************************)
Ended(r, status) == [r EXCEPT !.step = "ended", !.answer = status]

AnswerFlow(f, status) == flow' = [flow EXCEPT ![f] = Ended(@, status)]

NewFlow(query) ==
  [step |-> "find", query |-> query, row |-> Absent, response |-> NoResponse, answer |-> 0]

EndSignIn(f, query) ==
  /\ flow[f] = Absent
  /\ flow' = [flow EXCEPT ![f] =
       IF QueryError(query) # Absent
       THEN Ended(NewFlow(query), QueryStatus(QueryError(query)))
       ELSE IF query.state = Absent THEN Ended(NewFlow(query), 400)
       ELSE NewFlow(query)]
  /\ UNCHANGED <<sources, authorization, minted, exchanges>>

FlowAt(f, step) == flow[f] # Absent /\ flow[f].step = step

\* the row of the flow's state; a joined one is no UUID
RowOf(f) ==
  IF flow[f].query.state = Joined THEN Absent ELSE authorization[flow[f].query.state]

\* no such row, or P2023: both are answered 400
StateRefused(f) ==
  /\ FlowAt(f, "find") /\ RowOf(f) = Absent
  /\ AnswerFlow(f, 400)
  /\ UNCHANGED <<sources, authorization, minted, exchanges>>

\* the token request is made out of the row and the query, and sent
GoesOn(f, s) ==
  LET row == authorization[s]
      error == CodeError(flow[f].query)
  IN IF sources[row.source] = "undefined"
     THEN AnswerFlow(f, 400) /\ UNCHANGED exchanges
     ELSE IF error # Absent THEN AnswerFlow(f, QueryStatus(error)) /\ UNCHANGED exchanges
     ELSE /\ flow' = [flow EXCEPT ![f] = [@ EXCEPT !.step = "fetch", !.row = row]]
          /\ exchanges' = [exchanges EXCEPT ![s] = @ + 1]

\* Mutant of StateFound: the row is found, but not deleted.
StateFoundOnly(f) ==
  /\ FlowAt(f, "find") /\ RowOf(f) # Absent
  /\ GoesOn(f, flow[f].query.state)
  /\ UNCHANGED <<sources, authorization, minted>>

\* findAndDeleteTemporaryState: whatever follows, the state is used up
StateFound(f) ==
  /\ FlowAt(f, "find") /\ RowOf(f) # Absent
  /\ GoesOn(f, flow[f].query.state)
  /\ authorization' = [authorization EXCEPT ![flow[f].query.state] = Absent]
  /\ UNCHANGED <<sources, minted>>

\* the token endpoint answers
TokenAnswered(f, response) ==
  /\ FlowAt(f, "fetch")
  /\ flow' = [flow EXCEPT ![f] =
       LET r == [@ EXCEPT !.response = response]
       IN IF TokenError(response) = Absent THEN [r EXCEPT !.step = "subject"]
          ELSE Ended(r, TokenStatus(TokenError(response)))]
  /\ UNCHANGED <<sources, authorization, minted, exchanges>>

\* fetchSubject_OpenID and fetchSubject_Manual
SubjectStatus(kind, response, subject) ==
  CASE kind = "openid" -> IF response.id_token /\ subject = "subject" THEN 200 ELSE 500
    [] kind = "manual" -> IF subject = "subject" THEN 200
                          ELSE IF subject = "bad_server" THEN 502 ELSE 500
    [] OTHER -> 500

SubjectAnswered(f, subject) ==
  /\ FlowAt(f, "subject")
  /\ AnswerFlow(f, SubjectStatus(sources[flow[f].row.source], flow[f].response, subject))
  /\ UNCHANGED <<sources, authorization, minted, exchanges>>

\* a query or a fetch is rejected with what is no OAuthError
FlowFails(f) ==
  /\ FlowAt(f, "find") \/ FlowAt(f, "fetch") \/ FlowAt(f, "subject")
  /\ AnswerFlow(f, TokenStatus(Other))
  /\ UNCHANGED <<sources, authorization, minted, exchanges>>

CloseFlow(f) ==
  /\ FlowAt(f, "ended")
  /\ flow' = [flow EXCEPT ![f] = Absent]
  /\ UNCHANGED <<sources, authorization, minted, exchanges>>

\* the process stops, and starts again with other sources: the rows stay
Reconfigure ==
  /\ \E kinds \in [Sources -> SourceKinds] : sources' = kinds
  /\ flow' = [f \in Flows |-> Absent]
  /\ UNCHANGED <<authorization, minted, exchanges>>

OAuthNext ==
  \/ \E key \in Sources, redirect \in Redirects : BeginSignIn(key, redirect)
  \/ \E f \in Flows :
       \/ \E query \in Queries : EndSignIn(f, query)
       \/ StateRefused(f) \/ StateFound(f)
       \/ \E response \in TokenResponses : TokenAnswered(f, response)
       \/ \E subject \in SubjectAnswers : SubjectAnswered(f, subject)
       \/ FlowFails(f) \/ CloseFlow(f)
  \/ Reconfigure

OAuthSpec == OAuthInit /\ [][OAuthNext]_oauthVars
-----------------------------------------------------------------------------
(***************************************************************************)
(* Properties.                                                             *)
(***************************************************************************)

\* Every variable has its type.
OAuthTypeOK ==
  /\ sources \in [Sources -> SourceKinds]
  /\ authorization \in [States -> Rows \cup {Absent}]
  /\ flow \in [Flows -> FlowRecords \cup {Absent}]
  /\ minted \in [States -> Rows \cup {Absent}]
  /\ exchanges \in [States -> Nat]

\* However many requests bring the same state, a token is asked for at most once
\* with it, at the source and with the redirect URI it was made for.
ExchangedOnce ==
  /\ \A s \in States : exchanges[s] <= 1 /\ (exchanges[s] = 1 => authorization[s] = Absent)
  /\ \A f \in Flows : flow[f] # Absent /\ flow[f].row # Absent =>
       flow[f].row = minted[flow[f].query.state]

\* The statuses tell whose fault it was.  400 is answered only when no token was
\* asked for; 502 only after the provider's answer; 200 only to a query without an
\* error whose exchange brought an access token.
BlameAgrees ==
  \A f \in Flows : flow[f] # Absent =>
    /\ flow[f].answer = 400 => flow[f].row = Absent
    /\ flow[f].answer = 502 => flow[f].response # NoResponse
    /\ flow[f].answer = 200 =>
         flow[f].query.error = Absent /\ flow[f].response.access_token

\* Both of these, of a sign-in.
SignInSound == ExchangedOnce /\ BlameAgrees

\* What the error codes of the token endpoint are declared for: an answer 400
\* that carries one of them is taken for it, and not for an answer that the
\* provider should not have given.
DefinedErrorRecognised ==
  \A f \in Flows :
    flow[f] # Absent /\ flow[f].response.status = 400 =>
      (flow[f].response.error = "invalid_grant" => flow[f].answer # 502)

=============================================================================
