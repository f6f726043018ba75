-------------------------- MODULE SharedConnection --------------------------
(***************************************************************************)
(* What the pool of a page promises its callers, without reservations,     *)
(* listeners and IndexedDB's queue: the callers that ask for a database    *)
(* while the page has no connection to it are answered together, with one  *)
(* connection, as soon as it is there; a failure refuses one of them and   *)
(* the others keep asking; and the page gives a connection up only when    *)
(* every caller has taken the answer it was given.                         *)
(*                                                                         *)
(* A connection is named after a call, as in ConnectionPool.               *)
(***************************************************************************)
CONSTANTS Tab, Name, Call, TabOf, NoCall

VARIABLES
  connection,  \* per page and name, the connection its callers share
  asking,      \* per page and name, the calls that want one
  given,       \* per call, the connection it was given and has not taken yet
  refused      \* the calls whose caller has yet to learn of a failure

vars == <<connection, asking, given, refused>>

Init ==
  /\ connection = [t \in Tab |-> [n \in Name |-> NoCall]]
  /\ asking = [t \in Tab |-> [n \in Name |-> {}]]
  /\ given = [c \in Call |-> NoCall]
  /\ refused = {}

\* Every caller of the page has taken its answer.
Resting(t) ==
  \A c \in Call : TabOf[c] = t => given[c] = NoCall /\ c \notin refused

Free(c) ==
  /\ Resting(TabOf[c])
  /\ \A n \in Name : c \notin asking[TabOf[c]][n]

Share(c, n) ==
  /\ Free(c)
  /\ connection[TabOf[c]][n] # NoCall
  /\ given' = [given EXCEPT ![c] = connection[TabOf[c]][n]]
  /\ UNCHANGED <<connection, asking, refused>>

Ask(c, n) ==
  /\ Free(c)
  /\ connection[TabOf[c]][n] = NoCall
  /\ asking' = [asking EXCEPT ![TabOf[c]][n] = @ \cup {c}]
  /\ UNCHANGED <<connection, given, refused>>

\* The browser does not let the page ask.
Forbid(c) ==
  /\ Free(c)
  /\ refused' = refused \cup {c}
  /\ UNCHANGED <<connection, asking, given>>

Connect(t, n, k) ==
  /\ Resting(t)
  /\ connection[t][n] = NoCall
  /\ k \in asking[t][n]
  /\ connection' = [connection EXCEPT ![t][n] = k]
  /\ given' = [c \in Call |-> IF c \in asking[t][n] THEN k ELSE given[c]]
  /\ asking' = [asking EXCEPT ![t][n] = {}]
  /\ UNCHANGED refused

Fail(t, n, c) ==
  /\ Resting(t)
  /\ connection[t][n] = NoCall
  /\ c \in asking[t][n]
  /\ asking' = [asking EXCEPT ![t][n] = @ \ {c}]
  /\ refused' = refused \cup {c}
  /\ UNCHANGED <<connection, given>>

Close(t, n) ==
  /\ Resting(t)
  /\ connection[t][n] # NoCall
  /\ connection' = [connection EXCEPT ![t][n] = NoCall]
  /\ UNCHANGED <<asking, given, refused>>

Take(c) ==
  /\ given[c] # NoCall \/ c \in refused
  /\ given' = [given EXCEPT ![c] = NoCall]
  /\ refused' = refused \ {c}
  /\ UNCHANGED <<connection, asking>>

Next ==
  \/ \E c \in Call : \/ \E n \in Name : Share(c, n) \/ Ask(c, n)
                     \/ Forbid(c)
                     \/ Take(c)
  \/ \E t \in Tab, n \in Name : \/ \E c \in Call : Connect(t, n, c) \/ Fail(t, n, c)
                                \/ Close(t, n)

Spec == Init /\ [][Next]_vars
=============================================================================
