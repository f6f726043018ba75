--------------------------- MODULE Storage_proofs ---------------------------
(* Proofs about the browser's storage: first the pool of connections, then the
   store that works through it. *)
EXTENDS ChatStore, FiniteSetTheorems, Recursion_proofs

(***************************************************************************)
(* Proofs about ConnectionPool, for any pages, names and calls.            *)
(*                                                                         *)
(* The inductive invariant says what the pool's three tables stand for:    *)
(* the dictionary holds exactly the connections the page has (as far as it *)
(* knows), "reserved" exactly the opens that are under way, and the        *)
(* listeners of an open are exactly the callers that wait for it.  For     *)
(* that, a request in IndexedDB's queue must belong to the call that made  *)
(* it, once.                                                               *)
(***************************************************************************)

UnderWay(c) == pc[c] \in {"opening", "failing"}

\* A connection the page has not closed is the dictionary's, and conversely.
DictionaryExact ==
  /\ \A t \in Tab, n \in Name : dictionary[t][n] # NoCall =>
       /\ TabOf[dictionary[t][n]] = t
       /\ at[dictionary[t][n]] = n
       /\ link[dictionary[t][n]] \in {"open", "lost"}
  /\ \A c \in Call : link[c] \in {"open", "lost"} => dictionary[TabOf[c]][at[c]] = c

\* An open under way has the name reserved, and conversely on a page that may
\* open; it excludes a connection in the dictionary.  (Elsewhere the name stays
\* reserved by a call of the page that has been rejected.)
ReservedExact ==
  /\ \A c \in Call : UnderWay(c) =>
       /\ TabOf[c] \in permitted
       /\ reserved[TabOf[c]][at[c]] = c
       /\ dictionary[TabOf[c]][at[c]] = NoCall
       /\ link[c] \in {"none", "born"}
       /\ pc[c] = "failing" => link[c] = "none"
  /\ \A t \in Tab, n \in Name : reserved[t][n] # NoCall =>
       /\ TabOf[reserved[t][n]] = t
       /\ t \in permitted => at[reserved[t][n]] = n /\ UnderWay(reserved[t][n])
  /\ \A c \in Call : link[c] = "born" => pc[c] = "opening"

\* A request belongs to the call that made it, which waits for the answer.
QueueExact ==
  /\ \A n \in Name : \A i \in 1 .. Len(requests[n]) :
       LET r == requests[n][i]
       IN  /\ at[r.by] = n
           /\ link[r.by] = "none"
           /\ r.kind = "open" => pc[r.by] = "opening"
           /\ r.kind = "delete" => pc[r.by] = "deleting"
  /\ \A n \in Name : \A i, j \in 1 .. Len(requests[n]) :
       requests[n][i].by = requests[n][j].by => i = j

\* A resolved call has been given the connection in the dictionary, or none
\* (a deletion).
GivenExact ==
  \A c \in Call :
    /\ pc[c] # "resolved" => got[c] = NoCall
    /\ got[c] # NoCall => dictionary[TabOf[c]][at[c]] = got[c]

\* On a page that may open, the listeners of a call are the callers that wait
\* for it, each once.
ListenersExact ==
  /\ \A o \in Call : TabOf[o] \in permitted =>
       \A i \in 1 .. Len(listeners[o]) :
         /\ UnderWay(o)
         /\ pc[listeners[o][i]] = "waiting"
         /\ TabOf[listeners[o][i]] = TabOf[o]
         /\ at[listeners[o][i]] = at[o]
         /\ \A j \in 1 .. Len(listeners[o]) : listeners[o][i] = listeners[o][j] => i = j
  /\ \A c \in Call : pc[c] = "waiting" =>
       /\ link[c] = "none"
       /\ TabOf[c] \in permitted =>
            /\ reserved[TabOf[c]][at[c]] # NoCall
            /\ \E i \in 1 .. Len(listeners[reserved[TabOf[c]][at[c]]]) :
                 listeners[reserved[TabOf[c]][at[c]]][i] = c

IInv == /\ TypeOK /\ DictionaryExact /\ ReservedExact
        /\ QueueExact /\ GivenExact /\ ListenersExact

-----------------------------------------------------------------------------
(* Sequences. *)
LEMMA TailFacts ==
  ASSUME NEW S, NEW s \in Seq(S), s # <<>>
  PROVE  /\ Len(s) \in Nat \ {0}
         /\ Head(s) = s[1]
         /\ Head(s) \in S
         /\ Tail(s) \in Seq(S)
         /\ Len(Tail(s)) = Len(s) - 1
         /\ \A i \in 1 .. Len(Tail(s)) : Tail(s)[i] = s[i + 1]
  OBVIOUS

LEMMA AppendFacts ==
  ASSUME NEW S, NEW s \in Seq(S), NEW e \in S
  PROVE  /\ Len(s) \in Nat
         /\ Append(s, e) \in Seq(S)
         /\ Len(Append(s, e)) = Len(s) + 1
         /\ Append(s, e)[Len(s) + 1] = e
         /\ \A i \in 1 .. Len(s) : Append(s, e)[i] = s[i]
  OBVIOUS

(* Elements of the tables. *)
LEMMA Elements ==
  ASSUME TypeOK
  PROVE  /\ \A t \in Tab, n \in Name : /\ dictionary[t][n] \in Call \cup {NoCall}
                                       /\ reserved[t][n] \in Call \cup {NoCall}
         /\ \A n \in Name : \A i \in 1 .. Len(requests[n]) :
              /\ requests[n][i] \in Request
              /\ requests[n][i].by \in Call
              /\ requests[n][i].kind \in {"open", "delete"}
         /\ \A o \in Call : \A i \in 1 .. Len(listeners[o]) : listeners[o][i] \in Call
<1>1. \A t \in Tab, n \in Name : /\ dictionary[t][n] \in Call \cup {NoCall}
                                 /\ reserved[t][n] \in Call \cup {NoCall}
  BY DEF TypeOK
<1>2. \A n \in Name : \A i \in 1 .. Len(requests[n]) : requests[n][i] \in Request
  BY DEF TypeOK
<1>3. \A r \in Request : r.by \in Call /\ r.kind \in {"open", "delete"}
  BY DEF Request
<1>4. \A o \in Call : \A i \in 1 .. Len(listeners[o]) : listeners[o][i] \in Call
  BY DEF TypeOK
<1> QED BY <1>1, <1>2, <1>3, <1>4

LEMMA InitIInv == PoolInit => IInv
  BY PoolAssumption DEF PoolAssumption, PoolInit, IInv, TypeOK, DictionaryExact,
     ReservedExact, QueueExact, GivenExact, ListenersExact, UnderWay, Request

LEMMA StutterIInv == IInv /\ UNCHANGED poolVars => IInv'
<1> SUFFICES ASSUME IInv, UNCHANGED poolVars PROVE IInv'
  OBVIOUS
<1>1. TypeOK'
  BY DEF poolVars, IInv, TypeOK
<1>2. DictionaryExact'
  BY DEF poolVars, IInv, DictionaryExact
<1>3. ReservedExact'
  BY DEF poolVars, IInv, ReservedExact, UnderWay
<1>4. QueueExact'
  BY DEF poolVars, IInv, QueueExact
<1>5. GivenExact'
  BY DEF poolVars, IInv, GivenExact
<1>6. ListenersExact'
  BY DEF poolVars, IInv, ListenersExact, UnderWay
<1> QED BY <1>1, <1>2, <1>3, <1>4, <1>5, <1>6 DEF IInv

(* What an action must leave alone for the tables it does not change. *)
LEMMA ListenersStay ==
  ASSUME IInv,
         UNCHANGED <<permitted, listeners>>,
         \A x \in Call : UnderWay(x) => UnderWay(x)' /\ at'[x] = at[x],
         \A x \in Call : pc[x] = "waiting" =>
           pc'[x] = "waiting" /\ at'[x] = at[x] /\ link'[x] = link[x],
         \A x \in Call : pc'[x] = "waiting" => pc[x] = "waiting",
         \A x \in Call : pc[x] = "waiting" /\ TabOf[x] \in permitted =>
           reserved'[TabOf[x]][at[x]] = reserved[TabOf[x]][at[x]]
  PROVE  ListenersExact'
<1>l. \A x \in Call : \A i \in 1 .. Len(listeners[x]) : listeners[x][i] \in Call
  BY Elements DEF IInv
<1>1. ASSUME NEW x \in Call, TabOf[x] \in permitted, NEW i \in 1 .. Len(listeners[x])
      PROVE  /\ UnderWay(x)'
             /\ pc'[listeners[x][i]] = "waiting"
             /\ TabOf[listeners[x][i]] = TabOf[x]
             /\ at'[listeners[x][i]] = at'[x]
             /\ \A j \in 1 .. Len(listeners[x]) : listeners[x][i] = listeners[x][j] => i = j
  BY <1>l, <1>1 DEF IInv, ListenersExact
<1>2. ASSUME NEW x \in Call, pc'[x] = "waiting"
      PROVE  /\ link'[x] = "none"
             /\ TabOf[x] \in permitted =>
                  /\ reserved'[TabOf[x]][at'[x]] # NoCall
                  /\ \E i \in 1 .. Len(listeners[reserved'[TabOf[x]][at'[x]]]) :
                       listeners[reserved'[TabOf[x]][at'[x]]][i] = x
  BY <1>2 DEF IInv, ListenersExact
<1> QED BY <1>1, <1>2 DEF ListenersExact, UnderWay

LEMMA QueueStays ==
  ASSUME IInv,
         UNCHANGED requests,
         \A x \in Call : pc[x] \in {"opening", "deleting"} /\ link[x] = "none" =>
           pc'[x] = pc[x] /\ at'[x] = at[x] /\ link'[x] = link[x]
  PROVE  QueueExact'
BY Elements DEF IInv, QueueExact

LEMMA QueueGrows ==
  ASSUME IInv, NEW n \in Name, NEW r \in Request,
         requests' = [requests EXCEPT ![n] = Append(@, r)],
         pc[r.by] \notin {"opening", "deleting"},
         at'[r.by] = n /\ link'[r.by] = "none",
         r.kind = "open" => pc'[r.by] = "opening",
         r.kind = "delete" => pc'[r.by] = "deleting",
         \A x \in Call \ {r.by} : pc[x] \in {"opening", "deleting"} /\ link[x] = "none" =>
           pc'[x] = pc[x] /\ at'[x] = at[x] /\ link'[x] = link[x]
  PROVE  QueueExact' /\ requests' \in [Name -> Seq(Request)]
<1>1. requests \in [Name -> Seq(Request)]
  BY DEF IInv, TypeOK
<1>2. /\ requests' \in [Name -> Seq(Request)]
      /\ \A m \in Name \ {n} : requests'[m] = requests[m]
      /\ Len(requests[n]) \in Nat
      /\ Len(requests'[n]) = Len(requests[n]) + 1
      /\ requests'[n][Len(requests[n]) + 1] = r
      /\ \A i \in 1 .. Len(requests[n]) : requests'[n][i] = requests[n][i]
  BY <1>1, AppendFacts
<1>3. \A m \in Name : \A i \in 1 .. Len(requests[m]) :
        LET q == requests[m][i]
        IN  /\ q.by \in Call \ {r.by}
            /\ at[q.by] = m
            /\ link[q.by] = "none"
            /\ q.kind = "open" => pc[q.by] = "opening"
            /\ q.kind = "delete" => pc[q.by] = "deleting"
            /\ pc[q.by] \in {"opening", "deleting"}
  BY Elements DEF IInv, QueueExact
<1>4. \A m \in Name : \A i, j \in 1 .. Len(requests[m]) :
        requests[m][i].by = requests[m][j].by => i = j
  BY DEF IInv, QueueExact
<1>5. ASSUME NEW m \in Name, NEW i \in 1 .. Len(requests'[m])
      PROVE  LET q == requests'[m][i]
             IN  /\ at'[q.by] = m
                 /\ link'[q.by] = "none"
                 /\ q.kind = "open" => pc'[q.by] = "opening"
                 /\ q.kind = "delete" => pc'[q.by] = "deleting"
                 /\ \A j \in 1 .. Len(requests'[m]) : requests'[m][j].by = q.by => i = j
  <2>1. CASE m # n
    BY <1>2, <1>3, <1>4, <1>5, <2>1
  <2>2. CASE m = n /\ i \in 1 .. Len(requests[n])
    BY <1>2, <1>3, <1>4, <2>2
  <2>3. CASE m = n /\ i = Len(requests[n]) + 1
    BY <1>2, <1>3, <2>3
  <2> QED BY <1>2, <2>1, <2>2, <2>3
<1> QED BY <1>2, <1>5 DEF QueueExact

LEMMA QueueServed ==
  ASSUME IInv, NEW n \in Name, requests[n] # <<>>,
         requests' = [requests EXCEPT ![n] = Tail(@)],
         \A x \in Call \ {Head(requests[n]).by} :
           pc[x] \in {"opening", "deleting"} /\ link[x] = "none" =>
             pc'[x] = pc[x] /\ at'[x] = at[x] /\ link'[x] = link[x]
  PROVE  /\ QueueExact'
         /\ requests' \in [Name -> Seq(Request)]
<1>1. requests \in [Name -> Seq(Request)]
  BY DEF IInv, TypeOK
<1>2. /\ requests' \in [Name -> Seq(Request)]
      /\ \A m \in Name \ {n} : requests'[m] = requests[m]
      /\ Len(requests[n]) \in Nat \ {0}
      /\ Head(requests[n]) = requests[n][1]
      /\ Len(requests'[n]) = Len(requests[n]) - 1
      /\ \A i \in 1 .. Len(requests'[n]) : requests'[n][i] = requests[n][i + 1]
  BY <1>1, TailFacts
<1>3. \A m \in Name : \A i \in 1 .. Len(requests[m]) :
        LET q == requests[m][i]
        IN  /\ q.by \in Call
            /\ at[q.by] = m
            /\ link[q.by] = "none"
            /\ q.kind = "open" => pc[q.by] = "opening"
            /\ q.kind = "delete" => pc[q.by] = "deleting"
            /\ pc[q.by] \in {"opening", "deleting"}
  BY Elements DEF IInv, QueueExact
<1>4. \A m \in Name : \A i, j \in 1 .. Len(requests[m]) :
        requests[m][i].by = requests[m][j].by => i = j
  BY DEF IInv, QueueExact
<1>5. ASSUME NEW m \in Name, NEW i \in 1 .. Len(requests'[m])
      PROVE  /\ at'[requests'[m][i].by] = m
             /\ link'[requests'[m][i].by] = "none"
             /\ requests'[m][i].kind = "open" => pc'[requests'[m][i].by] = "opening"
             /\ requests'[m][i].kind = "delete" => pc'[requests'[m][i].by] = "deleting"
  <2>1. CASE m # n
    <3>1. requests[n][1].by # requests[m][i].by
      BY <1>2, <1>3, <1>5, <2>1
    <3> QED BY <1>2, <1>3, <1>5, <2>1, <3>1
  <2>2. CASE m = n
    <3>1. i + 1 \in 1 .. Len(requests[n]) /\ requests'[n][i] = requests[n][i + 1]
      BY <1>2, <1>5, <2>2
    <3>2. requests[n][1].by # requests[n][i + 1].by
      BY <1>2, <1>4, <1>5, <2>2, <3>1
    <3> QED BY <1>2, <1>3, <2>2, <3>1, <3>2
  <2> QED BY <2>1, <2>2
<1>6. ASSUME NEW m \in Name, NEW i \in 1 .. Len(requests'[m]), NEW j \in 1 .. Len(requests'[m]),
             requests'[m][i].by = requests'[m][j].by
      PROVE  i = j
  <2>1. CASE m # n
    BY <1>2, <1>4, <1>6, <2>1
  <2>2. CASE m = n
    <3>1. /\ i + 1 \in 1 .. Len(requests[n]) /\ requests'[n][i] = requests[n][i + 1]
          /\ j + 1 \in 1 .. Len(requests[n]) /\ requests'[n][j] = requests[n][j + 1]
      BY <1>2, <1>6, <2>2
    <3>2. i + 1 = j + 1
      BY <1>4, <1>6, <2>2, <3>1
    <3> QED BY <3>2
  <2> QED BY <2>1, <2>2
<1>7. QueueExact'
  BY <1>5, <1>6 DEF QueueExact
<1> QED BY <1>2, <1>7

-----------------------------------------------------------------------------
(* Calls. *)
LEMMA HitKeeps ==
  ASSUME IInv, NEW c \in Call, NEW n \in Name, Calls(c, n), Hit(c, n)
  PROVE  IInv'
<1>0. /\ pc' = [pc EXCEPT ![c] = "resolved"] /\ pc[c] = "idle"
      /\ at' = [at EXCEPT ![c] = n]
      /\ UNCHANGED <<permitted, dictionary, link, reserved, listeners, requests>>
  BY DEF Calls, Hit
<1>1. TypeOK'
  <2>1. got' \in [Call -> Call \cup {NoCall}]
    BY Elements, PoolAssumption DEF PoolAssumption, Hit, IInv, TypeOK
  <2> QED BY <1>0, <2>1 DEF IInv, TypeOK
<1>2. DictionaryExact'
  BY PoolAssumption, <1>0 DEF PoolAssumption, IInv, TypeOK, DictionaryExact, Calls
<1>3. ReservedExact'
  BY PoolAssumption, <1>0 DEF PoolAssumption, IInv, TypeOK, DictionaryExact, ReservedExact, UnderWay, Calls
<1>4. QueueExact'
  BY <1>0, QueueStays DEF IInv, TypeOK
<1>5. GivenExact'
  BY PoolAssumption, <1>0 DEF PoolAssumption, IInv, TypeOK, GivenExact, DictionaryExact, Hit
<1>6. ListenersExact'
  BY <1>0, ListenersStay, PoolAssumption DEF PoolAssumption, IInv, TypeOK, UnderWay
<1> QED BY <1>1, <1>2, <1>3, <1>4, <1>5, <1>6 DEF IInv

LEMMA ListenKeeps ==
  ASSUME IInv, NEW c \in Call, NEW n \in Name, Calls(c, n), Listen(c, n)
  PROVE  IInv'
<1> DEFINE t == TabOf[c]
           o == reserved[t][n]
<1>0. /\ pc' = [pc EXCEPT ![c] = "waiting"] /\ pc[c] = "idle"
      /\ at' = [at EXCEPT ![c] = n]
      /\ listeners' = [listeners EXCEPT ![o] = Append(@, c)]
      /\ dictionary[t][n] = NoCall /\ o # NoCall
      /\ UNCHANGED <<permitted, dictionary, link, reserved, got, requests>>
  BY DEF Calls, Listen
<1>o. t \in Tab /\ o \in Call
  BY <1>0, Elements, PoolAssumption DEF PoolAssumption, IInv
<1>l. \A x \in Call : \A i \in 1 .. Len(listeners[x]) : listeners[x][i] \in Call
  BY Elements DEF IInv
<1>p. /\ pc'[c] = "waiting" /\ at'[c] = n /\ permitted' = permitted
      /\ \A x \in Call \ {c} : pc'[x] = pc[x] /\ at'[x] = at[x]
  BY <1>0 DEF IInv, TypeOK
<1>a. /\ listeners[o] \in Seq(Call)
      /\ Len(listeners[o]) \in Nat
      /\ listeners'[o] = Append(listeners[o], c)
      /\ Append(listeners[o], c) \in Seq(Call)
      /\ Len(listeners'[o]) = Len(listeners[o]) + 1
      /\ listeners'[o][Len(listeners[o]) + 1] = c
      /\ \A i \in 1 .. Len(listeners[o]) : listeners'[o][i] = listeners[o][i]
      /\ \A x \in Call \ {o} : listeners'[x] = listeners[x]
  <2>1. listeners[o] \in Seq(Call) /\ listeners'[o] = Append(listeners[o], c)
    BY <1>0, <1>o DEF IInv, TypeOK
  <2>2. \A x \in Call \ {o} : listeners'[x] = listeners[x]
    BY <1>0, <1>o DEF IInv, TypeOK
  <2>3. c \in Call
    OBVIOUS
  <2> HIDE DEF o, t
  <2> QED BY <2>1, <2>2, <2>3, AppendFacts
<1>k. link[c] = "none"
  <2>1. link[c] # "born"
    BY <1>0 DEF IInv, ReservedExact
  <2>2. link[c] \in {"open", "lost"} => dictionary[t][at[c]] = c
    BY DEF IInv, DictionaryExact
  <2>3. link[c] = "none" \/ at[c] = n
    BY DEF Calls
  <2>4. link[c] \in {"none", "born", "open", "lost"}
    BY DEF IInv, TypeOK
  <2> QED BY <1>0, <2>1, <2>2, <2>3, <2>4, PoolAssumption DEF PoolAssumption
<1>1. TypeOK'
  <2>1. listeners' \in [Call -> Seq(Call)]
    BY <1>0, <1>o, <1>a DEF IInv, TypeOK
  <2> QED BY <1>0, <2>1 DEF IInv, TypeOK
<1>2. DictionaryExact'
  BY PoolAssumption, <1>0 DEF PoolAssumption, IInv, TypeOK, DictionaryExact, Calls
<1>3. ReservedExact'
  BY PoolAssumption, <1>0 DEF PoolAssumption, IInv, TypeOK, DictionaryExact, ReservedExact, UnderWay, Calls
<1>4. QueueExact'
  BY <1>0, QueueStays DEF IInv, TypeOK
<1>5. GivenExact'
  BY PoolAssumption, <1>0 DEF PoolAssumption, IInv, TypeOK, GivenExact, DictionaryExact
<1>6. ListenersExact'
  <2>1. ASSUME NEW x \in Call, TabOf[x] \in permitted', NEW i \in 1 .. Len(listeners'[x])
        PROVE  /\ UnderWay(x)'
               /\ pc'[listeners'[x][i]] = "waiting"
               /\ TabOf[listeners'[x][i]] = TabOf[x]
               /\ at'[listeners'[x][i]] = at'[x]
               /\ \A j \in 1 .. Len(listeners'[x]) : listeners'[x][i] = listeners'[x][j] => i = j
    <3>0. TabOf[x] \in permitted
      BY <1>0, <2>1, Zenon
    <3>1. CASE x # o
      <4>1. listeners'[x] = listeners[x]
        BY <1>a, <3>1
      <4>2. /\ UnderWay(x)
            /\ pc[listeners[x][i]] = "waiting"
            /\ TabOf[listeners[x][i]] = TabOf[x]
            /\ at[listeners[x][i]] = at[x]
            /\ \A j \in 1 .. Len(listeners[x]) : listeners[x][i] = listeners[x][j] => i = j
        BY <2>1, <3>0, <4>1 DEF IInv, ListenersExact
      <4>3. x # c /\ listeners[x][i] \in Call \ {c}
        BY <1>0, <1>l, <4>1, <4>2 DEF UnderWay
      <4> QED BY <1>0, <4>1, <4>2, <4>3 DEF IInv, TypeOK, UnderWay
    <3>2. CASE x = o
      <4>1. UnderWay(o) /\ TabOf[o] = t /\ at[o] = n /\ o # c
        BY <1>0, <1>o, <3>0, <3>2 DEF IInv, ReservedExact, UnderWay
      <4>2. \A j \in 1 .. Len(listeners[o]) :
              /\ pc[listeners[o][j]] = "waiting"
              /\ TabOf[listeners[o][j]] = t
              /\ at[listeners[o][j]] = n
              /\ \A m \in 1 .. Len(listeners[o]) : listeners[o][j] = listeners[o][m] => j = m
        BY <1>o, <3>0, <3>2, <4>1 DEF IInv, ListenersExact
      <4>3. \A j \in 1 .. Len(listeners[o]) : listeners[o][j] \in Call \ {c}
        BY <1>0, <1>o, <1>l, <4>2
      <4>4. pc'[o] \in {"opening", "failing"} /\ at'[o] = n
        BY <1>o, <1>p, <4>1 DEF UnderWay
      <4> HIDE DEF o, t
      <4>5. i \in 1 .. Len(listeners[o]) \/ i = Len(listeners[o]) + 1
        <5>1. i \in 1 .. Len(listeners'[o])
          BY <3>2
        <5> QED BY <1>a, <5>1
      <4>6. \A j \in 1 .. Len(listeners'[o]) : listeners'[o][i] = listeners'[o][j] => i = j
        <5>1. SUFFICES ASSUME NEW j \in 1 .. Len(listeners'[o]), listeners'[o][i] = listeners'[o][j]
                       PROVE  i = j
          OBVIOUS
        <5>2. j \in 1 .. Len(listeners[o]) \/ j = Len(listeners[o]) + 1
          BY <1>a
        <5>3. CASE i \in 1 .. Len(listeners[o])
          <6>1. listeners'[o][i] = listeners[o][i] /\ listeners[o][i] # c
            BY <1>a, <4>3, <5>3
          <6> QED BY <1>a, <4>2, <5>1, <5>2, <5>3, <6>1
        <5>4. CASE i = Len(listeners[o]) + 1
          BY <1>a, <4>3, <5>1, <5>2, <5>4
        <5> QED BY <4>5, <5>3, <5>4
      <4>7. /\ pc'[listeners'[o][i]] = "waiting"
            /\ TabOf[listeners'[o][i]] = t
            /\ at'[listeners'[o][i]] = n
        <5>1. CASE i \in 1 .. Len(listeners[o])
          BY <1>a, <1>p, <4>2, <4>3, <5>1
        <5>2. CASE i = Len(listeners[o]) + 1
          <6>1. listeners'[o][i] = c
            BY <1>a, <5>2
          <6> QED BY <1>p, <6>1 DEF t
        <5> QED BY <4>5, <5>1, <5>2
      <4> QED BY <3>2, <4>1, <4>4, <4>6, <4>7 DEF UnderWay
    <3> QED BY <3>1, <3>2
  <2>2. ASSUME NEW x \in Call, pc'[x] = "waiting"
        PROVE  /\ link'[x] = "none"
               /\ TabOf[x] \in permitted' =>
                    /\ reserved'[TabOf[x]][at'[x]] # NoCall
                    /\ \E i \in 1 .. Len(listeners'[reserved'[TabOf[x]][at'[x]]]) :
                         listeners'[reserved'[TabOf[x]][at'[x]]][i] = x
    <3>1. CASE x = c
      <4>1. reserved'[TabOf[x]][at'[x]] = o /\ o # NoCall /\ link'[x] = "none"
        BY <1>0, <1>k, <1>p, <3>1
      <4>2. /\ Len(listeners[o]) + 1 \in 1 .. Len(listeners'[o])
            /\ listeners'[o][Len(listeners[o]) + 1] = x
        BY <1>a, <3>1
      <4> HIDE DEF o
      <4> QED BY <4>1, <4>2
    <3>2. CASE x # c
      <4>1. pc[x] = "waiting" /\ at'[x] = at[x] /\ link'[x] = "none"
        BY <1>0, <2>2, <3>2 DEF IInv, TypeOK, ListenersExact
      <4>2. CASE TabOf[x] \in permitted
        <5> DEFINE p == reserved[TabOf[x]][at[x]]
        <5>1. p \in Call
          <6>1. TabOf[x] \in Tab /\ at[x] \in Name
            BY PoolAssumption DEF PoolAssumption, IInv, TypeOK
          <6>2. p \in Call \cup {NoCall}
            BY <6>1, Elements DEF IInv
          <6>3. p # NoCall
            BY <4>1, <4>2 DEF IInv, ListenersExact
          <6> QED BY <6>2, <6>3
        <5>2. PICK i \in 1 .. Len(listeners[p]) : listeners[p][i] = x
          BY <4>1, <4>2 DEF IInv, ListenersExact
        <5>3. i \in 1 .. Len(listeners'[p]) /\ listeners'[p][i] = x
          <6>a. /\ Len(listeners[o]) \in Nat
                /\ Len(listeners'[o]) = Len(listeners[o]) + 1
                /\ \A k \in 1 .. Len(listeners[o]) : listeners'[o][k] = listeners[o][k]
            BY <1>a
          <6>b. p # o => listeners'[p] = listeners[p]
            BY <1>a, <5>1
          <6> HIDE DEF o, p
          <6>1. CASE p = o
            <7>1. i \in 1 .. Len(listeners[o]) /\ listeners[o][i] = x
              BY <5>2, <6>1
            <7>2. i \in 1 .. Len(listeners'[o])
              BY <6>a, <7>1
            <7>3. listeners'[o][i] = x
              BY <6>a, <7>1
            <7> QED BY <6>1, <7>2, <7>3
          <6>2. CASE p # o
            BY <5>2, <6>b, <6>2
          <6> QED BY <6>1, <6>2
        <5> QED BY <1>0, <4>1, <5>1, <5>3, PoolAssumption DEF PoolAssumption
      <4> QED BY <1>0, <4>1, <4>2
    <3> QED BY <3>1, <3>2
  <2> QED BY <2>1, <2>2 DEF ListenersExact, UnderWay
<1> QED BY <1>1, <1>2, <1>3, <1>4, <1>5, <1>6 DEF IInv

LEMMA ReserveKeeps ==
  ASSUME IInv, NEW c \in Call, NEW n \in Name, Calls(c, n), Reserve(c, n)
  PROVE  IInv'
<1> DEFINE t == TabOf[c]
           r == [kind |-> "open", by |-> c]
<1>0. /\ pc' = [pc EXCEPT ![c] = "opening"] /\ pc[c] = "idle"
      /\ at' = [at EXCEPT ![c] = n]
      /\ reserved' = [reserved EXCEPT ![t][n] = c]
      /\ requests' = [requests EXCEPT ![n] = Append(@, r)]
      /\ dictionary[t][n] = NoCall /\ reserved[t][n] = NoCall
      /\ link[c] = "none" /\ t \in permitted
      /\ UNCHANGED <<permitted, dictionary, link, listeners, got>>
  BY DEF Calls, Reserve
<1>r. r \in Request /\ r.by = c /\ r.kind = "open"
  BY DEF Request
<1>t. t \in Tab
  BY PoolAssumption DEF PoolAssumption
<1>q. QueueExact' /\ requests' \in [Name -> Seq(Request)]
  <2>1. \A x \in Call \ {c} : pc'[x] = pc[x] /\ at'[x] = at[x] /\ link'[x] = link[x]
    BY <1>0 DEF IInv, TypeOK
  <2>2. pc'[c] = "opening" /\ at'[c] = n /\ link'[c] = "none"
    BY <1>0 DEF IInv, TypeOK
  <2>3. /\ pc[r.by] \notin {"opening", "deleting"}
        /\ at'[r.by] = n /\ link'[r.by] = "none"
        /\ r.kind = "open" => pc'[r.by] = "opening"
        /\ r.kind = "delete" => pc'[r.by] = "deleting"
        /\ \A x \in Call \ {r.by} : pc[x] \in {"opening", "deleting"} /\ link[x] = "none" =>
             pc'[x] = pc[x] /\ at'[x] = at[x] /\ link'[x] = link[x]
    BY <1>0, <1>r, <2>1, <2>2
  <2>4. requests' = [requests EXCEPT ![n] = Append(@, r)]
    BY <1>0
  <2> HIDE DEF r
  <2> QED BY <1>r, <2>3, <2>4, QueueGrows
<1>1. TypeOK'
  <2>1. reserved' \in [Tab -> [Name -> Call \cup {NoCall}]]
    BY <1>0, <1>t DEF IInv, TypeOK
  <2> QED BY <1>0, <1>q, <2>1 DEF IInv, TypeOK
<1>2. DictionaryExact'
  BY PoolAssumption, <1>0 DEF PoolAssumption, IInv, TypeOK, DictionaryExact, Calls
<1>3. ReservedExact'
  <2>1. \A s \in Tab, m \in Name : reserved'[s][m] = IF s = t /\ m = n THEN c ELSE reserved[s][m]
    BY <1>0, <1>t DEF IInv, TypeOK
  <2>2. \A x \in Call \ {c} : pc'[x] = pc[x] /\ at'[x] = at[x]
    BY <1>0 DEF IInv, TypeOK
  <2>3. pc'[c] = "opening" /\ at'[c] = n
    BY <1>0 DEF IInv, TypeOK
  <2>4. \A x \in Call : UnderWay(x) => x # c /\ ~(TabOf[x] = t /\ at[x] = n)
    BY <1>0, PoolAssumption DEF PoolAssumption, IInv, ReservedExact, UnderWay
  <2>5. \A s \in Tab, m \in Name : reserved[s][m] \in Call \cup {NoCall}
    BY Elements DEF IInv
  <2>6. ASSUME NEW x \in Call, UnderWay(x)'
        PROVE  /\ TabOf[x] \in permitted'
               /\ reserved'[TabOf[x]][at'[x]] = x
               /\ dictionary'[TabOf[x]][at'[x]] = NoCall
               /\ link'[x] \in {"none", "born"}
               /\ pc'[x] = "failing" => link'[x] = "none"
    <3>1. CASE x = c
      BY <1>0, <1>t, <2>1, <2>3, <3>1
    <3>2. CASE x # c
      <4>1. UnderWay(x) /\ at'[x] = at[x] /\ pc'[x] = pc[x]
        BY <2>2, <2>6, <3>2 DEF UnderWay
      <4>2. at[x] \in Name /\ TabOf[x] \in Tab
        BY PoolAssumption DEF PoolAssumption, IInv, TypeOK
      <4> QED BY <1>0, <2>1, <2>4, <4>1, <4>2 DEF IInv, ReservedExact
    <3> QED BY <3>1, <3>2
  <2>7. ASSUME NEW s \in Tab, NEW m \in Name, reserved'[s][m] # NoCall
        PROVE  /\ TabOf[reserved'[s][m]] = s
               /\ s \in permitted' => /\ at'[reserved'[s][m]] = m
                                      /\ pc'[reserved'[s][m]] \in {"opening", "failing"}
    <3>1. CASE s = t /\ m = n
      BY <2>1, <2>3, <3>1 DEF UnderWay
    <3>2. CASE ~(s = t /\ m = n)
      <4>1. /\ reserved'[s][m] = reserved[s][m] /\ reserved[s][m] \in Call
            /\ TabOf[reserved[s][m]] = s
            /\ s \in permitted => at[reserved[s][m]] = m /\ UnderWay(reserved[s][m])
        BY <2>1, <2>5, <2>7, <3>2 DEF IInv, ReservedExact
      <4>2. s \in permitted => reserved[s][m] # c
        BY <2>4, <4>1
      <4> QED BY <1>0, <2>2, <4>1, <4>2 DEF UnderWay
    <3> QED BY <3>1, <3>2
  <2>8. \A x \in Call : link'[x] = "born" => pc'[x] = "opening"
    BY <1>0, <2>2 DEF IInv, ReservedExact
  <2> QED BY <2>6, <2>7, <2>8 DEF ReservedExact, UnderWay
<1>5. GivenExact'
  BY PoolAssumption, <1>0 DEF PoolAssumption, IInv, TypeOK, GivenExact
<1>6. ListenersExact'
  <2>1. \A x \in Call : UnderWay(x) => UnderWay(x)' /\ at'[x] = at[x]
    BY <1>0 DEF IInv, TypeOK, UnderWay
  <2>2. \A x \in Call : pc[x] = "waiting" => pc'[x] = "waiting" /\ at'[x] = at[x] /\ link'[x] = link[x]
    BY <1>0 DEF IInv, TypeOK
  <2>3. \A x \in Call : pc'[x] = "waiting" => pc[x] = "waiting"
    BY <1>0 DEF IInv, TypeOK
  <2>4. \A x \in Call : pc[x] = "waiting" /\ TabOf[x] \in permitted =>
          reserved'[TabOf[x]][at[x]] = reserved[TabOf[x]][at[x]]
    BY <1>0, <1>t, PoolAssumption DEF PoolAssumption, IInv, TypeOK, ListenersExact
  <2> QED BY <1>0, <2>1, <2>2, <2>3, <2>4, ListenersStay
<1> QED BY <1>q, <1>1, <1>2, <1>3, <1>5, <1>6 DEF IInv

LEMMA OpenThrowsKeeps ==
  ASSUME IInv, NEW c \in Call, NEW n \in Name, Calls(c, n), OpenThrows(c, n)
  PROVE  IInv'
<1> DEFINE t == TabOf[c]
<1>0. /\ pc' = [pc EXCEPT ![c] = "rejected"] /\ pc[c] = "idle"
      /\ at' = [at EXCEPT ![c] = n]
      /\ reserved' = [reserved EXCEPT ![t][n] = c]
      /\ reserved[t][n] = NoCall /\ t \notin permitted
      /\ UNCHANGED <<permitted, dictionary, link, listeners, got, requests>>
  BY DEF Calls, OpenThrows
<1>t. t \in Tab
  BY PoolAssumption DEF PoolAssumption
<1>1. TypeOK'
  BY <1>0, <1>t DEF IInv, TypeOK
<1>2. DictionaryExact'
  BY PoolAssumption, <1>0 DEF PoolAssumption, IInv, TypeOK, DictionaryExact, Calls
<1>3. ReservedExact'
  <2>1. \A s \in Tab, m \in Name : reserved'[s][m] = IF s = t /\ m = n THEN c ELSE reserved[s][m]
    BY <1>0, <1>t DEF IInv, TypeOK
  <2>2. \A x \in Call \ {c} : pc'[x] = pc[x] /\ at'[x] = at[x]
    BY <1>0 DEF IInv, TypeOK
  <2>3. pc'[c] = "rejected"
    BY <1>0 DEF IInv, TypeOK
  <2>5. \A s \in Tab, m \in Name : reserved[s][m] \in Call \cup {NoCall}
    BY Elements DEF IInv
  <2>6. ASSUME NEW x \in Call, UnderWay(x)'
        PROVE  /\ TabOf[x] \in permitted'
               /\ reserved'[TabOf[x]][at'[x]] = x
               /\ dictionary'[TabOf[x]][at'[x]] = NoCall
               /\ link'[x] \in {"none", "born"}
               /\ pc'[x] = "failing" => link'[x] = "none"
    <3>1. x # c /\ UnderWay(x) /\ at'[x] = at[x] /\ pc'[x] = pc[x]
      BY <2>2, <2>3, <2>6 DEF UnderWay
    <3>2. at[x] \in Name /\ TabOf[x] \in Tab
      BY PoolAssumption DEF PoolAssumption, IInv, TypeOK
    <3> QED BY <1>0, <2>1, <3>1, <3>2 DEF IInv, ReservedExact
  <2>7. ASSUME NEW s \in Tab, NEW m \in Name, reserved'[s][m] # NoCall
        PROVE  /\ TabOf[reserved'[s][m]] = s
               /\ s \in permitted' =>
                    /\ at'[reserved'[s][m]] = m
                    /\ pc'[reserved'[s][m]] \in {"opening", "failing"}
    <3>1. CASE s = t /\ m = n
      BY <1>0, <2>1, <3>1
    <3>2. CASE ~(s = t /\ m = n)
      <4>1. /\ reserved'[s][m] = reserved[s][m] /\ reserved[s][m] \in Call
            /\ TabOf[reserved[s][m]] = s
            /\ s \in permitted => at[reserved[s][m]] = m /\ UnderWay(reserved[s][m])
        BY <2>1, <2>5, <2>7, <3>2 DEF IInv, ReservedExact
      <4>2. s \in permitted => reserved[s][m] # c
        BY <1>0, <4>1 DEF UnderWay
      <4> QED BY <1>0, <2>2, <4>1, <4>2 DEF UnderWay
    <3> QED BY <3>1, <3>2
  <2>8. \A x \in Call : link'[x] = "born" => pc'[x] = "opening"
    BY <1>0, <2>2 DEF IInv, ReservedExact
  <2> QED BY <2>6, <2>7, <2>8 DEF ReservedExact, UnderWay
<1>4. QueueExact'
  BY <1>0, QueueStays DEF IInv, TypeOK
<1>5. GivenExact'
  BY PoolAssumption, <1>0 DEF PoolAssumption, IInv, TypeOK, GivenExact
<1>6. ListenersExact'
  <2>1. \A x \in Call : UnderWay(x) => UnderWay(x)' /\ at'[x] = at[x]
    BY <1>0 DEF IInv, TypeOK, UnderWay
  <2>2. \A x \in Call : pc[x] = "waiting" => pc'[x] = "waiting" /\ at'[x] = at[x] /\ link'[x] = link[x]
    BY <1>0 DEF IInv, TypeOK
  <2>3. \A x \in Call : pc'[x] = "waiting" => pc[x] = "waiting"
    BY <1>0 DEF IInv, TypeOK
  <2>4. \A x \in Call : pc[x] = "waiting" /\ TabOf[x] \in permitted =>
          reserved'[TabOf[x]][at[x]] = reserved[TabOf[x]][at[x]]
    BY <1>0, <1>t, PoolAssumption DEF PoolAssumption, IInv, TypeOK
  <2> QED BY <1>0, <2>1, <2>2, <2>3, <2>4, ListenersStay
<1> QED BY <1>1, <1>2, <1>3, <1>4, <1>5, <1>6 DEF IInv

LEMMA DeleteKeeps ==
  ASSUME IInv, NEW c \in Call, NEW n \in Name, Delete(c, n)
  PROVE  IInv'
<1> DEFINE r == [kind |-> "delete", by |-> c]
<1>0. /\ pc[c] = "idle" /\ link[c] = "none"
      /\ pc' \in {[pc EXCEPT ![c] = "deleting"], [pc EXCEPT ![c] = "rejected"]}
      /\ at' = [at EXCEPT ![c] = n]
      /\ UNCHANGED <<permitted, dictionary, reserved, listeners, got, link>>
  BY DEF Delete
<1>c. /\ \A x \in Call \ {c} : pc'[x] = pc[x] /\ at'[x] = at[x] /\ link'[x] = link[x]
      /\ pc'[c] \in {"deleting", "rejected"} /\ at'[c] = n /\ link'[c] = "none"
  BY <1>0 DEF IInv, TypeOK
<1>q. QueueExact' /\ requests' \in [Name -> Seq(Request)]
  <2>1. CASE /\ pc' = [pc EXCEPT ![c] = "deleting"]
             /\ requests' = [requests EXCEPT ![n] = Append(@, r)]
    <3>1. r \in Request /\ r.by = c /\ r.kind = "delete"
      BY DEF Request
    <3>2. pc'[c] = "deleting"
      BY <2>1 DEF IInv, TypeOK
    <3>3. requests' = [requests EXCEPT ![n] = Append(@, r)]
      BY <2>1
    <3>4. pc[r.by] \notin {"opening", "deleting"} /\ (r.kind = "open" => pc'[r.by] = "opening")
      BY <1>0, <3>1
    <3> HIDE DEF r
    <3> QED BY <1>c, <3>1, <3>2, <3>3, <3>4, QueueGrows
  <2>2. CASE UNCHANGED requests
    <3>1. requests' \in [Name -> Seq(Request)]
      BY <2>2 DEF IInv, TypeOK
    <3> QED BY <1>0, <1>c, <2>2, <3>1, QueueStays
  <2> QED BY <2>1, <2>2 DEF Delete
<1>1. TypeOK'
  BY <1>0, <1>q DEF IInv, TypeOK
<1>2. DictionaryExact'
  BY PoolAssumption, <1>0, <1>c DEF PoolAssumption, IInv, TypeOK, DictionaryExact
<1>3. ReservedExact'
  BY PoolAssumption, <1>0, <1>c, Elements DEF PoolAssumption, IInv, ReservedExact, UnderWay
<1>5. GivenExact'
  BY PoolAssumption, <1>0, <1>c DEF PoolAssumption, IInv, GivenExact
<1>6. ListenersExact'
  <2>1. \A x \in Call : UnderWay(x) => UnderWay(x)' /\ at'[x] = at[x]
    BY <1>0, <1>c DEF UnderWay
  <2>2. \A x \in Call : pc[x] = "waiting" => pc'[x] = "waiting" /\ at'[x] = at[x] /\ link'[x] = link[x]
    BY <1>0, <1>c
  <2>3. \A x \in Call : pc'[x] = "waiting" => pc[x] = "waiting"
    BY <1>0, <1>c
  <2> QED BY <1>0, <2>1, <2>2, <2>3, ListenersStay
<1> QED BY <1>q, <1>1, <1>2, <1>3, <1>5, <1>6 DEF IInv

LEMMA ContinueKeeps ==
  ASSUME IInv, NEW c \in Call, Continue(c)
  PROVE  IInv'
<1>0. /\ pc[c] \in {"resolved", "rejected"}
      /\ pc' = [pc EXCEPT ![c] = "idle"]
      /\ got' = [got EXCEPT ![c] = NoCall]
      /\ UNCHANGED <<permitted, dictionary, reserved, listeners, at, link, requests>>
  BY DEF Continue, Settled
<1>1. TypeOK'
  BY <1>0 DEF IInv, TypeOK
<1>2. DictionaryExact'
  BY <1>0 DEF IInv, DictionaryExact
<1>3. ReservedExact'
  BY <1>0, Elements DEF IInv, TypeOK, ReservedExact, UnderWay
<1>4. QueueExact'
  BY <1>0, QueueStays DEF IInv, TypeOK
<1>5. GivenExact'
  BY <1>0 DEF IInv, TypeOK, GivenExact
<1>6. ListenersExact'
  <2>1. \A x \in Call : UnderWay(x) => UnderWay(x)'
    BY <1>0 DEF IInv, TypeOK, UnderWay
  <2>2. \A x \in Call : pc[x] = "waiting" <=> pc'[x] = "waiting"
    BY <1>0 DEF IInv, TypeOK
  <2> QED BY <1>0, <2>1, <2>2, ListenersStay
<1> QED BY <1>1, <1>2, <1>3, <1>4, <1>5, <1>6 DEF IInv

-----------------------------------------------------------------------------
(* Events of the page. *)
LEMMA OnVersionChangeKeeps ==
  ASSUME IInv, NEW k \in Call, OnVersionChange(k) \/ OnClose(k)
  PROVE  IInv'
<1>0. /\ link[k] \in {"open", "lost"}
      /\ Quiet(TabOf[k])
      /\ link' = [link EXCEPT ![k] = "none"]
      /\ dictionary' = [dictionary EXCEPT ![TabOf[k]][at[k]] = NoCall]
      /\ UNCHANGED <<permitted, reserved, listeners, pc, at, got, requests>>
  BY DEF OnVersionChange, OnClose
<1>t. TabOf[k] \in Tab /\ at[k] \in Name
  BY PoolAssumption DEF PoolAssumption, IInv, TypeOK
<1>d. \A s \in Tab, m \in Name :
        dictionary'[s][m] = IF s = TabOf[k] /\ m = at[k] THEN NoCall ELSE dictionary[s][m]
  BY <1>0, <1>t DEF IInv, TypeOK
<1>k. /\ dictionary[TabOf[k]][at[k]] = k
      /\ \A x \in Call \ {k} : link'[x] = link[x]
      /\ link'[k] = "none"
      /\ \A x \in Call : TabOf[x] \in Tab /\ at[x] \in Name
  <2>1. dictionary[TabOf[k]][at[k]] = k
    BY <1>0 DEF IInv, DictionaryExact
  <2>2. link'[k] = "none" /\ \A x \in Call \ {k} : link'[x] = link[x]
    BY <1>0 DEF IInv, TypeOK
  <2>3. \A x \in Call : TabOf[x] \in Tab /\ at[x] \in Name
    BY PoolAssumption DEF PoolAssumption, IInv, TypeOK
  <2> QED BY <2>1, <2>2, <2>3
<1>1. TypeOK'
  BY <1>0, <1>t, PoolAssumption DEF PoolAssumption, IInv, TypeOK
<1>2. DictionaryExact'
  <2>1. ASSUME NEW s \in Tab, NEW m \in Name, dictionary'[s][m] # NoCall
        PROVE  /\ TabOf[dictionary'[s][m]] = s
               /\ at'[dictionary'[s][m]] = m
               /\ link'[dictionary'[s][m]] \in {"open", "lost"}
    <3>1. /\ ~(s = TabOf[k] /\ m = at[k])
          /\ dictionary'[s][m] = dictionary[s][m]
          /\ dictionary[s][m] \in Call
      BY <1>d, <2>1, Elements DEF IInv
    <3>2. /\ TabOf[dictionary[s][m]] = s
          /\ at[dictionary[s][m]] = m
          /\ link[dictionary[s][m]] \in {"open", "lost"}
      BY <2>1, <3>1 DEF IInv, DictionaryExact
    <3> QED BY <1>0, <1>k, <3>1, <3>2
  <2>2. ASSUME NEW x \in Call, link'[x] \in {"open", "lost"}
        PROVE  dictionary'[TabOf[x]][at'[x]] = x
    <3>1. x # k /\ link[x] \in {"open", "lost"} /\ dictionary[TabOf[x]][at[x]] = x
      BY <1>k, <2>2 DEF IInv, DictionaryExact
    <3> QED BY <1>0, <1>d, <1>k, <3>1
  <2> QED BY <2>1, <2>2 DEF DictionaryExact
<1>3. ReservedExact'
  <2>1. \A x \in Call : UnderWay(x) => x # k
    BY <1>0 DEF IInv, ReservedExact
  <2> QED BY <1>0, <1>d, <1>k, <2>1 DEF IInv, ReservedExact, UnderWay
<1>4. QueueExact'
  BY <1>0, <1>k, QueueStays
<1>5. GivenExact'
  <2>1. \A x \in Call : TabOf[x] = TabOf[k] => got[x] = NoCall
    BY <1>0 DEF IInv, GivenExact, Quiet
  <2> QED BY <1>0, <1>d, <1>k, <2>1 DEF IInv, GivenExact
<1>6. ListenersExact'
  <2>1. \A x \in Call : pc[x] = "waiting" => link'[x] = link[x]
    BY <1>0, <1>k DEF IInv, ListenersExact
  <2> QED BY <1>0, <2>1, ListenersStay DEF UnderWay
<1> QED BY <1>1, <1>2, <1>3, <1>4, <1>5, <1>6 DEF IInv

LEMMA OnSuccessKeeps ==
  ASSUME IInv, NEW c \in Call, OnSuccess(c)
  PROVE  IInv'
<1> DEFINE t == TabOf[c]
           n == at[c]
<1>0. /\ link[c] = "born"
      /\ Quiet(t)
      /\ dictionary' = [dictionary EXCEPT ![t][n] = c]
      /\ reserved' = [reserved EXCEPT ![t][n] = NoCall]
      /\ pc' = [d \in Call |-> IF d \in Woken(c) THEN "resolved" ELSE pc[d]]
      /\ got' = [d \in Call |-> IF d \in Woken(c) THEN c ELSE got[d]]
      /\ listeners' = [listeners EXCEPT ![c] = <<>>]
      /\ link' = [link EXCEPT ![c] = "open"]
      /\ UNCHANGED <<permitted, at, requests>>
  BY DEF OnSuccess
<1>t. /\ t \in Tab /\ n \in Name
      /\ \A x \in Call : TabOf[x] \in Tab /\ at[x] \in Name
  BY PoolAssumption DEF PoolAssumption, IInv, TypeOK
<1>c. /\ pc[c] = "opening" /\ t \in permitted /\ reserved[t][n] = c
      /\ dictionary[t][n] = NoCall
  BY <1>0 DEF IInv, ReservedExact, UnderWay
<1>d. \A s \in Tab, m \in Name :
        /\ dictionary'[s][m] = IF s = t /\ m = n THEN c ELSE dictionary[s][m]
        /\ reserved'[s][m] = IF s = t /\ m = n THEN NoCall ELSE reserved[s][m]
  BY <1>0, <1>t DEF IInv, TypeOK
<1>k. link'[c] = "open" /\ \A x \in Call \ {c} : link'[x] = link[x]
  BY <1>0 DEF IInv, TypeOK
<1>l. \A x \in Call : \A i \in 1 .. Len(listeners[x]) : listeners[x][i] \in Call
  BY Elements DEF IInv
<1>w. /\ c \in Woken(c)
      /\ \A x \in Woken(c) : /\ x \in Call /\ TabOf[x] = t /\ at[x] = n
                             /\ x = c \/ pc[x] = "waiting"
      /\ \A x \in Call : pc[x] = "waiting" /\ TabOf[x] = t /\ at[x] = n => x \in Woken(c)
  <2>1. \A i \in 1 .. Len(listeners[c]) :
          LET x == listeners[c][i] IN pc[x] = "waiting" /\ TabOf[x] = t /\ at[x] = n
    BY <1>c DEF IInv, ListenersExact
  <2>2. \A x \in Call : pc[x] = "waiting" /\ TabOf[x] = t /\ at[x] = n =>
          \E i \in 1 .. Len(listeners[c]) : listeners[c][i] = x
    BY <1>c DEF IInv, ListenersExact
  <2> QED BY <1>l, <2>1, <2>2 DEF Woken
<1>1. TypeOK'
  <2>1. listeners' \in [Call -> Seq(Call)]
    BY <1>0 DEF IInv, TypeOK
  <2>2. /\ pc' \in [Call -> {"idle", "waiting", "opening", "failing", "deleting",
                            "resolved", "rejected"}]
        /\ got' \in [Call -> Call \cup {NoCall}]
    BY <1>0 DEF IInv, TypeOK
  <2>3. /\ dictionary' \in [Tab -> [Name -> Call \cup {NoCall}]]
        /\ reserved' \in [Tab -> [Name -> Call \cup {NoCall}]]
    BY <1>0, <1>t DEF IInv, TypeOK
  <2> QED BY <1>0, <2>1, <2>2, <2>3 DEF IInv, TypeOK
<1>2. DictionaryExact'
  <2>1. ASSUME NEW s \in Tab, NEW m \in Name, dictionary'[s][m] # NoCall
        PROVE  /\ TabOf[dictionary'[s][m]] = s
               /\ at'[dictionary'[s][m]] = m
               /\ link'[dictionary'[s][m]] \in {"open", "lost"}
    <3>1. CASE s = t /\ m = n
      BY <1>0, <1>d, <1>k, <3>1
    <3>2. CASE ~(s = t /\ m = n)
      <4>1. /\ dictionary'[s][m] = dictionary[s][m]
            /\ dictionary[s][m] \in Call
            /\ TabOf[dictionary[s][m]] = s
            /\ at[dictionary[s][m]] = m
            /\ link[dictionary[s][m]] \in {"open", "lost"}
        BY <1>d, <2>1, <3>2, Elements DEF IInv, DictionaryExact
      <4> QED BY <1>0, <1>k, <4>1
    <3> QED BY <3>1, <3>2
  <2>2. ASSUME NEW x \in Call, link'[x] \in {"open", "lost"}
        PROVE  dictionary'[TabOf[x]][at'[x]] = x
    <3>1. CASE x = c
      BY <1>0, <1>d, <1>t, <3>1
    <3>2. CASE x # c
      <4>1. dictionary[TabOf[x]][at[x]] = x
        BY <1>k, <2>2, <3>2 DEF IInv, DictionaryExact
      <4>2. ~(TabOf[x] = t /\ at[x] = n)
        BY <1>c, <4>1, PoolAssumption DEF PoolAssumption
      <4> QED BY <1>0, <1>d, <1>t, <4>1, <4>2
    <3> QED BY <3>1, <3>2
  <2> QED BY <2>1, <2>2 DEF DictionaryExact
<1>3. ReservedExact'
  <2>1. \A x \in Call : pc'[x] \in {"opening", "failing"} => x # c /\ UnderWay(x) /\ pc'[x] = pc[x]
    BY <1>0, <1>w DEF UnderWay
  <2>2. \A x \in Call : UnderWay(x) /\ x # c => ~(TabOf[x] = t /\ at[x] = n)
    BY <1>c DEF IInv, ReservedExact
  <2>3. \A x \in Call : UnderWay(x) /\ x # c => pc'[x] = pc[x]
    BY <1>0, <1>w DEF UnderWay
  <2>4. ASSUME NEW x \in Call, UnderWay(x)'
        PROVE  /\ TabOf[x] \in permitted'
               /\ reserved'[TabOf[x]][at'[x]] = x
               /\ dictionary'[TabOf[x]][at'[x]] = NoCall
               /\ link'[x] \in {"none", "born"}
               /\ pc'[x] = "failing" => link'[x] = "none"
    <3>1. x # c /\ UnderWay(x) /\ pc'[x] = pc[x] /\ ~(TabOf[x] = t /\ at[x] = n)
      BY <2>1, <2>2, <2>4 DEF UnderWay
    <3> QED BY <1>0, <1>d, <1>k, <1>t, <3>1 DEF IInv, ReservedExact
  <2>5. ASSUME NEW s \in Tab, NEW m \in Name, reserved'[s][m] # NoCall
        PROVE  /\ TabOf[reserved'[s][m]] = s
               /\ s \in permitted' =>
                    /\ at'[reserved'[s][m]] = m
                    /\ pc'[reserved'[s][m]] \in {"opening", "failing"}
    <3>1. /\ ~(s = t /\ m = n)
          /\ reserved'[s][m] = reserved[s][m] /\ reserved[s][m] \in Call
          /\ TabOf[reserved[s][m]] = s
          /\ s \in permitted => at[reserved[s][m]] = m /\ UnderWay(reserved[s][m])
      BY <1>d, <2>5, Elements DEF IInv, ReservedExact
    <3>2. s \in permitted => reserved[s][m] # c
      BY <3>1
    <3> QED BY <1>0, <2>3, <3>1, <3>2 DEF UnderWay
  <2>6. \A x \in Call : link'[x] = "born" => pc'[x] = "opening"
    BY <1>k, <2>3 DEF IInv, ReservedExact, UnderWay
  <2> QED BY <2>4, <2>5, <2>6 DEF ReservedExact, UnderWay
<1>4. QueueExact'
  <2>1. \A x \in Call : pc[x] \in {"opening", "deleting"} /\ link[x] = "none" =>
          pc'[x] = pc[x] /\ at'[x] = at[x] /\ link'[x] = link[x]
    BY <1>0, <1>k, <1>w
  <2> QED BY <1>0, <2>1, QueueStays
<1>5. GivenExact'
  <2>1. \A x \in Call : TabOf[x] = t => got[x] = NoCall
    BY <1>0 DEF IInv, GivenExact, Quiet
  <2>2. ASSUME NEW x \in Call
        PROVE  /\ pc'[x] # "resolved" => got'[x] = NoCall
               /\ got'[x] # NoCall => dictionary'[TabOf[x]][at'[x]] = got'[x]
    <3>1. CASE x \in Woken(c)
      <4>1. pc'[x] = "resolved" /\ got'[x] = c
        BY <1>0, <3>1
      <4>2. TabOf[x] = t /\ at'[x] = n
        BY <1>0, <1>w, <3>1
      <4> QED BY <1>d, <1>t, <4>1, <4>2
    <3>2. CASE x \notin Woken(c)
      BY <1>0, <1>d, <1>t, <2>1, <3>2 DEF IInv, GivenExact
    <3> QED BY <3>1, <3>2
  <2> QED BY <2>2 DEF GivenExact
<1>6. ListenersExact'
  <2>1. listeners'[c] = <<>> /\ \A x \in Call \ {c} : listeners'[x] = listeners[x]
    BY <1>0 DEF IInv, TypeOK
  <2>2. ASSUME NEW x \in Call, TabOf[x] \in permitted', NEW i \in 1 .. Len(listeners'[x])
        PROVE  /\ UnderWay(x)'
               /\ pc'[listeners'[x][i]] = "waiting"
               /\ TabOf[listeners'[x][i]] = TabOf[x]
               /\ at'[listeners'[x][i]] = at'[x]
               /\ \A j \in 1 .. Len(listeners'[x]) : listeners'[x][i] = listeners'[x][j] => i = j
    <3>1. x # c /\ listeners'[x] = listeners[x] /\ TabOf[x] \in permitted
      BY <1>0, <2>1, <2>2
    <3>2. /\ UnderWay(x)
          /\ pc[listeners[x][i]] = "waiting"
          /\ TabOf[listeners[x][i]] = TabOf[x]
          /\ at[listeners[x][i]] = at[x]
          /\ \A j \in 1 .. Len(listeners[x]) : listeners[x][i] = listeners[x][j] => i = j
      BY <2>2, <3>1 DEF IInv, ListenersExact
    <3>3. ~(TabOf[x] = t /\ at[x] = n)
      BY <1>c, <3>1, <3>2 DEF IInv, ReservedExact
    <3>4. listeners[x][i] \in Call /\ listeners[x][i] \notin Woken(c) /\ x \notin Woken(c)
      <4>1. listeners[x][i] \in Call
        BY <1>l, <2>2, <3>1
      <4>2. ~(TabOf[listeners[x][i]] = t /\ at[listeners[x][i]] = n)
        BY <3>2, <3>3
      <4>3. \A y \in Woken(c) : TabOf[y] = t /\ at[y] = n
        BY <1>w
      <4> HIDE DEF t, n
      <4> QED BY <3>3, <4>1, <4>2, <4>3
    <3> QED BY <1>0, <3>1, <3>2, <3>4 DEF UnderWay
  <2>3. ASSUME NEW x \in Call, pc'[x] = "waiting"
        PROVE  /\ link'[x] = "none"
               /\ TabOf[x] \in permitted' =>
                    /\ reserved'[TabOf[x]][at'[x]] # NoCall
                    /\ \E i \in 1 .. Len(listeners'[reserved'[TabOf[x]][at'[x]]]) :
                         listeners'[reserved'[TabOf[x]][at'[x]]][i] = x
    <3> DEFINE p == reserved[TabOf[x]][at[x]]
    <3>1. pc[x] = "waiting" /\ x # c /\ ~(TabOf[x] = t /\ at[x] = n)
      BY <1>0, <1>w, <2>3
    <3>2. reserved'[TabOf[x]][at'[x]] = p
      BY <1>0, <1>d, <1>t, <3>1
    <3>3. CASE TabOf[x] \in permitted
      <4>1. p # NoCall /\ \E i \in 1 .. Len(listeners[p]) : listeners[p][i] = x
        BY <3>1, <3>3 DEF IInv, ListenersExact
      <4>2. p \in Call /\ p # c
        BY <1>t, <3>1, <3>3, <4>1, Elements DEF IInv, ReservedExact
      <4>3. listeners'[p] = listeners[p]
        BY <2>1, <4>2
      <4>4. link'[x] = "none"
        BY <1>k, <3>1 DEF IInv, ListenersExact
      <4> HIDE DEF p
      <4> QED BY <3>2, <4>1, <4>3, <4>4
    <3>4. CASE TabOf[x] \notin permitted
      BY <1>0, <1>k, <3>1, <3>4 DEF IInv, ListenersExact
    <3> QED BY <3>3, <3>4
  <2> QED BY <2>2, <2>3 DEF ListenersExact, UnderWay
<1> QED BY <1>1, <1>2, <1>3, <1>4, <1>5, <1>6 DEF IInv

LEMMA OnErrorKeeps ==
  ASSUME IInv, NEW c \in Call, OnError(c), listeners[c] = <<>>
  PROVE  IInv'
<1> DEFINE t == TabOf[c]
           n == at[c]
<1>0. /\ pc[c] = "failing"
      /\ reserved' = [reserved EXCEPT ![t][n] = NoCall]
      /\ pc' = [pc EXCEPT ![c] = "rejected"]
      /\ UNCHANGED <<permitted, dictionary, at, got, link, listeners, requests>>
  BY DEF OnError
<1>t. /\ t \in Tab /\ n \in Name
      /\ \A x \in Call : TabOf[x] \in Tab /\ at[x] \in Name
  BY PoolAssumption DEF PoolAssumption, IInv, TypeOK
<1>c. t \in permitted /\ reserved[t][n] = c /\ link[c] = "none"
  BY <1>0 DEF IInv, ReservedExact, UnderWay
<1>d. \A s \in Tab, m \in Name :
        reserved'[s][m] = IF s = t /\ m = n THEN NoCall ELSE reserved[s][m]
  BY <1>0, <1>t DEF IInv, TypeOK
<1>p. pc'[c] = "rejected" /\ \A x \in Call \ {c} : pc'[x] = pc[x]
  BY <1>0 DEF IInv, TypeOK
<1>1. TypeOK'
  BY <1>0, <1>t DEF IInv, TypeOK
<1>2. DictionaryExact'
  BY <1>0 DEF IInv, DictionaryExact
<1>3. ReservedExact'
  <2>1. ASSUME NEW x \in Call, UnderWay(x)'
        PROVE  /\ TabOf[x] \in permitted'
               /\ reserved'[TabOf[x]][at'[x]] = x
               /\ dictionary'[TabOf[x]][at'[x]] = NoCall
               /\ link'[x] \in {"none", "born"}
               /\ pc'[x] = "failing" => link'[x] = "none"
    <3>1. x # c /\ UnderWay(x) /\ pc'[x] = pc[x]
      BY <1>p, <2>1 DEF UnderWay
    <3>2. ~(TabOf[x] = t /\ at[x] = n)
      BY <1>c, <3>1 DEF IInv, ReservedExact
    <3> QED BY <1>0, <1>d, <1>t, <3>1, <3>2 DEF IInv, ReservedExact
  <2>2. ASSUME NEW s \in Tab, NEW m \in Name, reserved'[s][m] # NoCall
        PROVE  /\ TabOf[reserved'[s][m]] = s
               /\ s \in permitted' =>
                    /\ at'[reserved'[s][m]] = m
                    /\ pc'[reserved'[s][m]] \in {"opening", "failing"}
    <3>1. /\ ~(s = t /\ m = n)
          /\ reserved'[s][m] = reserved[s][m] /\ reserved[s][m] \in Call
          /\ TabOf[reserved[s][m]] = s
          /\ s \in permitted => at[reserved[s][m]] = m /\ UnderWay(reserved[s][m])
      BY <1>d, <2>2, Elements DEF IInv, ReservedExact
    <3>2. s \in permitted => reserved[s][m] # c
      BY <3>1
    <3> QED BY <1>0, <1>p, <3>1, <3>2 DEF UnderWay
  <2>3. \A x \in Call : link'[x] = "born" => pc'[x] = "opening"
    BY <1>0, <1>p DEF IInv, ReservedExact
  <2> QED BY <2>1, <2>2, <2>3 DEF ReservedExact, UnderWay
<1>4. QueueExact'
  BY <1>0, <1>p, QueueStays
<1>5. GivenExact'
  BY <1>0, <1>p DEF IInv, GivenExact
<1>6. ListenersExact'
  <2>1. ASSUME NEW x \in Call, TabOf[x] \in permitted, NEW i \in 1 .. Len(listeners[x])
        PROVE  /\ pc'[x] \in {"opening", "failing"}
               /\ pc'[listeners[x][i]] = "waiting"
               /\ TabOf[listeners[x][i]] = TabOf[x]
               /\ at[listeners[x][i]] = at[x]
               /\ \A j \in 1 .. Len(listeners[x]) : listeners[x][i] = listeners[x][j] => i = j
    <3>1. x # c
      BY <2>1
    <3>2. /\ UnderWay(x)
          /\ pc[listeners[x][i]] = "waiting"
          /\ TabOf[listeners[x][i]] = TabOf[x]
          /\ at[listeners[x][i]] = at[x]
          /\ \A j \in 1 .. Len(listeners[x]) : listeners[x][i] = listeners[x][j] => i = j
      BY <2>1 DEF IInv, ListenersExact
    <3>3. listeners[x][i] \in Call
      BY <2>1, Elements DEF IInv
    <3> QED BY <1>0, <1>p, <3>1, <3>2, <3>3 DEF UnderWay
  <2>2. ASSUME NEW x \in Call, pc'[x] = "waiting"
        PROVE  /\ link[x] = "none"
               /\ TabOf[x] \in permitted =>
                    /\ reserved'[TabOf[x]][at[x]] # NoCall
                    /\ \E i \in 1 .. Len(listeners[reserved'[TabOf[x]][at[x]]]) :
                         listeners[reserved'[TabOf[x]][at[x]]][i] = x
    <3>1. pc[x] = "waiting"
      BY <1>p, <2>2
    <3>2. TabOf[x] \in permitted => ~(TabOf[x] = t /\ at[x] = n)
      BY <1>c, <3>1 DEF IInv, ListenersExact
    <3> QED BY <1>d, <1>t, <3>1, <3>2 DEF IInv, ListenersExact
  <2> QED BY <1>0, <2>1, <2>2 DEF ListenersExact, UnderWay
<1> QED BY <1>1, <1>2, <1>3, <1>4, <1>5, <1>6 DEF IInv

LEMMA OnErrorPassesOn ==
  ASSUME IInv, NEW c \in Call, OnError(c), listeners[c] # <<>>
  PROVE  IInv'
<1> DEFINE t == TabOf[c]
           n == at[c]
           d == Head(listeners[c])
           r == [kind |-> "open", by |-> d]
<1>0. /\ pc[c] = "failing"
      /\ reserved' = [reserved EXCEPT ![t][n] = d]
      /\ listeners' = [listeners EXCEPT ![c] = <<>>, ![d] = Tail(listeners[c])]
      /\ pc' = [pc EXCEPT ![c] = "rejected", ![d] = "opening"]
      /\ requests' = [requests EXCEPT ![n] = Append(@, r)]
      /\ UNCHANGED <<permitted, dictionary, at, got, link>>
  BY DEF OnError
<1>t. /\ t \in Tab /\ n \in Name
      /\ \A x \in Call : TabOf[x] \in Tab /\ at[x] \in Name
  BY PoolAssumption DEF PoolAssumption, IInv, TypeOK
<1>c. /\ t \in permitted /\ reserved[t][n] = c /\ link[c] = "none"
      /\ dictionary[t][n] = NoCall
  BY <1>0 DEF IInv, ReservedExact, UnderWay
<1>l. /\ Len(listeners[c]) \in Nat \ {0}
      /\ d = listeners[c][1] /\ d \in Call
      /\ Tail(listeners[c]) \in Seq(Call)
      /\ Len(Tail(listeners[c])) = Len(listeners[c]) - 1
      /\ \A i \in 1 .. Len(Tail(listeners[c])) : Tail(listeners[c])[i] = listeners[c][i + 1]
  <2>1. listeners[c] \in Seq(Call)
    BY DEF IInv, TypeOK
  <2> QED BY <2>1, TailFacts
<1>w. \A i \in 1 .. Len(listeners[c]) :
        /\ listeners[c][i] \in Call
        /\ pc[listeners[c][i]] = "waiting"
        /\ TabOf[listeners[c][i]] = t
        /\ at[listeners[c][i]] = n
        /\ \A j \in 1 .. Len(listeners[c]) : listeners[c][i] = listeners[c][j] => i = j
  BY <1>c, Elements DEF IInv, ListenersExact
<1>h. pc[d] = "waiting" /\ TabOf[d] = t /\ at[d] = n /\ d # c /\ link[d] = "none"
  <2>1. pc[d] = "waiting" /\ TabOf[d] = t /\ at[d] = n
    BY <1>l, <1>w
  <2>2. link[d] = "none"
    BY <1>l, <2>1 DEF IInv, ListenersExact
  <2> QED BY <1>0, <2>1, <2>2
<1> HIDE DEF d
<1>d. \A s \in Tab, m \in Name :
        reserved'[s][m] = IF s = t /\ m = n THEN d ELSE reserved[s][m]
  BY <1>0, <1>t DEF IInv, TypeOK
<1>p. /\ pc'[c] = "rejected" /\ pc'[d] = "opening"
      /\ \A x \in Call \ {c, d} : pc'[x] = pc[x]
  BY <1>0, <1>l, <1>h DEF IInv, TypeOK
<1>s. /\ listeners'[c] = <<>>
      /\ listeners'[d] = Tail(listeners[c])
      /\ \A x \in Call \ {c, d} : listeners'[x] = listeners[x]
      /\ listeners' \in [Call -> Seq(Call)]
  <2> DEFINE rest == Tail(listeners[c])
  <2>1. listeners \in [Call -> Seq(Call)] /\ rest \in Seq(Call)
    BY <1>l DEF IInv, TypeOK
  <2>2. listeners' = [listeners EXCEPT ![c] = <<>>, ![d] = rest]
    BY <1>0
  <2>3. d \in Call /\ d # c
    BY <1>l, <1>h
  <2> HIDE DEF rest
  <2> DEFINE f == [listeners EXCEPT ![c] = <<>>]
  <2>4. f \in [Call -> Seq(Call)] /\ f[c] = <<>> /\ \A x \in Call \ {c} : f[x] = listeners[x]
    BY <2>1
  <2>5. listeners' = [f EXCEPT ![d] = rest]
    BY <2>2, Zenon
  <2> HIDE DEF f
  <2>6. /\ listeners'[c] = <<>> /\ listeners'[d] = rest
        /\ \A x \in Call \ {c, d} : listeners'[x] = listeners[x]
        /\ listeners' \in [Call -> Seq(Call)]
    BY <2>1, <2>3, <2>4, <2>5
  <2> QED BY <2>6 DEF rest
<1>q. QueueExact' /\ requests' \in [Name -> Seq(Request)]
  <2>1. r \in Request /\ r.by = d /\ r.kind = "open"
    BY <1>l DEF Request
  <2>2. \A x \in Call \ {d} : pc[x] \in {"opening", "deleting"} /\ link[x] = "none" =>
          pc'[x] = pc[x] /\ at'[x] = at[x] /\ link'[x] = link[x]
    BY <1>0, <1>p
  <2>3. /\ pc[r.by] \notin {"opening", "deleting"}
        /\ at'[r.by] = n /\ link'[r.by] = "none"
        /\ r.kind = "open" => pc'[r.by] = "opening"
        /\ r.kind = "delete" => pc'[r.by] = "deleting"
        /\ \A x \in Call \ {r.by} : pc[x] \in {"opening", "deleting"} /\ link[x] = "none" =>
             pc'[x] = pc[x] /\ at'[x] = at[x] /\ link'[x] = link[x]
    BY <1>0, <1>h, <1>p, <2>1, <2>2
  <2>4. requests' = [requests EXCEPT ![n] = Append(@, r)] /\ n \in Name /\ r \in Request
    BY <1>0, <1>t, <2>1
  <2> HIDE DEF r, n
  <2> QED BY <2>3, <2>4, QueueGrows
<1>1. TypeOK'
  <2>1. reserved' \in [Tab -> [Name -> Call \cup {NoCall}]]
    BY <1>0, <1>l, <1>t DEF IInv, TypeOK
  <2>2. pc' \in [Call -> {"idle", "waiting", "opening", "failing", "deleting",
                         "resolved", "rejected"}]
    BY <1>0, <1>l DEF IInv, TypeOK
  <2> QED BY <1>0, <1>q, <1>s, <2>1, <2>2 DEF IInv, TypeOK
<1>2. DictionaryExact'
  BY <1>0 DEF IInv, DictionaryExact
<1>3. ReservedExact'
  <2>1. ASSUME NEW x \in Call, UnderWay(x)'
        PROVE  /\ TabOf[x] \in permitted'
               /\ reserved'[TabOf[x]][at'[x]] = x
               /\ dictionary'[TabOf[x]][at'[x]] = NoCall
               /\ link'[x] \in {"none", "born"}
               /\ pc'[x] = "failing" => link'[x] = "none"
    <3>1. CASE x = d
      BY <1>0, <1>c, <1>d, <1>h, <1>p, <1>t, <3>1
    <3>2. CASE x # d
      <4>1. x # c /\ UnderWay(x) /\ pc'[x] = pc[x]
        BY <1>p, <2>1, <3>2 DEF UnderWay
      <4>2. ~(TabOf[x] = t /\ at[x] = n)
        BY <1>c, <4>1 DEF IInv, ReservedExact
      <4> QED BY <1>0, <1>d, <1>t, <4>1, <4>2 DEF IInv, ReservedExact
    <3> QED BY <3>1, <3>2
  <2>2. ASSUME NEW s \in Tab, NEW m \in Name, reserved'[s][m] # NoCall
        PROVE  /\ TabOf[reserved'[s][m]] = s
               /\ s \in permitted' =>
                    /\ at'[reserved'[s][m]] = m
                    /\ pc'[reserved'[s][m]] \in {"opening", "failing"}
    <3>1. CASE s = t /\ m = n
      BY <1>0, <1>d, <1>h, <1>p, <3>1
    <3>2. CASE ~(s = t /\ m = n)
      <4>1. /\ reserved'[s][m] = reserved[s][m] /\ reserved[s][m] \in Call
            /\ TabOf[reserved[s][m]] = s
            /\ s \in permitted => at[reserved[s][m]] = m /\ UnderWay(reserved[s][m])
        BY <1>d, <2>2, <3>2, Elements DEF IInv, ReservedExact
      <4>2. s \in permitted => reserved[s][m] \notin {c, d}
        BY <1>h, <3>2, <4>1 DEF UnderWay
      <4> QED BY <1>0, <1>p, <4>1, <4>2 DEF UnderWay
    <3> QED BY <3>1, <3>2
  <2>3. ASSUME NEW x \in Call, link'[x] = "born" PROVE pc'[x] = "opening"
    <3>1. link[x] = "born" /\ pc[x] = "opening" /\ x \notin {c, d}
      BY <1>0, <1>c, <1>h, <2>3 DEF IInv, ReservedExact
    <3> QED BY <1>p, <3>1
  <2> QED BY <2>1, <2>2, <2>3 DEF ReservedExact, UnderWay
<1>5. GivenExact'
  BY <1>0, <1>p, <1>h DEF IInv, GivenExact
<1>6. ListenersExact'
  <2>1. ASSUME NEW x \in Call, TabOf[x] \in permitted, NEW i \in 1 .. Len(listeners'[x])
        PROVE  /\ pc'[x] \in {"opening", "failing"}
               /\ pc'[listeners'[x][i]] = "waiting"
               /\ TabOf[listeners'[x][i]] = TabOf[x]
               /\ at[listeners'[x][i]] = at[x]
               /\ \A j \in 1 .. Len(listeners'[x]) : listeners'[x][i] = listeners'[x][j] => i = j
    <3>1. CASE x = d
      <4>0. i \in 1 .. Len(listeners[c]) - 1 /\ Len(listeners'[d]) = Len(listeners[c]) - 1
        <5>1. i \in 1 .. Len(listeners'[d])
          BY <3>1
        <5> QED BY <1>l, <1>s, <5>1
      <4>1. /\ i + 1 \in 1 .. Len(listeners[c])
            /\ listeners'[d][i] = listeners[c][i + 1]
        <5>1. i \in 1 .. Len(Tail(listeners[c]))
          BY <1>l, <4>0
        <5>2. Tail(listeners[c])[i] = listeners[c][i + 1]
          BY <1>l, <5>1
        <5>3. i + 1 \in 1 .. Len(listeners[c])
          BY <1>l, <4>0
        <5> QED BY <1>s, <5>2, <5>3
      <4>2. listeners[c][i + 1] \notin {c, d}
        <5>1. i + 1 # 1 /\ 1 \in 1 .. Len(listeners[c])
          BY <1>l, <4>0
        <5>2. listeners[c][i + 1] # d
          <6>1. listeners[c][i + 1] = listeners[c][1] => i + 1 = 1
            BY <1>w, <4>1, <5>1
          <6> QED BY <1>l, <5>1, <6>1
        <5>3. pc[listeners[c][i + 1]] = "waiting"
          BY <1>w, <4>1
        <5>4. listeners[c][i + 1] # c
          BY <1>0, <5>3
        <5> QED BY <5>2, <5>4
      <4>3. ASSUME NEW j \in 1 .. Len(listeners'[d]), listeners'[d][i] = listeners'[d][j]
            PROVE  i = j
        <5>0. j \in 1 .. Len(listeners[c]) - 1
          BY <4>0, <4>3
        <5>1. j + 1 \in 1 .. Len(listeners[c]) /\ listeners'[d][j] = listeners[c][j + 1]
          <6>1. j \in 1 .. Len(Tail(listeners[c])) /\ j + 1 \in 1 .. Len(listeners[c])
            BY <1>l, <5>0
          <6>2. Tail(listeners[c])[j] = listeners[c][j + 1]
            BY <1>l, <6>1
          <6> QED BY <1>s, <6>1, <6>2
        <5>2. i + 1 = j + 1
          <6>1. listeners[c][i + 1] = listeners[c][j + 1]
            BY <4>1, <4>3, <5>1
          <6>2. \A m \in 1 .. Len(listeners[c]) :
                  listeners[c][i + 1] = listeners[c][m] => i + 1 = m
            BY <1>w, <4>1
          <6> QED BY <5>1, <6>1, <6>2
        <5> QED BY <2>1, <5>2
      <4> QED BY <1>h, <1>p, <1>w, <3>1, <4>1, <4>2, <4>3
    <3>2. CASE x # d
      <4>1. x # c /\ listeners'[x] = listeners[x]
        BY <1>s, <2>1, <3>2
      <4>2. /\ UnderWay(x)
            /\ pc[listeners[x][i]] = "waiting"
            /\ TabOf[listeners[x][i]] = TabOf[x]
            /\ at[listeners[x][i]] = at[x]
            /\ \A j \in 1 .. Len(listeners[x]) : listeners[x][i] = listeners[x][j] => i = j
        BY <2>1, <4>1 DEF IInv, ListenersExact
      <4>3. listeners[x][i] \in Call
        BY <2>1, <4>1, Elements DEF IInv
      <4>4. ~(TabOf[x] = t /\ at[x] = n)
        BY <1>c, <4>1, <4>2 DEF IInv, ReservedExact
      <4>5. listeners[x][i] \notin {c, d}
        BY <1>0, <1>h, <4>2, <4>4
      <4> QED BY <1>p, <3>2, <4>1, <4>2, <4>3, <4>5 DEF UnderWay
    <3> QED BY <3>1, <3>2
  <2>2. ASSUME NEW x \in Call, pc'[x] = "waiting"
        PROVE  /\ link[x] = "none"
               /\ TabOf[x] \in permitted =>
                    /\ reserved'[TabOf[x]][at[x]] # NoCall
                    /\ \E i \in 1 .. Len(listeners'[reserved'[TabOf[x]][at[x]]]) :
                         listeners'[reserved'[TabOf[x]][at[x]]][i] = x
    <3> DEFINE p == reserved[TabOf[x]][at[x]]
    <3>1. pc[x] = "waiting" /\ x \notin {c, d} /\ link[x] = "none"
      BY <1>p, <2>2 DEF IInv, ListenersExact
    <3>2. CASE TabOf[x] \in permitted /\ TabOf[x] = t /\ at[x] = n
      <4>1. PICK i \in 1 .. Len(listeners[c]) : listeners[c][i] = x
        BY <1>c, <3>1, <3>2 DEF IInv, ListenersExact
      <4>2. i # 1
        BY <1>l, <3>1, <4>1
      <4>3. i - 1 \in 1 .. Len(listeners'[d]) /\ listeners'[d][i - 1] = x
        <5>1. i - 1 \in 1 .. Len(Tail(listeners[c])) /\ (i - 1) + 1 = i
          BY <1>l, <4>2
        <5>2. Tail(listeners[c])[i - 1] = listeners[c][(i - 1) + 1]
          BY <1>l, <5>1, Zenon
        <5> QED BY <1>s, <4>1, <5>1, <5>2
      <4>4. reserved'[TabOf[x]][at[x]] = d /\ d # NoCall
        BY <1>d, <1>l, <1>t, <3>2, PoolAssumption DEF PoolAssumption
      <4> QED BY <3>1, <4>3, <4>4
    <3>3. CASE TabOf[x] \in permitted /\ ~(TabOf[x] = t /\ at[x] = n)
      <4>1. p # NoCall /\ \E i \in 1 .. Len(listeners[p]) : listeners[p][i] = x
        BY <3>1, <3>3 DEF IInv, ListenersExact
      <4>2. p \in Call /\ TabOf[p] = TabOf[x] /\ at[p] = at[x]
        BY <1>t, <3>3, <4>1, Elements DEF IInv, ReservedExact
      <4>3. listeners'[p] = listeners[p]
        BY <1>h, <1>s, <3>3, <4>2
      <4>4. reserved'[TabOf[x]][at[x]] = p
        BY <1>d, <1>t, <3>3
      <4> HIDE DEF p
      <4> QED BY <3>1, <4>1, <4>3, <4>4
    <3> QED BY <3>1, <3>2, <3>3
  <2>3. UNCHANGED <<permitted, at, link>>
    BY <1>0
  <2> QED BY <2>1, <2>2, <2>3 DEF ListenersExact, UnderWay
<1> QED BY <1>q, <1>1, <1>2, <1>3, <1>5, <1>6 DEF IInv
-----------------------------------------------------------------------------
(* IndexedDB. *)
LEMMA HeadFacts ==
  ASSUME IInv, NEW n \in Name, requests[n] # <<>>
  PROVE  /\ Head(requests[n]).by \in Call
         /\ at[Head(requests[n]).by] = n
         /\ link[Head(requests[n]).by] = "none"
         /\ Head(requests[n]).kind = "open" => pc[Head(requests[n]).by] = "opening"
         /\ Head(requests[n]).kind = "delete" => pc[Head(requests[n]).by] = "deleting"
<1>1. requests[n] \in Seq(Request)
  BY DEF IInv, TypeOK
<1>2. 1 \in 1 .. Len(requests[n]) /\ Head(requests[n]) = requests[n][1]
  BY <1>1, TailFacts
<1> QED BY <1>2, Elements DEF IInv, QueueExact

LEMMA ServeOpenKeeps ==
  ASSUME IInv, NEW n \in Name, ServeOpen(n)
  PROVE  IInv'
<1> DEFINE c == Head(requests[n]).by
<1>0. /\ requests[n] # <<>> /\ Head(requests[n]).kind = "open"
      /\ link' = [link EXCEPT ![c] = "born"]
      /\ requests' = [requests EXCEPT ![n] = Tail(@)]
      /\ UNCHANGED <<permitted, dictionary, reserved, listeners, pc, at, got>>
  BY DEF ServeOpen, Serves
<1>h. c \in Call /\ at[c] = n /\ link[c] = "none" /\ pc[c] = "opening"
  BY <1>0, HeadFacts
<1>q. QueueExact' /\ requests' \in [Name -> Seq(Request)]
  <2>1. link \in [Call -> {"none", "born", "open", "lost"}]
    BY DEF IInv, TypeOK
  <2>2. \A x \in Call \ {Head(requests[n]).by} :
          pc[x] \in {"opening", "deleting"} /\ link[x] = "none" =>
            pc'[x] = pc[x] /\ at'[x] = at[x] /\ link'[x] = link[x]
    BY <1>0, <1>h, <2>1
  <2> QED BY <1>0, <2>2, QueueServed
<1> HIDE DEF c
<1>k. /\ link'[c] = "born" /\ \A x \in Call \ {c} : link'[x] = link[x]
      /\ link' \in [Call -> {"none", "born", "open", "lost"}]
  BY <1>0, <1>h DEF IInv, TypeOK
<1>1. TypeOK'
  BY <1>0, <1>k, <1>q DEF IInv, TypeOK
<1>2. DictionaryExact'
  <2>1. \A s \in Tab, m \in Name : dictionary[s][m] # NoCall =>
          dictionary[s][m] \in Call /\ dictionary[s][m] # c
    BY <1>h, Elements DEF IInv, DictionaryExact
  <2> QED BY <1>0, <1>k, <2>1 DEF IInv, DictionaryExact
<1>3. ReservedExact'
  BY <1>0, <1>h, <1>k DEF IInv, ReservedExact, UnderWay
<1>5. GivenExact'
  BY <1>0 DEF IInv, GivenExact
<1>6. ListenersExact'
  <2>1. \A x \in Call : pc[x] = "waiting" => link'[x] = link[x]
    BY <1>h, <1>k
  <2> QED BY <1>0, <2>1, ListenersStay DEF UnderWay
<1> QED BY <1>q, <1>1, <1>2, <1>3, <1>5, <1>6 DEF IInv

LEMMA FailOpenKeeps ==
  ASSUME IInv, NEW n \in Name, FailOpen(n)
  PROVE  IInv'
<1> DEFINE c == Head(requests[n]).by
<1>0. /\ requests[n] # <<>> /\ Head(requests[n]).kind = "open"
      /\ pc' = [pc EXCEPT ![c] = "failing"]
      /\ requests' = [requests EXCEPT ![n] = Tail(@)]
      /\ UNCHANGED <<permitted, dictionary, reserved, listeners, at, got, link>>
  BY DEF FailOpen, Serves
<1>h. c \in Call /\ at[c] = n /\ link[c] = "none" /\ pc[c] = "opening"
  BY <1>0, HeadFacts
<1>p. /\ pc'[c] = "failing" /\ \A x \in Call \ {c} : pc'[x] = pc[x]
      /\ pc' \in [Call -> {"idle", "waiting", "opening", "failing", "deleting",
                          "resolved", "rejected"}]
  <2> HIDE DEF c
  <2> QED BY <1>0, <1>h DEF IInv, TypeOK
<1>q. QueueExact' /\ requests' \in [Name -> Seq(Request)]
  <2>1. \A x \in Call \ {Head(requests[n]).by} :
          pc[x] \in {"opening", "deleting"} /\ link[x] = "none" =>
            pc'[x] = pc[x] /\ at'[x] = at[x] /\ link'[x] = link[x]
    BY <1>0, <1>p
  <2> QED BY <1>0, <2>1, QueueServed
<1> HIDE DEF c
<1>1. TypeOK'
  BY <1>0, <1>p, <1>q DEF IInv, TypeOK
<1>2. DictionaryExact'
  BY <1>0 DEF IInv, DictionaryExact
<1>u. \A x \in Call : /\ UnderWay(x)' <=> UnderWay(x)
                      /\ pc'[x] = "waiting" <=> pc[x] = "waiting"
                      /\ pc'[x] = "resolved" <=> pc[x] = "resolved"
  BY <1>h, <1>p DEF UnderWay
<1>3. ReservedExact'
  <2>1. \A t \in Tab, m \in Name : reserved[t][m] # NoCall => reserved[t][m] \in Call
    BY Elements DEF IInv
  <2>2. ASSUME NEW x \in Call, link[x] = "born" PROVE pc'[x] = "opening"
    <3>1. pc[x] = "opening" /\ x # c
      BY <1>h, <2>2 DEF IInv, ReservedExact
    <3> QED BY <1>p, <3>1
  <2>3. \A x \in Call : UnderWay(x) /\ pc'[x] = "failing" => link[x] = "none"
    BY <1>h, <1>p DEF IInv, ReservedExact
  <2>4. \A x \in Call : UnderWay(x)' => /\ TabOf[x] \in permitted
                                        /\ reserved[TabOf[x]][at[x]] = x
                                        /\ dictionary[TabOf[x]][at[x]] = NoCall
                                        /\ link[x] \in {"none", "born"}
                                        /\ pc'[x] = "failing" => link[x] = "none"
    BY <1>u, <2>3 DEF IInv, ReservedExact
  <2>5. \A t \in Tab, m \in Name : reserved[t][m] # NoCall =>
          /\ TabOf[reserved[t][m]] = t
          /\ t \in permitted => /\ at[reserved[t][m]] = m
                                /\ pc'[reserved[t][m]] \in {"opening", "failing"}
    BY <1>u, <2>1 DEF IInv, ReservedExact, UnderWay
  <2>6. UNCHANGED <<permitted, dictionary, reserved, at, link>>
    BY <1>0
  <2>7. ASSUME NEW x \in Call, UnderWay(x)'
        PROVE  /\ TabOf[x] \in permitted'
               /\ reserved'[TabOf[x]][at'[x]] = x
               /\ dictionary'[TabOf[x]][at'[x]] = NoCall
               /\ link'[x] \in {"none", "born"}
               /\ pc'[x] = "failing" => link'[x] = "none"
    BY <2>4, <2>6, <2>7
  <2>8. ASSUME NEW t \in Tab, NEW m \in Name, reserved'[t][m] # NoCall
        PROVE  /\ TabOf[reserved'[t][m]] = t
               /\ t \in permitted' => /\ at'[reserved'[t][m]] = m
                                      /\ pc'[reserved'[t][m]] \in {"opening", "failing"}
    BY <2>5, <2>6, <2>8
  <2>9. \A x \in Call : link'[x] = "born" => pc'[x] = "opening"
    BY <2>2, <2>6
  <2> QED BY <2>7, <2>8, <2>9 DEF ReservedExact, UnderWay
<1>5. GivenExact'
  BY <1>0, <1>u DEF IInv, GivenExact
<1>6. ListenersExact'
  BY <1>0, <1>u, ListenersStay
<1> QED BY <1>q, <1>1, <1>2, <1>3, <1>5, <1>6 DEF IInv

LEMMA EndDeleteKeeps ==
  ASSUME IInv, NEW n \in Name, EndDelete(n)
  PROVE  IInv'
<1> DEFINE c == Head(requests[n]).by
<1>0. /\ requests[n] # <<>> /\ Head(requests[n]).kind = "delete"
      /\ pc' = [pc EXCEPT ![c] = "resolved"]
      /\ requests' = [requests EXCEPT ![n] = Tail(@)]
      /\ UNCHANGED <<permitted, dictionary, reserved, listeners, at, got, link>>
  BY DEF EndDelete, Serves
<1>h. c \in Call /\ at[c] = n /\ link[c] = "none" /\ pc[c] = "deleting"
  BY <1>0, HeadFacts
<1>p. /\ pc'[c] = "resolved" /\ \A x \in Call \ {c} : pc'[x] = pc[x]
      /\ pc' \in [Call -> {"idle", "waiting", "opening", "failing", "deleting",
                          "resolved", "rejected"}]
  <2> HIDE DEF c
  <2> QED BY <1>0, <1>h DEF IInv, TypeOK
<1>q. QueueExact' /\ requests' \in [Name -> Seq(Request)]
  <2>1. \A x \in Call \ {Head(requests[n]).by} :
          pc[x] \in {"opening", "deleting"} /\ link[x] = "none" =>
            pc'[x] = pc[x] /\ at'[x] = at[x] /\ link'[x] = link[x]
    BY <1>0, <1>p
  <2> QED BY <1>0, <2>1, QueueServed
<1> HIDE DEF c
<1>1. TypeOK'
  BY <1>0, <1>p, <1>q DEF IInv, TypeOK
<1>2. DictionaryExact'
  BY <1>0 DEF IInv, DictionaryExact
<1>u. \A x \in Call : /\ UnderWay(x) => x # c
                      /\ UnderWay(x) => UnderWay(x)'
                      /\ UnderWay(x)' => UnderWay(x) /\ x # c
                      /\ pc[x] = "waiting" => pc'[x] = "waiting"
                      /\ pc'[x] = "waiting" => pc[x] = "waiting"
  BY <1>h, <1>p DEF UnderWay
<1>3. ReservedExact'
  <2>1. \A t \in Tab, m \in Name : reserved[t][m] # NoCall => reserved[t][m] \in Call
    BY Elements DEF IInv
  <2>2. ASSUME NEW x \in Call, link[x] = "born" PROVE pc'[x] = "opening"
    <3>1. pc[x] = "opening" /\ x # c
      BY <1>h, <2>2 DEF IInv, ReservedExact
    <3> QED BY <1>p, <3>1
  <2>4. \A x \in Call : UnderWay(x)' => /\ TabOf[x] \in permitted
                                        /\ reserved[TabOf[x]][at[x]] = x
                                        /\ dictionary[TabOf[x]][at[x]] = NoCall
                                        /\ link[x] \in {"none", "born"}
                                        /\ pc'[x] = "failing" => link[x] = "none"
    BY <1>p, <1>u DEF IInv, ReservedExact
  <2>5. \A t \in Tab, m \in Name : reserved[t][m] # NoCall =>
          /\ TabOf[reserved[t][m]] = t
          /\ t \in permitted => /\ at[reserved[t][m]] = m
                                /\ pc'[reserved[t][m]] \in {"opening", "failing"}
    BY <1>u, <2>1 DEF IInv, ReservedExact, UnderWay
  <2>6. UNCHANGED <<permitted, dictionary, reserved, at, link>>
    BY <1>0
  <2>7. ASSUME NEW x \in Call, UnderWay(x)'
        PROVE  /\ TabOf[x] \in permitted'
               /\ reserved'[TabOf[x]][at'[x]] = x
               /\ dictionary'[TabOf[x]][at'[x]] = NoCall
               /\ link'[x] \in {"none", "born"}
               /\ pc'[x] = "failing" => link'[x] = "none"
    BY <2>4, <2>6, <2>7
  <2>8. ASSUME NEW t \in Tab, NEW m \in Name, reserved'[t][m] # NoCall
        PROVE  /\ TabOf[reserved'[t][m]] = t
               /\ t \in permitted' => /\ at'[reserved'[t][m]] = m
                                      /\ pc'[reserved'[t][m]] \in {"opening", "failing"}
    BY <2>5, <2>6, <2>8
  <2>9. \A x \in Call : link'[x] = "born" => pc'[x] = "opening"
    BY <2>2, <2>6
  <2> QED BY <2>7, <2>8, <2>9 DEF ReservedExact, UnderWay
<1>5. GivenExact'
  BY <1>0, <1>h, <1>p DEF IInv, GivenExact
<1>6. ListenersExact'
  BY <1>0, <1>u, ListenersStay
<1> QED BY <1>q, <1>1, <1>2, <1>3, <1>5, <1>6 DEF IInv

LEMMA LoseConnectionKeeps ==
  ASSUME IInv, NEW k \in Call, LoseConnection(k)
  PROVE  IInv'
<1>0. /\ link[k] = "open"
      /\ link' = [link EXCEPT ![k] = "lost"]
      /\ UNCHANGED <<permitted, dictionary, reserved, listeners, pc, at, got, requests>>
  BY DEF LoseConnection
<1>k. /\ link'[k] = "lost" /\ \A x \in Call \ {k} : link'[x] = link[x]
      /\ link' \in [Call -> {"none", "born", "open", "lost"}]
  BY <1>0 DEF IInv, TypeOK
<1>1. TypeOK'
  BY <1>0, <1>k DEF IInv, TypeOK
<1>2. DictionaryExact'
  <2>1. \A s \in Tab, m \in Name : dictionary[s][m] # NoCall => dictionary[s][m] \in Call
    BY Elements DEF IInv
  <2>2. \A x \in Call : link'[x] \in {"open", "lost"} <=> link[x] \in {"open", "lost"}
    BY <1>0, <1>k
  <2> QED BY <1>0, <2>1, <2>2 DEF IInv, DictionaryExact
<1>3. ReservedExact'
  BY <1>0, <1>k DEF IInv, ReservedExact, UnderWay
<1>4. QueueExact'
  BY <1>0, <1>k, QueueStays
<1>5. GivenExact'
  BY <1>0 DEF IInv, GivenExact
<1>6. ListenersExact'
  <2>1. \A x \in Call : pc[x] = "waiting" => link'[x] = link[x]
    BY <1>0, <1>k DEF IInv, ListenersExact
  <2> QED BY <1>0, <2>1, ListenersStay DEF UnderWay
<1> QED BY <1>1, <1>2, <1>3, <1>4, <1>5, <1>6 DEF IInv

-----------------------------------------------------------------------------
LEMMA NextIInv == IInv /\ [Next]_poolVars => IInv'
<1> SUFFICES ASSUME IInv, [Next]_poolVars PROVE IInv'
  OBVIOUS
<1>1. CASE UNCHANGED poolVars
  BY <1>1, StutterIInv
<1>2. ASSUME NEW c \in Call, NEW n \in Name, GetOrOpen(c, n) PROVE IInv'
  BY <1>2, HitKeeps, ListenKeeps, ReserveKeeps, OpenThrowsKeeps DEF GetOrOpen
<1>3. ASSUME NEW c \in Call, NEW n \in Name, Delete(c, n) PROVE IInv'
  BY <1>3, DeleteKeeps
<1>4. ASSUME NEW c \in Call, Continue(c) PROVE IInv'
  BY <1>4, ContinueKeeps
<1>5. ASSUME NEW c \in Call, OnSuccess(c) PROVE IInv'
  BY <1>5, OnSuccessKeeps
<1>6. ASSUME NEW c \in Call, OnError(c) PROVE IInv'
  BY <1>6, OnErrorKeeps, OnErrorPassesOn
<1>7. ASSUME NEW c \in Call, OnVersionChange(c) \/ OnClose(c) PROVE IInv'
  BY <1>7, OnVersionChangeKeeps
<1>8. ASSUME NEW n \in Name, ServeOpen(n) PROVE IInv'
  BY <1>8, ServeOpenKeeps
<1>9. ASSUME NEW n \in Name, FailOpen(n) PROVE IInv'
  BY <1>9, FailOpenKeeps
<1>10. ASSUME NEW n \in Name, EndDelete(n) PROVE IInv'
  BY <1>10, EndDeleteKeeps
<1>11. ASSUME NEW c \in Call, LoseConnection(c) PROVE IInv'
  BY <1>11, LoseConnectionKeeps
<1> QED BY <1>1, <1>2, <1>3, <1>4, <1>5, <1>6, <1>7, <1>8, <1>9, <1>10, <1>11
        DEF Next, PageStep, DatabaseStep

\* The tables, the requests and the listeners say of every open, connection and
\* waiting caller what they stand for, in every reachable state.
THEOREM PoolInvariant == Spec => []IInv
<1>1. PoolInit => IInv
  BY InitIInv
<1>2. IInv /\ [Next]_poolVars => IInv'
  BY NextIInv
<1> QED BY <1>1, <1>2, PTL DEF Spec

\* The variables keep their types (indexed-dbcp.ts, the fields of IDBCP and the
\* local state of its promises).
THEOREM PoolTypeOK == Spec => []TypeOK
<1>1. IInv => TypeOK
  BY DEF IInv
<1> QED BY <1>1, PoolInvariant, PTL

\* getOrOpen never leaves a page with two connections to one database, nor with
\* one it opens while it holds another.
THEOREM PoolOneConnection == Spec => []OneConnection
<1>1. IInv => OneConnection
  <2> SUFFICES ASSUME IInv, NEW t \in Tab, NEW n \in Name,
                      NEW c \in Connected(t, n) \cup Opening(t, n),
                      NEW d \in Connected(t, n) \cup Opening(t, n)
               PROVE  c = d
    BY DEF OneConnection
  <2>1. \A x \in Call : link[x] \in {"none", "born", "open", "lost"}
    BY DEF IInv, TypeOK
  <2>2. NoCall \notin Call
    BY PoolAssumption DEF PoolAssumption
  <2>3. ASSUME NEW x \in Connected(t, n) \cup Opening(t, n)
        PROVE  /\ x \in Call
               /\ \/ dictionary[t][n] = x
                  \/ dictionary[t][n] = NoCall /\ reserved[t][n] = x
    <3>1. x \in Call /\ TabOf[x] = t /\ at[x] = n /\ (link[x] # "none" \/ UnderWay(x))
      BY DEF Connected, Opening, UnderWay
    <3>2. CASE link[x] \in {"open", "lost"}
      BY <3>1, <3>2 DEF IInv, DictionaryExact
    <3>3. CASE UnderWay(x)
      BY <3>1, <3>3 DEF IInv, ReservedExact
    <3>4. CASE link[x] = "born"
      <4>1. UnderWay(x)
        BY <3>1, <3>4 DEF IInv, ReservedExact, UnderWay
      <4> QED BY <3>3, <4>1
    <3> QED BY <2>1, <3>1, <3>2, <3>3, <3>4
  <2> QED BY <2>2, <2>3
<1> QED BY <1>1, PoolInvariant, PTL

\* The connection a caller is given is the one in its page's dictionary, and the
\* page has not closed it.
THEOREM PoolGivenUsable == Spec => []GivenUsable
<1>1. IInv => GivenUsable
  <2> SUFFICES ASSUME IInv, NEW c \in Call, pc[c] = "resolved", got[c] # NoCall
               PROVE  /\ link[got[c]] \in {"open", "lost"}
                      /\ dictionary[TabOf[c]][at[c]] = got[c]
                      /\ TabOf[got[c]] = TabOf[c]
                      /\ at[got[c]] = at[c]
    BY DEF GivenUsable
  <2>1. TabOf[c] \in Tab /\ at[c] \in Name
    BY PoolAssumption DEF PoolAssumption, IInv, TypeOK
  <2>2. dictionary[TabOf[c]][at[c]] = got[c]
    BY DEF IInv, GivenExact
  <2> QED BY <2>1, <2>2 DEF IInv, DictionaryExact
<1> QED BY <1>1, PoolInvariant, PTL

\* A caller that waits is on the list of the open that will answer it.
THEOREM PoolNoLostWaiter == Spec => []NoLostWaiter
<1>1. IInv => NoLostWaiter
  <2> SUFFICES ASSUME IInv, NEW c \in Call, pc[c] = "waiting", TabOf[c] \in permitted
               PROVE  LET o == reserved[TabOf[c]][at[c]]
                      IN  /\ o # NoCall
                          /\ pc[o] \in {"opening", "failing"}
                          /\ \E i \in DOMAIN listeners[o] :
                                /\ listeners[o][i] = c
                                /\ \A j \in DOMAIN listeners[o] : listeners[o][j] = c => j = i
    BY DEF NoLostWaiter
  <2> DEFINE o == reserved[TabOf[c]][at[c]]
  <2>1. TabOf[c] \in Tab /\ at[c] \in Name
    BY PoolAssumption DEF PoolAssumption, IInv, TypeOK
  <2>2. o # NoCall /\ \E i \in 1 .. Len(listeners[o]) : listeners[o][i] = c
    BY DEF IInv, ListenersExact
  <2>3. o \in Call /\ TabOf[o] = TabOf[c] /\ UnderWay(o)
    BY <2>1, <2>2, Elements DEF IInv, ReservedExact
  <2>4. listeners[o] \in Seq(Call) /\ DOMAIN listeners[o] = 1 .. Len(listeners[o])
    BY <2>3 DEF IInv, TypeOK
  <2>5. \A i, j \in 1 .. Len(listeners[o]) : listeners[o][i] = listeners[o][j] => i = j
    BY <2>3 DEF IInv, ListenersExact
  <2> HIDE DEF o
  <2>6. \E i \in DOMAIN listeners[o] :
          /\ listeners[o][i] = c
          /\ \A j \in DOMAIN listeners[o] : listeners[o][j] = c => j = i
    BY <2>2, <2>4, <2>5
  <2>7. pc[o] \in {"opening", "failing"}
    BY <2>3 DEF UnderWay
  <2> QED BY <2>2, <2>6, <2>7 DEF o
<1> QED BY <1>1, PoolInvariant, PTL

-----------------------------------------------------------------------------
(* The pool implements SharedConnection.                                   *)
Asks(c) == pc[c] \in {"waiting", "opening", "failing"}

Asking == [t \in Tab |-> [n \in Name |-> AskingAt(t, n)]]
Refused == {c \in Call : pc[c] = "rejected"}
Unseen == UNCHANGED <<dictionary, Asking, got, Refused>>

LEMMA AskingStays ==
  ASSUME \A x \in Call : (Asks(x)' <=> Asks(x)) /\ (Asks(x) => at'[x] = at[x])
  PROVE  Asking' = Asking
<1>1. \A t \in Tab, n \in Name : AskingAt(t, n)' = AskingAt(t, n)
  BY DEF AskingAt, Asks
<1> QED BY <1>1 DEF Asking

LEMMA AskingChanges ==
  ASSUME NEW t \in Tab, NEW n \in Name,
         \A u \in Tab, m \in Name : u # t \/ m # n => AskingAt(u, m)' = AskingAt(u, m)
  PROVE  Asking' = [Asking EXCEPT ![t][n] = AskingAt(t, n)']
BY DEF Asking

\* Between two handlers of a page every answer has been taken.
LEMMA QuietRests ==
  ASSUME IInv, NEW t \in Tab, Quiet(t)
  PROVE  Shared!Resting(t)
BY DEF IInv, GivenExact, Quiet, Shared!Resting

LEMMA IdleIsFree ==
  ASSUME IInv, NEW c \in Call, pc[c] = "idle", Quiet(TabOf[c])
  PROVE  Shared!Free(c)
<1>1. TabOf[c] \in Tab
  BY PoolAssumption DEF PoolAssumption
<1>2. \A n \in Name : c \notin [t \in Tab |-> [m \in Name |-> AskingAt(t, m)]][TabOf[c]][n]
  BY <1>1 DEF AskingAt
<1>3. Shared!Resting(TabOf[c])
  BY <1>1, QuietRests
<1> QED BY <1>2, <1>3, Zenon DEF Shared!Free

LEMMA CallRefines ==
  ASSUME IInv, NEW c \in Call, NEW n \in Name, GetOrOpen(c, n)
  PROVE  Shared!Share(c, n) \/ Shared!Ask(c, n) \/ Shared!Forbid(c)
<1>1. /\ pc[c] = "idle" /\ TabOf[c] \in Tab
      /\ at' = [at EXCEPT ![c] = n] /\ dictionary' = dictionary
  BY PoolAssumption DEF PoolAssumption, GetOrOpen, Calls
<1>2. Shared!Free(c)
  BY IdleIsFree DEF GetOrOpen, Calls
<1>3. ASSUME Hit(c, n) PROVE Shared!Share(c, n)
  <2>1. pc' = [pc EXCEPT ![c] = "resolved"]
    BY <1>3 DEF Hit
  <2>2. Asking' = Asking
    BY <1>1, <2>1, AskingStays DEF Asks, IInv, TypeOK
  <2>3. Refused' = Refused
    BY <1>1, <2>1 DEF Refused, IInv, TypeOK
  <2> QED BY <1>1, <1>2, <1>3, <2>2, <2>3 DEF Hit, Shared!Share, Asking, Refused
<1>4. ASSUME Listen(c, n) \/ Reserve(c, n) PROVE Shared!Ask(c, n)
  <2> PICK t \in Tab : t = TabOf[c]
    BY <1>1
  <2>1. /\ dictionary[t][n] = NoCall /\ got' = got
        /\ Asks(c)' /\ \A x \in Call \ {c} : pc'[x] = pc[x] /\ at'[x] = at[x]
    BY <1>1, <1>4 DEF Listen, Reserve, Asks, IInv, TypeOK
  <2>2. AskingAt(t, n)' = AskingAt(t, n) \cup {c}
    BY <1>1, <2>1 DEF AskingAt, Asks, IInv, TypeOK
  <2>3. \A u \in Tab, m \in Name : u # t \/ m # n => AskingAt(u, m)' = AskingAt(u, m)
    BY <1>1, <2>1 DEF AskingAt, Asks, IInv, TypeOK
  <2>4. Asking' = [Asking EXCEPT ![t][n] = AskingAt(t, n) \cup {c}]
    BY <2>2, <2>3, AskingChanges
  <2>5. Asking' = [Asking EXCEPT ![t][n] = @ \cup {c}]
    BY <1>1, <2>4 DEF Asking
  <2>6. Refused' = Refused
    BY <1>1, <2>1 DEF Refused, Asks, IInv, TypeOK
  <2> QED BY <1>1, <1>2, <2>1, <2>5, <2>6 DEF Shared!Ask, Asking, Refused
<1>5. ASSUME OpenThrows(c, n) PROVE Shared!Forbid(c)
  <2>1. pc' = [pc EXCEPT ![c] = "rejected"] /\ got' = got
    BY <1>5 DEF OpenThrows
  <2>2. Asking' = Asking
    BY <1>1, <2>1, AskingStays DEF Asks, IInv, TypeOK
  <2>3. Refused' = Refused \cup {c}
    BY <1>1, <2>1 DEF Refused, IInv, TypeOK
  <2> QED BY <1>1, <1>2, <2>1, <2>2, <2>3 DEF Shared!Forbid, Asking, Refused
<1> QED BY <1>3, <1>4, <1>5 DEF GetOrOpen

LEMMA DeleteRefines ==
  ASSUME IInv, NEW c \in Call, NEW n \in Name, Delete(c, n)
  PROVE  Shared!Forbid(c) \/ Unseen
<1>1. /\ pc[c] = "idle" /\ got' = got /\ dictionary' = dictionary
      /\ at' = [at EXCEPT ![c] = n]
      /\ pc' = [pc EXCEPT ![c] = "deleting"] \/ pc' = [pc EXCEPT ![c] = "rejected"]
  BY DEF Delete
<1>2. Asking' = Asking
  BY <1>1, AskingStays DEF Asks, IInv, TypeOK
<1>3. Shared!Free(c)
  BY IdleIsFree DEF Delete
<1>4. CASE pc' = [pc EXCEPT ![c] = "deleting"]
  <2>1. Refused' = Refused
    BY <1>1, <1>4 DEF Refused, IInv, TypeOK
  <2> QED BY <1>1, <1>2, <2>1 DEF Unseen
<1>5. CASE pc' = [pc EXCEPT ![c] = "rejected"]
  <2>1. Refused' = Refused \cup {c}
    BY <1>1, <1>5 DEF Refused, IInv, TypeOK
  <2> QED BY <1>1, <1>2, <1>3, <2>1 DEF Shared!Forbid, Asking, Refused
<1> QED BY <1>1, <1>4, <1>5

LEMMA ContinueRefines ==
  ASSUME IInv, NEW c \in Call, Continue(c)
  PROVE  Shared!Take(c) \/ Unseen
<1>1. /\ pc[c] \in {"resolved", "rejected"} /\ pc' = [pc EXCEPT ![c] = "idle"]
      /\ got' = [got EXCEPT ![c] = NoCall]
      /\ UNCHANGED <<dictionary, at>>
  BY DEF Continue, Settled
<1>2. Asking' = Asking
  BY <1>1, AskingStays DEF Asks, IInv, TypeOK
<1>3. Refused' = Refused \ {c}
  BY <1>1 DEF Refused, IInv, TypeOK
<1>4. CASE got[c] # NoCall \/ c \in Refused
  BY <1>1, <1>2, <1>3, <1>4 DEF Shared!Take, Asking, Refused
<1>5. CASE got[c] = NoCall /\ c \notin Refused
  <2>1. got' = got
    BY <1>1, <1>5 DEF IInv, TypeOK
  <2> QED BY <1>1, <1>2, <1>3, <1>5, <2>1 DEF Unseen
<1> QED BY <1>4, <1>5

\* The call that opens and its listeners are all who ask for the name.
LEMMA WokenExact ==
  ASSUME IInv, NEW c \in Call, UnderWay(c)
  PROVE  Woken(c) = AskingAt(TabOf[c], at[c])
<1>1. TabOf[c] \in permitted /\ reserved[TabOf[c]][at[c]] = c
  BY DEF IInv, ReservedExact
<1>2. \A i \in 1 .. Len(listeners[c]) :
        /\ listeners[c][i] \in Call
        /\ pc[listeners[c][i]] = "waiting"
        /\ TabOf[listeners[c][i]] = TabOf[c]
        /\ at[listeners[c][i]] = at[c]
  BY <1>1, Elements DEF IInv, ListenersExact
<1>3. Woken(c) \subseteq AskingAt(TabOf[c], at[c])
  BY <1>2 DEF Woken, AskingAt, UnderWay
<1>4. ASSUME NEW x \in AskingAt(TabOf[c], at[c]) PROVE x \in Woken(c)
  <2>1. x \in Call /\ TabOf[x] = TabOf[c] /\ at[x] = at[c] /\ Asks(x)
    BY DEF AskingAt, Asks
  <2>2. CASE UnderWay(x)
    BY <1>1, <2>1, <2>2 DEF IInv, ReservedExact, Woken
  <2>3. CASE pc[x] = "waiting"
    <3>1. \E i \in 1 .. Len(listeners[c]) : listeners[c][i] = x
      BY <1>1, <2>1, <2>3 DEF IInv, ListenersExact
    <3> QED BY <3>1 DEF Woken
  <2> QED BY <2>1, <2>2, <2>3 DEF Asks, UnderWay
<1> QED BY <1>3, <1>4

LEMMA SuccessRefines ==
  ASSUME IInv, NEW c \in Call, OnSuccess(c)
  PROVE  \E t \in Tab, n \in Name : Shared!Connect(t, n, c)
<1> PICK t \in Tab, n \in Name : t = TabOf[c] /\ n = at[c]
  BY PoolAssumption DEF PoolAssumption, IInv, TypeOK
<1>1. t \in Tab /\ n \in Name
  OBVIOUS
<1>2. UnderWay(c) /\ dictionary[t][n] = NoCall
  BY DEF OnSuccess, IInv, ReservedExact, UnderWay
<1>3. Woken(c) = AskingAt(t, n)
  BY <1>2, WokenExact
<1>4. /\ pc' = [d \in Call |-> IF d \in AskingAt(t, n) THEN "resolved" ELSE pc[d]]
      /\ got' = [d \in Call |-> IF d \in AskingAt(t, n) THEN c ELSE got[d]]
      /\ dictionary' = [dictionary EXCEPT ![t][n] = c]
      /\ at' = at
  BY <1>3 DEF OnSuccess
<1>5. c \in AskingAt(t, n)
  BY <1>2 DEF AskingAt, UnderWay
<1>6. Shared!Resting(t)
  BY <1>1, QuietRests DEF OnSuccess
<1>7. \A x \in Call : /\ x \in AskingAt(t, n) => pc'[x] = "resolved"
                      /\ x \notin AskingAt(t, n) => pc'[x] = pc[x]
                      /\ at'[x] = at[x]
  BY <1>4
<1>8. AskingAt(t, n)' = {}
  BY <1>7 DEF AskingAt
<1>9. \A u \in Tab, m \in Name : u # t \/ m # n => AskingAt(u, m)' = AskingAt(u, m)
  BY <1>7 DEF AskingAt
<1>10. Refused' = Refused
  BY <1>7 DEF Refused, AskingAt
<1>11. Asking' = [Asking EXCEPT ![t][n] = {}]
  BY <1>1, <1>8, <1>9, AskingChanges
<1>12. Asking[t][n] = AskingAt(t, n)
  BY <1>1 DEF Asking
<1>13. Shared!Connect(t, n, c)
  BY <1>2, <1>4, <1>5, <1>6, <1>10, <1>11, <1>12 DEF Shared!Connect, Asking, Refused
<1> QED BY <1>13

LEMMA ErrorRefines ==
  ASSUME IInv, NEW c \in Call, OnError(c)
  PROVE  \E t \in Tab, n \in Name : Shared!Fail(t, n, c)
<1> PICK t \in Tab, n \in Name : t = TabOf[c] /\ n = at[c]
  BY PoolAssumption DEF PoolAssumption, IInv, TypeOK
<1>1. t \in Tab /\ n \in Name
  OBVIOUS
<1>2. UnderWay(c) /\ pc[c] = "failing" /\ dictionary[t][n] = NoCall /\ t \in permitted
  BY DEF OnError, IInv, ReservedExact, UnderWay
<1>3. UNCHANGED <<dictionary, at, got>>
  BY DEF OnError
<1>4. Shared!Resting(t)
  BY <1>1, QuietRests DEF OnError
<1>5. /\ pc'[c] = "rejected"
      /\ \A x \in Call \ {c} : \/ pc'[x] = pc[x]
                               \/ Asks(x) /\ Asks(x)' /\ pc[x] = "waiting"
  <2>1. CASE listeners[c] = <<>>
    BY <2>1 DEF OnError, IInv, TypeOK
  <2>2. CASE listeners[c] # <<>>
    <3>1. /\ listeners[c] \in Seq(Call) /\ Len(listeners[c]) \in Nat \ {0}
          /\ Head(listeners[c]) = listeners[c][1]
      BY <2>2, TailFacts DEF IInv, TypeOK
    <3>2. Head(listeners[c]) \in Call /\ pc[Head(listeners[c])] = "waiting"
      BY <1>2, <3>1, Elements DEF IInv, ListenersExact
    <3>3. pc' = [pc EXCEPT ![c] = "rejected", ![Head(listeners[c])] = "opening"]
      BY <2>2 DEF OnError
    <3> QED BY <1>2, <3>2, <3>3 DEF Asks, IInv, TypeOK
  <2> QED BY <2>1, <2>2
<1>6. AskingAt(t, n)' = AskingAt(t, n) \ {c}
  BY <1>3, <1>5 DEF AskingAt, Asks
<1>7. \A u \in Tab, m \in Name : u # t \/ m # n => AskingAt(u, m)' = AskingAt(u, m)
  BY <1>3, <1>5 DEF AskingAt, Asks
<1>8. Refused' = Refused \cup {c}
  BY <1>2, <1>5 DEF Refused, Asks
<1>9. c \in AskingAt(t, n)
  BY <1>2 DEF AskingAt
<1>10. Asking' = [Asking EXCEPT ![t][n] = AskingAt(t, n) \ {c}]
  BY <1>1, <1>6, <1>7, AskingChanges
<1>11. Asking' = [Asking EXCEPT ![t][n] = @ \ {c}] /\ Asking[t][n] = AskingAt(t, n)
  BY <1>1, <1>10 DEF Asking
<1>12. Shared!Fail(t, n, c)
  BY <1>2, <1>3, <1>4, <1>8, <1>9, <1>11 DEF Shared!Fail, Asking, Refused
<1> QED BY <1>12

LEMMA CloseRefines ==
  ASSUME IInv, NEW k \in Call, OnVersionChange(k) \/ OnClose(k)
  PROVE  \E t \in Tab, n \in Name : Shared!Close(t, n)
<1> PICK t \in Tab, n \in Name : t = TabOf[k] /\ n = at[k]
  BY PoolAssumption DEF PoolAssumption, IInv, TypeOK
<1>2. /\ dictionary' = [dictionary EXCEPT ![t][n] = NoCall]
      /\ UNCHANGED <<pc, at, got>>
      /\ link[k] \in {"open", "lost"} /\ Quiet(t)
  BY DEF OnVersionChange, OnClose
<1>3. dictionary[t][n] # NoCall
  BY <1>2, PoolAssumption DEF PoolAssumption, IInv, DictionaryExact
<1>4. Asking' = Asking /\ Refused' = Refused
  BY <1>2, AskingStays DEF Asks, Refused
<1>5. Shared!Close(t, n)
  BY <1>2, <1>3, <1>4, QuietRests DEF Shared!Close, Asking, Refused
<1> QED BY <1>5

\* IndexedDB's steps are out of the callers' sight.
LEMMA DatabaseRefines ==
  ASSUME IInv, DatabaseStep
  PROVE  Unseen
<1> USE DEF Unseen
<1>1. ASSUME UNCHANGED <<dictionary, pc, at, got>> PROVE Unseen
  BY <1>1, AskingStays DEF Asks, Refused
<1>2. ASSUME NEW n \in Name, requests[n] # <<>>
      PROVE  LET r == Head(requests[n])
             IN  /\ r.by \in Call
                 /\ r.kind = "open" => pc[r.by] = "opening"
                 /\ r.kind = "delete" => pc[r.by] = "deleting"
  <2>1. Len(requests[n]) \in Nat \ {0} /\ Head(requests[n]) = requests[n][1]
    BY <1>2, TailFacts DEF IInv, TypeOK
  <2> QED BY <2>1, Elements DEF IInv, QueueExact
<1>3. ASSUME NEW n \in Name, FailOpen(n) PROVE Unseen
  <2>1. /\ Head(requests[n]).by \in Call /\ pc[Head(requests[n]).by] = "opening"
        /\ pc' = [pc EXCEPT ![Head(requests[n]).by] = "failing"]
        /\ UNCHANGED <<dictionary, at, got>>
    BY <1>2, <1>3 DEF FailOpen, Serves
  <2>2. Asking' = Asking
    BY <2>1, AskingStays DEF Asks, IInv, TypeOK
  <2>3. Refused' = Refused
    BY <2>1 DEF Refused, IInv, TypeOK
  <2> QED BY <2>1, <2>2, <2>3
<1>4. ASSUME NEW n \in Name, EndDelete(n) PROVE Unseen
  <2>1. /\ Head(requests[n]).by \in Call /\ pc[Head(requests[n]).by] = "deleting"
        /\ pc' = [pc EXCEPT ![Head(requests[n]).by] = "resolved"]
        /\ UNCHANGED <<dictionary, at, got>>
    BY <1>2, <1>4 DEF EndDelete, Serves
  <2>2. Asking' = Asking
    BY <2>1, AskingStays DEF Asks, IInv, TypeOK
  <2>3. Refused' = Refused
    BY <2>1 DEF Refused, IInv, TypeOK
  <2> QED BY <2>1, <2>2, <2>3
<1> QED BY <1>1, <1>3, <1>4 DEF DatabaseStep, ServeOpen, LoseConnection

LEMMA StepIsShared ==
  ASSUME IInv, [Next]_poolVars
  PROVE  [Shared!Next]_(Shared!vars)
<1>1. ASSUME Unseen PROVE UNCHANGED Shared!vars
  BY <1>1 DEF Unseen, Shared!vars, Asking, Refused
<1>2. CASE UNCHANGED poolVars
  <2>1. UNCHANGED <<dictionary, pc, at, got>>
    BY <1>2 DEF poolVars
  <2>2. Unseen
    BY <2>1, AskingStays DEF Unseen, Asks, Refused
  <2> QED BY <1>1, <2>2
<1>3. ASSUME NEW c \in Call, NEW n \in Name, GetOrOpen(c, n) \/ Delete(c, n)
      PROVE  [Shared!Next]_(Shared!vars)
  BY <1>1, <1>3, CallRefines, DeleteRefines DEF Shared!Next
<1>4. ASSUME NEW c \in Call, Continue(c) PROVE [Shared!Next]_(Shared!vars)
  BY <1>1, <1>4, ContinueRefines DEF Shared!Next
<1>5. CASE PageStep
  <2> PICK c \in Call : \/ OnSuccess(c) \/ OnError(c) \/ OnVersionChange(c) \/ OnClose(c)
    BY <1>5 DEF PageStep
  <2>1. \E t \in Tab, n \in Name :
          Shared!Connect(t, n, c) \/ Shared!Fail(t, n, c) \/ Shared!Close(t, n)
    BY SuccessRefines, ErrorRefines, CloseRefines
  <2> QED BY <2>1 DEF Shared!Next
<1>6. CASE DatabaseStep
  BY <1>1, <1>6, DatabaseRefines
<1> QED BY <1>2, <1>3, <1>4, <1>5, <1>6 DEF Next

LEMMA InitIsShared == PoolInit => Shared!Init
<1> SUFFICES ASSUME PoolInit PROVE Shared!Init
  OBVIOUS
<1>1. \A t \in Tab, n \in Name : AskingAt(t, n) = {}
  BY DEF PoolInit, AskingAt
<1>2. Asking = [t \in Tab |-> [n \in Name |-> {}]]
  BY <1>1 DEF Asking
<1>3. Refused = {}
  BY DEF PoolInit, Refused
<1> QED BY <1>2, <1>3 DEF PoolInit, Shared!Init, Asking, Refused

\* All who ask for a name on a page share one connection: they are answered in
\* one step, a failure refuses one of them, and no connection that a caller has
\* been given is closed before the caller has taken it.
THEOREM PoolIsShared == Spec => SharedSpec
<1>1. PoolInit => Shared!Init
  BY InitIsShared
<1>2. IInv /\ [Next]_poolVars => [Shared!Next]_(Shared!vars)
  BY StepIsShared
<1> QED BY <1>1, <1>2, PoolInvariant, PTL DEF Spec, SharedSpec, Shared!Spec
-----------------------------------------------------------------------------
(***************************************************************************)
(* Proofs about ChatStore, for any pages, rooms, calls, accounts and       *)
(* messages.  Every step of the store is a step of the pool, so the pool's *)
(* invariant holds here too; on top of it, an open connection belongs to a *)
(* database that exists, and what is promised to be kept is in it.         *)
(***************************************************************************)

\* A connection is to a database that exists: a deletion waits for all of them.
Backed ==
  \A c \in Call : link[c] \in {"born", "open"} => stored[at[c]] # NoDatabase

\* What is kept is in the database of a room that has a row and is not about to
\* be deleted.
Kept ==
  \A n \in Name : kept[n] # {} => /\ rows[n] # NoRow
                                  /\ ~Deletion(n)
                                  /\ stored[n] # NoDatabase
                                  /\ kept[n] \subseteq stored[n]

Listing  == (SUBSET Account) \cup {NoRow}
Contents == (SUBSET Message) \cup {NoDatabase}
Saved    == SUBSET Message

StoreTypes ==
  /\ rows \in [Name -> Listing]
  /\ stored \in [Name -> Contents]
  /\ op \in [Call -> Op \cup {NoOp}]
  /\ kept \in [Name -> Saved]

StoreInv == IInv /\ StoreTypes /\ Backed /\ Kept

-----------------------------------------------------------------------------
(* The pool's invariant. *)
LEMMA StoreStepIsPoolStep == StoreNext => [Next]_poolVars
  BY DEF StoreNext, AddRoom, AddAccount, DeleteAccount, DeleteRoom, BeginAdd, EndAdd,
     EndCall, CreateDatabase, DeleteDatabase, OtherPoolStep, Next, DatabaseStep

LEMMA StoreNextIInv == IInv /\ [StoreNext]_vars => IInv'
  BY StoreStepIsPoolStep, NextIInv DEF vars

(* What a step of the pool may do to the connections and the deletions for *)
(* the store's invariant to stay.                                          *)
Harmless == /\ \A m \in Name : Deletion(m)' => Deletion(m)
            /\ \A x \in Call : link'[x] \in {"born", "open"} =>
                 link[x] \in {"born", "open"} /\ at'[x] = at[x]

LEMMA SameQueue ==
  ASSUME UNCHANGED requests
  PROVE  \A m \in Name : Deletion(m)' => Deletion(m)
BY DEF Deletion

LEMMA OpenQueued ==
  ASSUME TypeOK, NEW n \in Name, NEW d \in Call,
         requests' = [requests EXCEPT ![n] = Append(@, [kind |-> "open", by |-> d])]
  PROVE  \A m \in Name : Deletion(m)' => Deletion(m)
<1> DEFINE r == [kind |-> "open", by |-> d]
<1>1. requests \in [Name -> Seq(Request)] /\ r \in Request /\ r.kind = "open"
  BY DEF TypeOK, Request
<1>2. requests' = [requests EXCEPT ![n] = Append(@, r)]
  OBVIOUS
<1> HIDE DEF r
<1>3. /\ \A m \in Name \ {n} : requests'[m] = requests[m]
      /\ requests[n] \in Seq(Request)
      /\ requests'[n] = Append(requests[n], r)
  BY <1>1, <1>2
<1>4. /\ DOMAIN requests[n] = 1 .. Len(requests[n])
      /\ DOMAIN requests'[n] = 1 .. Len(requests[n]) + 1
      /\ requests'[n][Len(requests[n]) + 1] = r
      /\ \A i \in 1 .. Len(requests[n]) : requests'[n][i] = requests[n][i]
      /\ Len(requests[n]) \in Nat
  BY <1>1, <1>3
<1>5. Deletion(n)' => Deletion(n)
  <2> SUFFICES ASSUME NEW i \in DOMAIN requests'[n], requests'[n][i].kind = "delete"
               PROVE  \E j \in DOMAIN requests[n] : requests[n][j].kind = "delete"
    BY DEF Deletion
  <2>1. i # Len(requests[n]) + 1
    BY <1>1, <1>4
  <2>2. i \in 1 .. Len(requests[n])
    BY <1>4, <2>1
  <2> QED BY <1>4, <2>2
<1> QED BY <1>3, <1>5 DEF Deletion

LEMMA HeadServed ==
  ASSUME TypeOK, NEW n \in Name, requests[n] # <<>>,
         requests' = [requests EXCEPT ![n] = Tail(@)]
  PROVE  \A m \in Name : Deletion(m)' => Deletion(m)
<1>1. /\ \A m \in Name \ {n} : requests'[m] = requests[m]
      /\ requests[n] \in Seq(Request)
      /\ requests'[n] = Tail(requests[n])
  BY DEF TypeOK
<1>2. /\ Len(requests[n]) \in Nat \ {0}
      /\ Tail(requests[n]) \in Seq(Request)
      /\ Len(Tail(requests[n])) = Len(requests[n]) - 1
      /\ \A i \in 1 .. Len(Tail(requests[n])) : Tail(requests[n])[i] = requests[n][i + 1]
  BY <1>1, TailFacts
<1>3. Deletion(n)' => Deletion(n)
  <2> SUFFICES ASSUME NEW i \in DOMAIN requests'[n], requests'[n][i].kind = "delete"
               PROVE  \E j \in DOMAIN requests[n] : requests[n][j].kind = "delete"
    BY DEF Deletion
  <2>0. DOMAIN Tail(requests[n]) = 1 .. Len(Tail(requests[n]))
    BY <1>2
  <2>1. i \in 1 .. Len(Tail(requests[n]))
    BY <1>1, <2>0
  <2>2. requests[n][i + 1].kind = "delete"
    BY <1>1, <1>2, <2>1
  <2>3. i + 1 \in DOMAIN requests[n]
    BY <1>1, <1>2, <2>1
  <2> QED BY <2>2, <2>3
<1> QED BY <1>1, <1>3 DEF Deletion

LEMMA GetOrOpenHarmless ==
  ASSUME TypeOK, NEW c \in Call, NEW n \in Name, GetOrOpen(c, n)
  PROVE  Harmless
<1>1. \A m \in Name : Deletion(m)' => Deletion(m)
  BY SameQueue, OpenQueued DEF GetOrOpen, Hit, Listen, Reserve, OpenThrows
<1>2. \A x \in Call : link'[x] \in {"born", "open"} =>
        link[x] \in {"born", "open"} /\ at'[x] = at[x]
  BY DEF GetOrOpen, Calls, TypeOK
<1> QED BY <1>1, <1>2 DEF Harmless

LEMMA OtherPoolStepHarmless ==
  ASSUME TypeOK, OtherPoolStep
  PROVE  Harmless
<1>1. ASSUME NEW c \in Call, OnSuccess(c) PROVE Harmless
  BY <1>1, SameQueue DEF OnSuccess, Harmless, TypeOK
<1>2. ASSUME NEW c \in Call, OnError(c) PROVE Harmless
  <2>1. CASE listeners[c] = <<>>
    BY <1>2, <2>1, SameQueue DEF OnError, Harmless
  <2>2. CASE listeners[c] # <<>>
    <3>1. listeners[c] \in Seq(Call) /\ at[c] \in Name
      BY DEF TypeOK
    <3>2. Head(listeners[c]) \in Call
      BY <2>2, <3>1, TailFacts
    <3>3. \A m \in Name : Deletion(m)' => Deletion(m)
      BY <1>2, <2>2, <3>1, <3>2, OpenQueued DEF OnError
    <3> QED BY <1>2, <3>3 DEF OnError, Harmless
  <2> QED BY <2>1, <2>2
<1>3. ASSUME NEW c \in Call, OnVersionChange(c) \/ OnClose(c) PROVE Harmless
  BY <1>3, SameQueue DEF OnVersionChange, OnClose, Harmless, TypeOK
<1>4. ASSUME NEW n \in Name, FailOpen(n) PROVE Harmless
  BY <1>4, HeadServed DEF FailOpen, Serves, Harmless
<1>5. ASSUME NEW c \in Call, LoseConnection(c) PROVE Harmless
  BY <1>5, SameQueue DEF LoseConnection, Harmless, TypeOK
<1> QED BY <1>1, <1>2, <1>3, <1>4, <1>5 DEF OtherPoolStep, PageStep

LEMMA ContinueHarmless ==
  ASSUME TypeOK, NEW c \in Call, Continue(c)
  PROVE  Harmless
BY SameQueue DEF Continue, Harmless

-----------------------------------------------------------------------------
LEMMA Values ==
  /\ \A x : x \in Listing <=> x = NoRow \/ x \subseteq Account
  /\ \A x : x \in Contents <=> x = NoDatabase \/ x \subseteq Message
  /\ \A x : x \in Saved <=> x \subseteq Message
  /\ NoRow \in Listing /\ NoDatabase \in Contents /\ {} \in Contents /\ {} \in Saved
  /\ \A x : x \subseteq Account => x # NoRow
  /\ \A x : x \subseteq Message => x # NoDatabase
<1>1. /\ \A x : x \in Listing <=> x = NoRow \/ x \subseteq Account
      /\ NoRow \in Listing
  <2>1. \A x : x \in Listing <=> x \in SUBSET Account \/ x \in {NoRow}
    BY Zenon DEF Listing
  <2>2. \A x : /\ x \in SUBSET Account <=> x \subseteq Account
               /\ x \in {NoRow} <=> x = NoRow
    OBVIOUS
  <2> QED BY <2>1, <2>2, Zenon
<1>2. /\ \A x : x \in Contents <=> x = NoDatabase \/ x \subseteq Message
      /\ NoDatabase \in Contents /\ {} \in Contents
  <2>1. \A x : x \in Contents <=> x \in SUBSET Message \/ x \in {NoDatabase}
    BY Zenon DEF Contents
  <2>2. \A x : /\ x \in SUBSET Message <=> x \subseteq Message
               /\ x \in {NoDatabase} <=> x = NoDatabase
    OBVIOUS
  <2>3. {} \in SUBSET Message
    OBVIOUS
  <2> QED BY <2>1, <2>2, <2>3, Zenon
<1>3. (\A x : x \in Saved <=> x \subseteq Message) /\ {} \in Saved
  BY DEF Saved
<1>4. \A x : x \subseteq Account => x # NoRow
  BY StoreAssumption DEF StoreAssumption
<1>5. \A x : x \subseteq Message => x # NoDatabase
  BY StoreAssumption DEF StoreAssumption
<1> QED BY <1>1, <1>2, <1>3, <1>4, <1>5

LEMMA InitStoreInv == Init => StoreInv
<1> SUFFICES ASSUME Init PROVE StoreInv
  OBVIOUS
<1>1. IInv
  BY InitIInv DEF Init
<1>2. StoreTypes
  BY Values DEF Init, StoreTypes
<1>3. Backed /\ Kept
  BY DEF Init, PoolInit, Backed, Kept
<1> QED BY <1>1, <1>2, <1>3 DEF StoreInv

\* A step that leaves the databases alone, and the rows of rooms with kept messages.
LEMMA HarmlessKeeps ==
  ASSUME StoreInv, Harmless, UNCHANGED <<stored, kept>>,
         \A n \in Name : kept[n] # {} => rows'[n] # NoRow
  PROVE  Backed' /\ Kept'
<1>1. Backed'
  BY DEF StoreInv, Harmless, Backed
<1>2. Kept'
  <2> SUFFICES ASSUME NEW n \in Name, kept'[n] # {}
               PROVE  /\ rows'[n] # NoRow
                      /\ ~Deletion(n)'
                      /\ stored'[n] # NoDatabase
                      /\ kept'[n] \subseteq stored'[n]
    BY DEF Kept
  <2> QED BY DEF StoreInv, Harmless, Kept
<1> QED BY <1>1, <1>2

\* An accepted transaction is of a database that is there.
LEMMA AcceptedBacked ==
  ASSUME StoreInv, NEW c \in Call, Accepted(c)
  PROVE  stored[at[c]] # NoDatabase
<1>1. /\ got[c] \in Call /\ link[got[c]] = "open" /\ at[c] \in Name
      /\ dictionary[TabOf[c]][at[c]] = got[c] /\ TabOf[c] \in Tab
  BY PoolAssumption DEF PoolAssumption, Accepted, TypeOK, StoreInv, IInv, GivenExact
<1>2. at[got[c]] = at[c]
  BY <1>1, PoolAssumption DEF PoolAssumption, StoreInv, IInv, DictionaryExact
<1> QED BY <1>1, <1>2 DEF StoreInv, Backed

LEMMA NextStoreInv == StoreInv /\ [StoreNext]_vars => StoreInv'
<1> SUFFICES ASSUME StoreInv, [StoreNext]_vars
             PROVE  StoreTypes' /\ Backed' /\ Kept'
  BY StoreNextIInv DEF StoreInv
<1>t. TypeOK /\ StoreTypes
  BY DEF StoreInv, IInv
<1>u. /\ \A n \in Name : rows[n] = NoRow \/ rows[n] \subseteq Account
      /\ \A n \in Name : stored[n] = NoDatabase \/ stored[n] \subseteq Message
      /\ \A n \in Name : kept[n] \subseteq Message
  <2>1. \A n \in Name : rows[n] \in Listing /\ stored[n] \in Contents /\ kept[n] \in Saved
    BY <1>t DEF StoreTypes
  <2> QED BY <2>1, Values
<1>1. CASE UNCHANGED vars
  <2>1. Harmless /\ UNCHANGED <<rows, stored, op, kept>>
    BY <1>1, SameQueue DEF vars, storeVars, poolVars, Harmless
  <2>2. StoreTypes'
    BY <1>t, <2>1 DEF StoreTypes
  <2>3. \A n \in Name : kept[n] # {} => rows'[n] # NoRow
    BY <2>1 DEF StoreInv, Kept
  <2> QED BY <2>1, <2>2, <2>3, HarmlessKeeps
<1>2. ASSUME NEW c \in Call, NEW a \in Account, NEW n \in Name, AddRoom(c, a, n)
      PROVE  StoreTypes' /\ Backed' /\ Kept'
  <2>1. StoreTypes'
    <3>1. {a} \in Listing /\ [kind |-> "addRoom"] \in Op
      BY Values DEF Op
    <3> QED BY <1>2, <1>t, <3>1 DEF AddRoom, StoreTypes
  <2>2. \A m \in Name : kept[m] # {} => rows'[m] # NoRow
    BY <1>2, <1>t DEF AddRoom, StoreTypes, StoreInv, Kept
  <2>3. Harmless
    BY <1>2, <1>t, GetOrOpenHarmless DEF AddRoom
  <2> QED BY <1>2, <2>1, <2>2, <2>3, HarmlessKeeps DEF AddRoom
<1>3. ASSUME NEW c \in Call, NEW a \in Account, NEW n \in Name, DeleteRoom(c, a, n)
      PROVE  StoreTypes' /\ Backed' /\ Kept'
  <2>0. /\ rows' = rows \/ rows' = [rows EXCEPT ![n] = NoRow]
        /\ kept' = [kept EXCEPT ![n] = {}]
        /\ op' = [op EXCEPT ![c] = [kind |-> "deleteRoom"]]
        /\ stored' = stored /\ link' = link
        /\ link[c] = "none" /\ at' = [at EXCEPT ![c] = n]
        /\ \A m \in Name \ {n} : requests'[m] = requests[m]
    BY <1>3, <1>t DEF DeleteRoom, Delete, TypeOK
  <2>1. StoreTypes'
    <3>1. [kind |-> "deleteRoom"] \in Op
      BY DEF Op
    <3>2. op' \in [Call -> Op \cup {NoOp}]
      BY <1>t, <2>0, <3>1 DEF StoreTypes
    <3>3. rows' \in [Name -> Listing] /\ kept' \in [Name -> Saved]
      BY <1>t, <2>0, Values DEF StoreTypes
    <3> QED BY <1>t, <2>0, <3>2, <3>3 DEF StoreTypes
  <2>2. Backed'
    BY <1>t, <2>0 DEF StoreInv, Backed, TypeOK
  <2>3. \A m \in Name : kept'[m] # {} => m # n /\ kept'[m] = kept[m] /\ rows'[m] = rows[m]
    BY <1>t, <2>0 DEF StoreTypes
  <2>4. \A m \in Name \ {n} : Deletion(m)' => Deletion(m)
    BY <2>0 DEF Deletion
  <2> QED BY <2>0, <2>1, <2>2, <2>3, <2>4 DEF StoreInv, Kept
<1>4. ASSUME NEW a \in Account, NEW n \in Name, AddAccount(a, n) \/ DeleteAccount(a, n)
      PROVE  StoreTypes' /\ Backed' /\ Kept'
  <2>0. /\ rows[n] # NoRow
        /\ \/ rows' = [rows EXCEPT ![n] = @ \cup {a}]
           \/ rows' = [rows EXCEPT ![n] = @ \ {a}]
        /\ UNCHANGED <<poolVars, stored, op, kept>>
    BY <1>4 DEF AddAccount, DeleteAccount
  <2>1. \A accounts \in SUBSET Account : accounts # NoRow
    BY Values
  <2>2. rows'[n] \in SUBSET Account /\ \A m \in Name \ {n} : rows'[m] = rows[m]
    <3>1. rows[n] \in SUBSET Account
      BY <1>u, <2>0
    <3>2. \/ rows'[n] = rows[n] \cup {a}
          \/ rows'[n] = rows[n] \ {a}
      BY <1>t, <2>0 DEF StoreTypes
    <3>3. \A m \in Name \ {n} : rows'[m] = rows[m]
      BY <1>t, <2>0 DEF StoreTypes
    <3> QED BY <3>1, <3>2, <3>3
  <2>3. StoreTypes'
    <3>1. rows[n] \cup {a} \in Listing /\ rows[n] \ {a} \in Listing
      BY <1>u, <2>0, Values
    <3>2. rows' \in [Name -> Listing]
      BY <1>t, <2>0, <3>1 DEF StoreTypes
    <3> QED BY <1>t, <2>0, <3>2 DEF StoreTypes
  <2>4. Harmless
    BY <2>0, SameQueue DEF poolVars, Harmless
  <2>5. \A m \in Name : kept[m] # {} => rows'[m] # NoRow
    BY <2>1, <2>2 DEF StoreInv, Kept
  <2> QED BY <2>0, <2>3, <2>4, <2>5, HarmlessKeeps
<1>5. ASSUME NEW c \in Call, NEW n \in Name, NEW batch \in Batch, BeginAdd(c, n, batch)
      PROVE  StoreTypes' /\ Backed' /\ Kept'
  <2>1. Add(batch) \in Op
    BY DEF Op
  <2>2. StoreTypes'
    BY <1>5, <1>t, <2>1 DEF BeginAdd, StoreTypes
  <2>3. \A m \in Name : kept[m] # {} => rows'[m] # NoRow
    BY <1>5 DEF BeginAdd, StoreInv, Kept
  <2>4. Harmless
    BY <1>5, <1>t, GetOrOpenHarmless DEF BeginAdd
  <2> QED BY <1>5, <2>2, <2>3, <2>4, HarmlessKeeps DEF BeginAdd
<1>6. ASSUME NEW c \in Call, EndAdd(c)
      PROVE  StoreTypes' /\ Backed' /\ Kept'
  <2>0. Harmless /\ UNCHANGED <<rows, link, at, requests>> /\ op' = [op EXCEPT ![c] = NoOp]
    BY <1>6, <1>t, ContinueHarmless DEF EndAdd, Continue
  <2>1. CASE UNCHANGED <<stored, kept>>
    <3>1. StoreTypes'
      BY <1>t, <2>0, <2>1 DEF StoreTypes
    <3>2. \A m \in Name : kept[m] # {} => rows'[m] # NoRow
      BY <2>0 DEF StoreInv, Kept
    <3> QED BY <2>0, <2>1, <3>1, <3>2, HarmlessKeeps
  <2>2. CASE Accepted(c) /\ Stores(c)
    <3> DEFINE n == at[c]
               batch == op[c].batch
    <3>1. n \in Name /\ batch \subseteq Message
      <4>1. op[c] \in Op /\ op[c].kind = "addMessageBulk"
        BY <1>6, <1>t DEF EndAdd, StoreTypes
      <4>2. \E b \in Batch : op[c] = Add(b)
        BY <4>1 DEF Op
      <4>3. op[c].batch \in SUBSET Message
        BY <4>2, StoreAssumption DEF StoreAssumption, Add
      <4> QED BY <1>t, <4>3 DEF TypeOK
    <3>2. stored[n] # NoDatabase
      BY <2>2, AcceptedBacked
    <3>3. stored[n] \in SUBSET Message /\ stored[n] \cup batch # NoDatabase
      <4>1. stored[n] \in SUBSET Message
        BY <1>u, <3>1, <3>2
      <4> QED BY <3>1, <4>1, Values
    <3>4. /\ stored' = [stored EXCEPT ![n] = stored[n] \cup batch]
          /\ \/ kept' = [kept EXCEPT ![n] = kept[n] \cup batch] /\ rows[n] # NoRow /\ ~Deletion(n)
             \/ kept' = kept
      <4>1. CASE rows[n] # NoRow /\ ~Deletion(n)
        BY <2>2, <4>1 DEF Stores
      <4>2. CASE ~(rows[n] # NoRow /\ ~Deletion(n))
        BY <1>t, <2>2, <4>2 DEF Stores, StoreTypes
      <4> QED BY <4>1, <4>2
    <3> HIDE DEF n, batch
    <3>5. /\ stored'[n] = stored[n] \cup batch
          /\ \A m \in Name \ {n} : stored'[m] = stored[m]
          /\ \A m \in Name \ {n} : kept'[m] = kept[m]
          /\ kept[n] \subseteq Message
          /\ kept'[n] = kept[n] \/ (kept'[n] = kept[n] \cup batch /\ rows[n] # NoRow /\ ~Deletion(n))
      BY <1>t, <1>u, <3>1, <3>4 DEF StoreTypes
    <3>6. StoreTypes'
      <4>1. stored[n] \cup batch \in Contents /\ kept[n] \cup batch \in Saved
        BY <3>1, <3>3, <3>5, Values
      <4>2. stored' \in [Name -> Contents] /\ kept' \in [Name -> Saved]
        BY <1>t, <3>4, <4>1 DEF StoreTypes
      <4> QED BY <1>t, <2>0, <4>2 DEF StoreTypes
    <3>7. Backed'
      BY <1>t, <2>0, <3>3, <3>5 DEF StoreInv, Backed, TypeOK
    <3>8. \A m \in Name : Deletion(m)' => Deletion(m)
      BY <2>0 DEF Harmless
    <3>9. ASSUME NEW m \in Name, kept'[m] # {}
          PROVE  /\ rows'[m] # NoRow
                 /\ ~Deletion(m)'
                 /\ stored'[m] # NoDatabase
                 /\ kept'[m] \subseteq stored'[m]
      <4>1. CASE m # n
        BY <2>0, <3>5, <3>8, <3>9, <4>1 DEF StoreInv, Kept
      <4>2. CASE m = n /\ kept'[n] = kept[n]
        BY <2>0, <3>3, <3>5, <3>8, <3>9, <4>2 DEF StoreInv, Kept
      <4>3. CASE m = n /\ kept'[n] = kept[n] \cup batch /\ rows[n] # NoRow /\ ~Deletion(n)
        <5>1. kept[n] \subseteq stored[n]
          BY <3>1 DEF StoreInv, Kept
        <5> QED BY <2>0, <3>1, <3>3, <3>5, <3>8, <4>3, <5>1
      <4> QED BY <3>5, <4>1, <4>2, <4>3
    <3> QED BY <3>6, <3>7, <3>9 DEF Kept
  <2> QED BY <1>6, <2>1, <2>2 DEF EndAdd
<1>7. ASSUME NEW c \in Call, EndCall(c)
      PROVE  StoreTypes' /\ Backed' /\ Kept'
  <2>1. StoreTypes'
    BY <1>7, <1>t DEF EndCall, StoreTypes
  <2>2. \A m \in Name : kept[m] # {} => rows'[m] # NoRow
    BY <1>7 DEF EndCall, StoreInv, Kept
  <2>3. Harmless
    BY <1>7, <1>t, ContinueHarmless DEF EndCall
  <2> QED BY <1>7, <2>1, <2>2, <2>3, HarmlessKeeps DEF EndCall
<1>8. ASSUME NEW n \in Name, CreateDatabase(n)
      PROVE  StoreTypes' /\ Backed' /\ Kept'
  <2> DEFINE d == Head(requests[n]).by
             made == IF stored[n] = NoDatabase THEN {} ELSE stored[n]
  <2>0. /\ requests[n] # <<>> /\ UNCHANGED <<at, rows, op, kept>>
        /\ link' = [link EXCEPT ![d] = "born"]
        /\ requests' = [requests EXCEPT ![n] = Tail(@)]
        /\ stored' = [stored EXCEPT ![n] = made]
    BY <1>8 DEF CreateDatabase, ServeOpen, Serves
  <2>1. d \in Call /\ at[d] = n
    BY <2>0, HeadFacts DEF StoreInv
  <2>2. \A m \in Name : Deletion(m)' => Deletion(m)
    BY <1>t, <2>0, HeadServed
  <2>3. made \in SUBSET Message /\ made # NoDatabase /\ (stored[n] # NoDatabase => made = stored[n])
    BY <1>u, <1>8, Values
  <2> HIDE DEF d, made
  <2>4. /\ stored'[n] = made /\ \A m \in Name \ {n} : stored'[m] = stored[m]
        /\ \A x \in Call \ {d} : link'[x] = link[x]
    BY <1>t, <2>0 DEF StoreTypes, TypeOK
  <2>5. StoreTypes'
    <3>1. made \in Contents
      BY <2>3, Values
    <3> QED BY <1>t, <2>0, <3>1 DEF StoreTypes
  <2>6. Backed'
    <3> SUFFICES ASSUME NEW x \in Call, link'[x] \in {"born", "open"}
                 PROVE  stored'[at[x]] # NoDatabase
      BY <2>0 DEF Backed
    <3>1. at[x] \in Name
      BY <1>t DEF TypeOK
    <3>2. CASE at[x] = n
      BY <2>3, <2>4, <3>2
    <3>3. CASE at[x] # n
      BY <2>1, <2>4, <3>1, <3>3 DEF StoreInv, Backed
    <3> QED BY <3>2, <3>3
  <2>7. Kept'
    <3> SUFFICES ASSUME NEW m \in Name, kept[m] # {}
                 PROVE  /\ rows[m] # NoRow
                        /\ ~Deletion(m)'
                        /\ stored'[m] # NoDatabase
                        /\ kept[m] \subseteq stored'[m]
      BY <2>0 DEF Kept
    <3>1. stored'[m] = stored[m]
      BY <2>3, <2>4 DEF StoreInv, Kept
    <3> QED BY <2>2, <3>1 DEF StoreInv, Kept
  <2> QED BY <2>5, <2>6, <2>7
<1>9. ASSUME NEW n \in Name, DeleteDatabase(n)
      PROVE  StoreTypes' /\ Backed' /\ Kept'
  <2>0. /\ requests[n] # <<>> /\ Head(requests[n]).kind = "delete"
        /\ UNCHANGED <<at, link, rows, op, kept>>
        /\ \A k \in Call : at[k] = n => link[k] \notin {"born", "open"}
        /\ requests' = [requests EXCEPT ![n] = Tail(@)]
        /\ stored' = [stored EXCEPT ![n] = NoDatabase] \/ stored' = stored
    BY <1>9 DEF DeleteDatabase, EndDelete, Serves
  <2>1. Deletion(n)
    <3>1. requests[n] \in Seq(Request)
      BY <1>t DEF TypeOK
    <3>2. 1 \in DOMAIN requests[n] /\ requests[n][1].kind = "delete"
      BY <2>0, <3>1
    <3> QED BY <3>2 DEF Deletion
  <2>2. \A m \in Name : Deletion(m)' => Deletion(m)
    BY <1>t, <2>0, HeadServed
  <2>3. \A m \in Name \ {n} : stored'[m] = stored[m]
    BY <1>t, <2>0 DEF StoreTypes
  <2>4. StoreTypes'
    <3>1. stored' \in [Name -> Contents]
      BY <1>t, <2>0, Values DEF StoreTypes
    <3> QED BY <1>t, <2>0, <3>1 DEF StoreTypes
  <2>5. Backed'
    BY <1>t, <2>0, <2>3 DEF StoreInv, Backed, TypeOK
  <2>6. Kept'
    <3> SUFFICES ASSUME NEW m \in Name, kept[m] # {}
                 PROVE  /\ rows[m] # NoRow
                        /\ ~Deletion(m)'
                        /\ stored'[m] # NoDatabase
                        /\ kept[m] \subseteq stored'[m]
      BY <2>0 DEF Kept
    <3>1. m # n
      BY <2>1 DEF StoreInv, Kept
    <3> QED BY <2>2, <2>3, <3>1 DEF StoreInv, Kept
  <2> QED BY <2>4, <2>5, <2>6
<1>10. CASE OtherPoolStep
  <2>1. StoreTypes' /\ UNCHANGED <<rows, stored, kept>>
    BY <1>10, <1>t DEF OtherPoolStep, storeVars, StoreTypes
  <2>2. \A m \in Name : kept[m] # {} => rows'[m] # NoRow
    BY <2>1 DEF StoreInv, Kept
  <2> QED BY <1>10, <1>t, <2>1, <2>2, OtherPoolStepHarmless, HarmlessKeeps
<1> QED BY <1>1, <1>2, <1>3, <1>4, <1>5, <1>6, <1>7, <1>8, <1>9, <1>10 DEF StoreNext

\* The pool's tables stay exact under everything the store does, connections
\* belong to databases that exist, and what is kept is in them.
THEOREM StoreInvariant == StoreSpec => []StoreInv
<1>1. Init => StoreInv
  BY InitStoreInv
<1>2. StoreInv /\ [StoreNext]_vars => StoreInv'
  BY NextStoreInv
<1> QED BY <1>1, <1>2, PTL DEF StoreSpec

\* Under the store, too, the pool's callers share one connection: the store's
\* steps are steps of the pool, or none the pool sees.
THEOREM StoreSharesConnections == StoreSpec => SharedSpec
<1>1. Init => Shared!Init
  BY InitIsShared DEF Init
<1>2. StoreInv /\ [StoreNext]_vars => [Shared!Next]_(Shared!vars)
  BY StoreStepIsPoolStep, StepIsShared DEF StoreInv, vars
<1> QED BY <1>1, <1>2, StoreInvariant, PTL DEF StoreSpec, SharedSpec, Shared!Spec

\* Type correctness of the rows, the databases and the calls of ChatStore.
THEOREM StoreTypeCorrect == StoreSpec => []StoreTypeOK
<1>1. StoreInv => StoreTypeOK
  BY DEF StoreInv, IInv, StoreTypes, StoreTypeOK, Listing, Contents, Saved
<1> QED BY <1>1, StoreInvariant, PTL

\* A saved message stays for as long as an account of the browser lists the room,
\* whichever page saved it and whichever account leaves (addMessageBulk,
\* deleteRoom and the pool's versionchange handler).
THEOREM MessagesKept == StoreSpec => []KeptWhileListed
<1>1. StoreInv => KeptWhileListed
  BY DEF StoreInv, Kept, KeptWhileListed
<1> QED BY <1>1, StoreInvariant, PTL

-----------------------------------------------------------------------------
(***************************************************************************)
(* Proofs about MessagePages.  A list of messages in the order of the      *)
(* index, forward or backward, is the only one over its set; a page and    *)
(* the list of all of them are compared as such lists.                     *)
(***************************************************************************)

\* s goes over all of T, in order.
Enumerates(s, T, reverse) ==
  /\ s \in Seq(T)
  /\ \A i, j \in 1 .. Len(s) : i < j => Follows(reverse, s[i], s[j])
  /\ \A m \in T : \E i \in 1 .. Len(s) : s[i] = m

LEMMA StrictOrder ==
  ASSUME NEW a \in Message, NEW reverse \in BOOLEAN
  PROVE  /\ ~Follows(reverse, a, a)
         /\ \A b \in Message : Follows(reverse, a, b) => ~Follows(reverse, b, a) /\ a # b
         /\ \A b \in Message : a = b \/ Follows(reverse, a, b) \/ Follows(reverse, b, a)
         /\ \A b, c \in Message :
              Follows(reverse, a, b) /\ Follows(reverse, b, c) => Follows(reverse, a, c)
         /\ \A b \in Message : Follows(~reverse, a, b) <=> Follows(reverse, b, a)
  <1>1. \A m \in Message : m \in Nat /\ Stamp[m] \in Nat
    BY PagesAssumption
  <1> QED BY <1>1 DEF Follows, Precedes

LEMMA EnumerationCounts ==
  ASSUME NEW T \in SUBSET Message, NEW reverse \in BOOLEAN, NEW s, Enumerates(s, T, reverse)
  PROVE  IsFiniteSet(T) /\ Cardinality(T) = Len(s) /\ s \in [1 .. Len(s) -> T]
  <1>1. s \in Seq(T) /\ Len(s) \in Nat /\ s \in [1 .. Len(s) -> T]
    BY DEF Enumerates
  <1>2. \A i, j \in 1 .. Len(s) : s[i] = s[j] => i = j
    <2> SUFFICES ASSUME NEW i \in 1 .. Len(s), NEW j \in 1 .. Len(s), i < j PROVE s[i] # s[j]
      BY <1>1
    <2> QED BY <1>1, StrictOrder DEF Enumerates
  <1>3. s \in Bijection(1 .. Len(s), T)
    BY <1>1, <1>2 DEF Bijection, Injection, Surjection, IsInjective, Enumerates
  <1>4. ExistsBijection(1 .. Len(s), T)
    BY <1>3 DEF ExistsBijection
  <1>5. IsFiniteSet(1 .. Len(s)) /\ Cardinality(1 .. Len(s)) = Len(s)
    BY <1>1, FS_Interval
  <1> QED BY <1>1, <1>4, <1>5, FS_Bijection

\* There is one way to go over a set in order.
LEMMA EnumerationUnique ==
  ASSUME NEW T \in SUBSET Message, NEW reverse \in BOOLEAN, NEW s, NEW t,
         Enumerates(s, T, reverse), Enumerates(t, T, reverse)
  PROVE  s = t
  <1> DEFINE n == Len(s)
             D == {i \in Nat : i \in 1 .. n /\ s[i] # t[i]}
  <1>1. /\ Len(t) = n /\ n \in Nat /\ s \in [1 .. n -> T] /\ t \in [1 .. n -> T]
    <2>0. Len(s) \in Nat
      BY DEF Enumerates
    <2>1. Cardinality(T) = Len(s) /\ s \in [1 .. Len(s) -> T]
      BY EnumerationCounts
    <2>2. Cardinality(T) = Len(t) /\ t \in [1 .. Len(t) -> T]
      BY EnumerationCounts
    <2> QED BY <2>0, <2>1, <2>2
  <1>2. ASSUME D # {} PROVE FALSE
    <2>1. D \subseteq Nat
      OBVIOUS
    <2>2. PICK i \in D : \A j \in D : ~(j < i)
      <3> HIDE DEF D
      <3> QED BY <1>2, <2>1, LeastOfNat
    <2>3. i \in 1 .. n /\ s[i] # t[i] /\ \A j \in 1 .. i - 1 : s[j] = t[j]
      BY <1>1, <2>2
    <2>4. PICK j \in 1 .. n : t[j] = s[i]
      BY <1>1, <2>3 DEF Enumerates
    <2>5. PICK k \in 1 .. n : s[k] = t[i]
      BY <1>1, <2>3 DEF Enumerates
    <2>6. s[i] \in Message /\ t[i] \in Message
      BY <1>1, <2>3
    <2>7. Follows(reverse, t[i], s[i])
      <3>1. CASE j < i
        <4>1. s[j] = s[i] /\ Follows(reverse, s[j], s[i])
          BY <1>1, <2>3, <2>4, <3>1 DEF Enumerates
        <4> QED BY <2>6, <4>1, StrictOrder
      <3>2. CASE i < j
        BY <1>1, <2>3, <2>4, <3>2 DEF Enumerates
      <3>3. CASE i = j
        BY <2>3, <2>4, <3>3
      <3> QED BY <1>1, <2>3, <2>4, <3>1, <3>2, <3>3
    <2>8. Follows(reverse, s[i], t[i])
      <3>1. CASE k < i
        <4>1. t[k] = t[i] /\ Follows(reverse, t[k], t[i])
          BY <1>1, <2>3, <2>5, <3>1 DEF Enumerates
        <4> QED BY <2>6, <4>1, StrictOrder
      <3>2. CASE i < k
        BY <1>1, <2>3, <2>5, <3>2 DEF Enumerates
      <3>3. CASE i = k
        BY <2>3, <2>5, <3>3
      <3> QED BY <1>1, <2>3, <2>5, <3>1, <3>2, <3>3
    <2> QED BY <2>6, <2>7, <2>8, StrictOrder
  <1>3. \A i \in 1 .. n : s[i] = t[i]
    BY <1>1, <1>2
  <1> HIDE DEF n
  <1> QED BY <1>1, <1>3

LEMMA FirstOfMessages ==
  ASSUME NEW T \in SUBSET Message, T # {}
  PROVE  \E m \in T : \A x \in T \ {m} : Precedes(m, x)
  <1>0. \A m \in Message : m \in Nat /\ Stamp[m] \in Nat
    BY PagesAssumption
  <1>1. PICK least \in {Stamp[m] : m \in T} : \A y \in {Stamp[m] : m \in T} : ~(y < least)
    <2> DEFINE S == {Stamp[m] : m \in T}
    <2>1. S \subseteq Nat /\ S # {}
      BY <1>0
    <2> HIDE DEF S
    <2>2. \E least \in S : \A y \in S : ~(y < least)
      BY <2>1, LeastOfNat
    <2> QED BY <2>2 DEF S
  <1> DEFINE early == {m \in T : Stamp[m] = least}
  <1>2. PICK m \in early : \A y \in early : ~(y < m)
    <2>1. early \subseteq Nat /\ early # {}
      BY <1>0, <1>1
    <2> HIDE DEF early
    <2> QED BY <2>1, LeastOfNat
  <1>3. ASSUME NEW x \in T \ {m} PROVE Precedes(m, x)
    <2>1. ~(Stamp[x] < least) /\ Stamp[m] = least /\ m \in T
      BY <1>1, <1>2
    <2>2. Stamp[x] = least => ~(x < m)
      BY <1>2
    <2> QED BY <1>0, <2>1, <2>2 DEF Precedes
  <1> QED BY <1>2, <1>3

LEMMA Prepended ==
  ASSUME NEW U \in SUBSET Message, NEW m \in U, NEW s, Enumerates(s, U \ {m}, FALSE),
         \A x \in U \ {m} : Precedes(m, x)
  PROVE  Enumerates(<<m>> \o s, U, FALSE)
  <1> DEFINE t == <<m>> \o s
  <1>1. /\ s \in Seq(U \ {m}) /\ s \in Seq(U) /\ Len(s) \in Nat
        /\ \A i \in 1 .. Len(s) : s[i] \in U \ {m}
    BY DEF Enumerates
  <1>2. /\ t \in Seq(U) /\ Len(t) = Len(s) + 1 /\ t[1] = m
        /\ \A i \in 1 .. Len(s) : t[i + 1] = s[i]
    BY <1>1
  <1> HIDE DEF t
  <1>3. \A i \in 1 .. Len(t) : i = 1 \/ (i - 1 \in 1 .. Len(s) /\ t[i] = s[i - 1])
    BY <1>1, <1>2
  <1>4. \A i, j \in 1 .. Len(t) : i < j => Follows(FALSE, t[i], t[j])
    <2> SUFFICES ASSUME NEW i \in 1 .. Len(t), NEW j \in 1 .. Len(t), i < j
                 PROVE  Precedes(t[i], t[j])
      BY DEF Follows
    <2>1. j - 1 \in 1 .. Len(s) /\ t[j] = s[j - 1]
      BY <1>2, <1>3
    <2>2. CASE i = 1
      BY <1>1, <1>2, <2>1, <2>2
    <2>3. CASE i # 1
      <3>1. i - 1 \in 1 .. Len(s) /\ t[i] = s[i - 1] /\ i - 1 < j - 1
        BY <1>3, <2>3
      <3> QED BY <2>1, <3>1 DEF Enumerates, Follows
    <2> QED BY <2>2, <2>3
  <1>5. ASSUME NEW x \in U PROVE \E i \in 1 .. Len(t) : t[i] = x
    <2>1. CASE x = m
      BY <1>1, <1>2, <2>1
    <2>2. CASE x # m
      <3>1. PICK i \in 1 .. Len(s) : s[i] = x
        BY <2>2 DEF Enumerates
      <3> QED BY <1>1, <1>2, <3>1
    <2> QED BY <2>1, <2>2
  <1>6. Enumerates(t, U, FALSE)
    BY <1>2, <1>4, <1>5 DEF Enumerates
  <1> QED BY <1>6 DEF t

LEMMA ForwardExists ==
  ASSUME NEW T \in SUBSET Message, IsFiniteSet(T)
  PROVE  \E s : Enumerates(s, T, FALSE)
  <1> DEFINE Done(U) == \E s : Enumerates(s, U, FALSE)
             N == {n \in Nat : \A U \in SUBSET Message :
                                 IsFiniteSet(U) /\ Cardinality(U) = n => Done(U)}
  <1>1. 0 \in N
    <2> SUFFICES ASSUME NEW U \in SUBSET Message, IsFiniteSet(U), Cardinality(U) = 0
                 PROVE  Done(U)
      <3> HIDE DEF Done
      <3> QED OBVIOUS
    <2>1. U = {}
      BY FS_EmptySet
    <2>2. Enumerates(<<>>, U, FALSE)
      BY <2>1 DEF Enumerates
    <2> QED BY <2>2
  <1>2. ASSUME NEW n \in Nat, n \in N PROVE n + 1 \in N
    <2> SUFFICES ASSUME NEW U \in SUBSET Message, IsFiniteSet(U), Cardinality(U) = n + 1
                 PROVE  Done(U)
      <3> HIDE DEF Done
      <3> QED OBVIOUS
    <2>1. U # {}
      BY FS_EmptySet
    <2>2. PICK m \in U : \A x \in U \ {m} : Precedes(m, x)
      BY <2>1, FirstOfMessages
    <2>3. IsFiniteSet(U \ {m}) /\ Cardinality(U \ {m}) = n
      <3>1. /\ IsFiniteSet(U \ {m})
            /\ Cardinality(U \ {m}) = IF m \in U THEN Cardinality(U) - 1 ELSE Cardinality(U)
        BY FS_RemoveElement, Zenon
      <3> QED BY <3>1
    <2>4. PICK s : Enumerates(s, U \ {m}, FALSE)
      BY <1>2, <2>3
    <2>5. Enumerates(<<m>> \o s, U, FALSE)
      BY <2>2, <2>4, Prepended
    <2> QED BY <2>5
  <1>3. Nat \subseteq N
    <2> HIDE DEF N
    <2> QED BY <1>1, <1>2, NatSetInduction
  <1>4. Cardinality(T) \in Nat
    BY FS_CardinalityType
  <1> QED BY <1>3, <1>4

LEMMA Backward ==
  ASSUME NEW T \in SUBSET Message, NEW reverse \in BOOLEAN, NEW s, Enumerates(s, T, reverse)
  PROVE  Enumerates(Reverse(s), T, ~reverse)
  <1> DEFINE t == Reverse(s)
  <1>1. s \in Seq(T) /\ Len(s) \in Nat /\ \A i \in 1 .. Len(s) : s[i] \in Message
    BY DEF Enumerates
  <1>2. t \in Seq(T) /\ Len(t) = Len(s) /\ \A i \in 1 .. Len(s) : t[i] = s[Len(s) - i + 1]
    BY <1>1 DEF Reverse
  <1> HIDE DEF t
  <1>3. ASSUME NEW i \in 1 .. Len(s), NEW j \in 1 .. Len(s), i < j
        PROVE  Follows(~reverse, t[i], t[j])
    <2> DEFINE k == Len(s) - i + 1
               l == Len(s) - j + 1
    <2>1. k \in 1 .. Len(s) /\ l \in 1 .. Len(s) /\ l < k
      BY <1>1, <1>3
    <2>2. t[i] = s[k] /\ t[j] = s[l]
      BY <1>2, Zenon
    <2> HIDE DEF k, l
    <2>3. Follows(reverse, s[l], s[k])
      BY <2>1 DEF Enumerates
    <2> QED BY <1>1, <2>1, <2>2, <2>3, StrictOrder
  <1>4. ASSUME NEW m \in T PROVE \E i \in 1 .. Len(s) : t[i] = m
    <2>1. PICK k \in 1 .. Len(s) : s[k] = m
      BY DEF Enumerates
    <2> DEFINE i == Len(s) - k + 1
    <2>2. i \in 1 .. Len(s) /\ Len(s) - i + 1 = k
      BY <1>1
    <2> HIDE DEF i
    <2> QED BY <1>2, <2>1, <2>2
  <1>5. Enumerates(t, T, ~reverse)
    BY <1>2, <1>3, <1>4 DEF Enumerates
  <1> QED BY <1>5 DEF t

\* A cursor goes over all the messages, in its direction.
LEMMA CourseEnumerates ==
  ASSUME NEW T \in SUBSET Message, IsFiniteSet(T), NEW reverse \in BOOLEAN
  PROVE  Enumerates(Course(T, reverse), T, reverse)
  <1> DEFINE n == Cardinality(T)
             c == Course(T, reverse)
  <1>0. n \in Nat
    BY FS_CardinalityType
  <1>1. PICK s : Enumerates(s, T, reverse)
    <2>1. PICK f : Enumerates(f, T, FALSE)
      BY ForwardExists
    <2>2. Enumerates(Reverse(f), T, TRUE)
      <3>1. Enumerates(Reverse(f), T, ~FALSE)
        BY <2>1, Backward
      <3> QED BY <3>1
    <2>3. reverse = TRUE \/ reverse = FALSE
      OBVIOUS
    <2> QED BY <2>1, <2>2, <2>3
  <1>2. s \in [1 .. n -> T] /\ InOrder(s, reverse)
    <2>1. Len(s) = n /\ s \in [1 .. n -> T]
      BY <1>1, EnumerationCounts
    <2> QED BY <1>1, <2>1 DEF Enumerates, InOrder
  <1>3. c \in [1 .. n -> T] /\ InOrder(c, reverse)
    <2>1. c = CHOOSE x \in [1 .. n -> T] : InOrder(x, reverse)
      BY DEF Course
    <2> HIDE DEF n, c
    <2> QED BY <1>2, <2>1, Zenon
  <1> HIDE DEF n, c
  <1>4. /\ c \in Seq(T) /\ Len(c) = n
        /\ \A i, j \in 1 .. n : i < j => Follows(reverse, c[i], c[j])
    BY <1>0, <1>3 DEF InOrder
  <1> DEFINE R == {c[i] : i \in 1 .. n}
  <1>5. R \in SUBSET T /\ R \in SUBSET Message /\ Enumerates(c, R, reverse)
    BY <1>0, <1>3, <1>4 DEF Enumerates
  <1> HIDE DEF R
  <1>6. R = T
    <2>1. Cardinality(R) = Cardinality(T)
      BY <1>4, <1>5, EnumerationCounts DEF n
    <2> QED BY <1>5, <2>1, FS_Subset
  <1> QED BY <1>5, <1>6 DEF c

-----------------------------------------------------------------------------
\* Once the target is met, at row k, the list holds the rows after it.
LEMMA RowsCollected ==
  ASSUME NEW T \in SUBSET Message, NEW reverse \in BOOLEAN, NEW seen,
         Enumerates(seen, T, reverse), NEW target \in T,
         NEW k \in 1 .. Len(seen), seen[k] = target
  PROVE  Collected(seen, target)[Len(seen)] = SubSeq(seen, k + 1, Len(seen))
  <1> DEFINE n == Len(seen)
             S == Seq(T)
             step == [x \in (1 .. n) \X S |->
                        IF seen[x[1]] = target THEN <<>> ELSE Append(x[2], seen[x[1]])]
             Lists(f) == f = [i \in 0 .. n |-> IF i = 0 \/ seen[i] = target THEN <<>>
                                              ELSE Append(f[i - 1], seen[i])]
             list == Collected(seen, target)
  <1>0. n \in Nat /\ seen \in Seq(T) /\ \A i \in 1 .. n : seen[i] \in T
    BY DEF Enumerates
  <1>1. \A i \in 1 .. n : seen[i] = target => i = k
    <2> SUFFICES ASSUME NEW i \in 1 .. n, seen[i] = seen[k], i # k PROVE FALSE
      OBVIOUS
    <2>1. i < k \/ k < i
      BY <1>0
    <2>2. Follows(reverse, seen[i], seen[k]) \/ Follows(reverse, seen[k], seen[i])
      BY <2>1 DEF Enumerates
    <2> QED BY <2>2, StrictOrder
  <1>2. \E f : Lists(f)
    <2>1. step \in [(1 .. n) \X S -> S]
      BY <1>0
    <2>2. <<>> \in S
      OBVIOUS
    <2>3. PICK f : Recurs(f, n, S, <<>>, step)
      <3> HIDE DEF n, S, step, Lists, list
      <3> QED BY <1>0, <2>1, <2>2, RecursionSolved, Zenon
    <2>4. f \in [0 .. n -> S] /\ f[0] = <<>>
      BY <2>3 DEF Recurs
    <2>5. ASSUME NEW i \in 1 .. n
          PROVE  f[i] = IF seen[i] = target THEN <<>> ELSE Append(f[i - 1], seen[i])
      <3>1. f[i] = step[<<i, f[i - 1]>>]
        <4> HIDE DEF n, S, step, Lists, list
        <4> QED BY <2>3, <1>0 DEF Recurs
      <3>2. f[i - 1] \in S
        BY <1>0, <2>4
      <3> HIDE DEF S
      <3> QED BY <3>1, <3>2
    <2> HIDE DEF S, n
    <2>6. \A i \in 0 .. n : f[i] = IF i = 0 \/ seen[i] = target THEN <<>>
                                   ELSE Append(f[i - 1], seen[i])
      <3> TAKE i \in 0 .. n
      <3>1. CASE i = 0
        BY <2>4, <3>1, Zenon
      <3>2. CASE i # 0
        <4>1. i \in 1 .. n
          BY <1>0, <3>2
        <4>2. f[i] = IF seen[i] = target THEN <<>> ELSE Append(f[i - 1], seen[i])
          BY <2>5, <4>1
        <4> QED BY <3>2, <4>2, Zenon
      <3> QED BY <3>1, <3>2
    <2>7. Lists(f)
      BY <2>4, <2>6
    <2> QED BY <2>7
  <1>3. Lists(list)
    <2>1. list = CHOOSE f : Lists(f)
      BY DEF Collected
    <2> HIDE DEF Lists, list
    <2> QED BY <1>2, <2>1
  <1>4. \A i \in 1 .. n : list[i] = IF i = k THEN <<>> ELSE Append(list[i - 1], seen[i])
    <2> HIDE DEF list, n
    <2> SUFFICES ASSUME NEW i \in 1 .. n
                 PROVE  list[i] = IF i = k THEN <<>> ELSE Append(list[i - 1], seen[i])
      OBVIOUS
    <2>1. list[i] = IF i = 0 \/ seen[i] = target THEN <<>> ELSE Append(list[i - 1], seen[i])
      <3>1. i \in 0 .. n
        BY <1>0
      <3> QED BY <1>3, <3>1
    <2>2. i # 0 /\ (seen[i] = target <=> i = k)
      BY <1>0, <1>1
    <2> QED BY <2>1, <2>2
  <1> HIDE DEF list, n
  <1> DEFINE N == {j \in Nat : k + j <= n => list[k + j] = SubSeq(seen, k + 1, k + j)}
  <1>5. 0 \in N
    <2>1. list[k] = <<>> /\ SubSeq(seen, k + 1, k) = <<>>
      BY <1>0, <1>4 DEF n
    <2>2. k + 0 = k
      BY <1>0 DEF n
    <2> QED BY <2>1, <2>2
  <1>6. ASSUME NEW j \in Nat, j \in N PROVE j + 1 \in N
    <2> SUFFICES ASSUME k + j + 1 <= n
                 PROVE  list[k + j + 1] = SubSeq(seen, k + 1, k + j + 1)
      OBVIOUS
    <2>0. k \in Nat /\ k + j + 1 \in 1 .. n /\ k + j + 1 # k /\ k + j <= n
      BY <1>0 DEF n
    <2>1. list[k + j + 1] = Append(SubSeq(seen, k + 1, k + j), seen[k + j + 1])
      <3>1. PICK i \in 1 .. n : i = k + j + 1
        BY <2>0
      <3>2. list[i] = Append(list[i - 1], seen[i])
        BY <1>4, <2>0, <3>1
      <3>3. i - 1 = k + j
        BY <2>0, <3>1
      <3>4. list[k + j] = SubSeq(seen, k + 1, k + j)
        BY <1>6, <2>0
      <3> QED BY <3>1, <3>2, <3>3, <3>4, Zenon
    <2>2. SubSeq(seen, k + 1, k + j + 1) = Append(SubSeq(seen, k + 1, k + j), seen[k + j + 1])
      BY <1>0 DEF n
    <2> QED BY <2>1, <2>2
  <1>7. Nat \subseteq N
    <2> HIDE DEF N
    <2> QED BY <1>5, <1>6, NatSetInduction
  <1>8. n - k \in N /\ k + (n - k) = n
    <2>1. n - k \in Nat /\ k + (n - k) = n
      BY <1>0 DEF n
    <2> HIDE DEF N
    <2> QED BY <1>7, <2>1
  <1>9. list[n] = SubSeq(seen, k + 1, n)
    BY <1>8
  <1> QED BY <1>9 DEF n, list

\* The rows after the target are what follows it.
LEMMA SuffixEnumerates ==
  ASSUME NEW T \in SUBSET Message, NEW reverse \in BOOLEAN, NEW seen,
         Enumerates(seen, T, reverse), NEW k \in 1 .. Len(seen)
  PROVE  Enumerates(SubSeq(seen, k + 1, Len(seen)),
                    {m \in T : Follows(reverse, seen[k], m)}, reverse)
  <1> DEFINE n == Len(seen)
             U == {m \in T : Follows(reverse, seen[k], m)}
             t == SubSeq(seen, k + 1, n)
  <1>1. n \in Nat /\ seen \in Seq(T) /\ \A i \in 1 .. n : seen[i] \in T
    BY DEF Enumerates
  <1>2. /\ Len(t) = n - k /\ \A i \in 1 .. n - k : t[i] = seen[k + i]
        /\ t \in [1 .. n - k -> T]
    <2>1. t \in Seq(T) /\ Len(t) = n - k
      BY <1>1
    <2>2. ASSUME NEW i \in 1 .. n - k PROVE t[i] = seen[k + i]
      BY <1>1
    <2> HIDE DEF n, t
    <2> QED BY <2>1, <2>2
  <1> HIDE DEF t
  <1>3. \A i \in 1 .. n - k : t[i] \in U
    <2> TAKE i \in 1 .. n - k
    <2>1. k < k + i /\ k + i \in 1 .. n
      BY <1>1
    <2>2. Follows(reverse, seen[k], seen[k + i])
      BY <2>1 DEF Enumerates
    <2> QED BY <1>1, <1>2, <2>1, <2>2
  <1>4. ASSUME NEW m \in U PROVE \E i \in 1 .. n - k : t[i] = m
    <2>1. PICK j \in 1 .. n : seen[j] = m
      BY DEF Enumerates
    <2>2. k < j
      <3>1. CASE j < k
        <4>1. Follows(reverse, seen[j], seen[k]) /\ Follows(reverse, seen[k], seen[j])
          BY <1>1, <2>1, <3>1 DEF Enumerates
        <4> QED BY <1>1, <4>1, StrictOrder
      <3>2. CASE j = k
        BY <1>1, <2>1, <3>2, StrictOrder
      <3> QED BY <1>1, <3>1, <3>2
    <2>3. j - k \in 1 .. n - k /\ t[j - k] = m
      BY <1>1, <1>2, <2>1, <2>2
    <2> QED BY <2>3
  <1>5. \A i, j \in 1 .. n - k : i < j => Follows(reverse, t[i], t[j])
    <2> SUFFICES ASSUME NEW i \in 1 .. n - k, NEW j \in 1 .. n - k, i < j
                 PROVE  Follows(reverse, t[i], t[j])
      OBVIOUS
    <2>1. k + i < k + j /\ k + i \in 1 .. n /\ k + j \in 1 .. n
      BY <1>1
    <2>2. Follows(reverse, seen[k + i], seen[k + j])
      BY <2>1 DEF Enumerates
    <2> QED BY <1>2, <2>2
  <1>6. t \in Seq(U)
    <2> HIDE DEF U
    <2> QED BY <1>1, <1>2, <1>3
  <1>7. Enumerates(t, U, reverse)
    BY <1>2, <1>4, <1>5, <1>6 DEF Enumerates
  <1> QED BY <1>7 DEF t

Following(msgs, target, reverse) == {m \in msgs : Follows(reverse, target, m)}

\* Without a limit the cursor runs to the end, and what follows the target is read:
\* in the cursor's direction, and turned to run forward.
LEMMA AllContinued ==
  ASSUME NEW msgs \in SUBSET Message, IsFiniteSet(msgs), NEW target \in msgs,
         NEW reverse \in BOOLEAN
  PROVE  Enumerates(ContinueMessages(msgs, target, reverse, NoLimit),
                    Following(msgs, target, reverse), FALSE)
  <1> DEFINE range == InRange(msgs, target, reverse)
             seen == Course(range, reverse)
             n == Len(seen)
             Stops(i) == /\ i = n \/ ~GoesOn(seen, target, NoLimit, i)
                         /\ \A j \in 1 .. i - 1 : GoesOn(seen, target, NoLimit, j)
             last == CHOOSE i \in 1 .. n : Stops(i)
             list == Collected(seen, target)[last]
  <1>0. \A m \in Message : m \in Nat /\ Stamp[m] \in Nat
    BY PagesAssumption
  <1>1. range \in SUBSET msgs /\ range \in SUBSET Message /\ target \in range
    BY <1>0 DEF InRange
  <1>2. IsFiniteSet(range)
    BY <1>1, FS_Subset
  <1>3. Enumerates(seen, range, reverse)
    <2> HIDE DEF range
    <2> QED BY <1>1, <1>2, CourseEnumerates
  <1>4. n \in Nat /\ \E k \in 1 .. n : seen[k] = target
    <2> HIDE DEF seen, range
    <2> QED BY <1>1, <1>3 DEF Enumerates
  <1>5. last = n
    <2>1. \A i \in 1 .. n : Stops(i) <=> i = n
      BY DEF GoesOn
    <2>2. n \in 1 .. n
      BY <1>4
    <2> HIDE DEF n, Stops
    <2> QED BY <2>1, <2>2, Zenon
  <1>6. PICK k \in 1 .. n : seen[k] = target
    BY <1>4
  <1> HIDE DEF seen, range, n, last
  <1>7. Enumerates(SubSeq(seen, k + 1, n), Following(range, target, reverse), reverse)
    BY <1>1, <1>3, <1>6, SuffixEnumerates DEF n, Following
  <1>8. list = SubSeq(seen, k + 1, n)
    BY <1>1, <1>3, <1>5, <1>6, RowsCollected DEF n
  <1>9. Following(range, target, reverse) = Following(msgs, target, reverse)
    BY <1>0, <1>1 DEF Following, range, InRange, Follows, Precedes
  <1>10. ContinueMessages(msgs, target, reverse, NoLimit) =
           IF reverse THEN Reverse(list) ELSE list
    BY DEF ContinueMessages, list, last, n, seen, range
  <1> HIDE DEF list
  <1>11. Enumerates(list, Following(msgs, target, reverse), reverse)
    BY <1>7, <1>8, <1>9
  <1>12. Following(msgs, target, reverse) \in SUBSET Message
    BY DEF Following
  <1>13. CASE reverse
    <2>1. Enumerates(Reverse(list), Following(msgs, target, reverse), ~reverse)
      BY <1>11, <1>12, Backward
    <2> QED BY <1>10, <1>13, <2>1
  <1>14. CASE ~reverse
    BY <1>10, <1>11, <1>14
  <1> QED BY <1>13, <1>14

LEMMA PagesJoin ==
  ASSUME NEW msgs \in SUBSET Message, NEW target \in msgs, NEW before, NEW after,
         Enumerates(before, Following(msgs, target, TRUE), FALSE),
         Enumerates(after, Following(msgs, target, FALSE), FALSE)
  PROVE  Enumerates(before \o <<target>> \o after, msgs, FALSE)
  <1> DEFINE b == Len(before)
             a == Len(after)
             all == before \o <<target>> \o after
  <1>1. /\ before \in Seq(msgs) /\ after \in Seq(msgs) /\ b \in Nat /\ a \in Nat
        /\ \A i \in 1 .. b : before[i] \in msgs /\ Precedes(before[i], target)
        /\ \A i \in 1 .. a : after[i] \in msgs /\ Precedes(target, after[i])
    BY DEF Enumerates, Following, Follows
  <1>2. /\ all \in Seq(msgs) /\ Len(all) = b + 1 + a
        /\ \A i \in 1 .. b : all[i] = before[i]
        /\ all[b + 1] = target
        /\ \A i \in 1 .. a : all[b + 1 + i] = after[i]
    BY <1>1
  <1> HIDE DEF all, a, b
  <1>3. \A i \in 1 .. b + 1 + a :
          \/ i \in 1 .. b /\ all[i] = before[i]
          \/ i = b + 1 /\ all[i] = target
          \/ i > b + 1 /\ i - (b + 1) \in 1 .. a /\ all[i] = after[i - (b + 1)]
    <2> TAKE i \in 1 .. b + 1 + a
    <2>1. i > b + 1 => i - (b + 1) \in 1 .. a /\ b + 1 + (i - (b + 1)) = i
      BY <1>1
    <2>2. i \in 1 .. b \/ i = b + 1 \/ i > b + 1
      BY <1>1
    <2> QED BY <1>2, <2>1, <2>2
  <1>4. ASSUME NEW i \in 1 .. b + 1 + a, NEW j \in 1 .. b + 1 + a, i < j
        PROVE  Precedes(all[i], all[j])
    <2>0. \A x, y, z \in Message : Precedes(x, y) /\ Precedes(y, z) => Precedes(x, z)
      <3>1. \A m \in Message : m \in Nat /\ Stamp[m] \in Nat
        BY PagesAssumption
      <3> QED BY <3>1 DEF Precedes
    <2>1. CASE i \in 1 .. b /\ j \in 1 .. b
      BY <1>1, <1>2, <1>4, <2>1 DEF Enumerates, Follows, b
    <2>2. CASE i \in 1 .. b /\ j \notin 1 .. b
      BY <1>1, <1>3, <2>0, <2>2
    <2>3. CASE i = b + 1
      BY <1>1, <1>3, <1>4, <2>3
    <2>4. CASE i > b + 1
      <3> DEFINE k == i - (b + 1)
                 l == j - (b + 1)
      <3>1. k \in 1 .. a /\ l \in 1 .. a /\ k < l /\ all[i] = after[k] /\ all[j] = after[l]
        BY <1>1, <1>3, <1>4, <2>4
      <3> HIDE DEF k, l
      <3> QED BY <3>1 DEF Enumerates, Follows, a
    <2> QED BY <1>1, <2>1, <2>2, <2>3, <2>4
  <1>5. ASSUME NEW m \in msgs PROVE \E i \in 1 .. b + 1 + a : all[i] = m
    <2>1. CASE m = target
      BY <1>1, <1>2, <2>1
    <2>2. CASE Precedes(m, target)
      <3>1. PICK i \in 1 .. b : before[i] = m
        BY <2>2 DEF Enumerates, Following, Follows, b
      <3> QED BY <1>1, <1>2, <3>1
    <2>3. CASE Precedes(target, m)
      <3>1. PICK i \in 1 .. a : after[i] = m
        BY <2>3 DEF Enumerates, Following, Follows, a
      <3>2. b + 1 + i \in 1 .. b + 1 + a /\ all[b + 1 + i] = m
        BY <1>1, <1>2, <3>1
      <3> QED BY <3>2
    <2>4. m = target \/ Precedes(m, target) \/ Precedes(target, m)
      <3>1. \A x \in Message : x \in Nat /\ Stamp[x] \in Nat
        BY PagesAssumption
      <3> QED BY <3>1 DEF Precedes
    <2> QED BY <2>1, <2>2, <2>3, <2>4
  <1>6. Enumerates(all, msgs, FALSE)
    BY <1>2, <1>4, <1>5 DEF Enumerates, Follows
  <1> QED BY <1>6 DEF all

\* The messages after the target are those of its timestamp and those counted.
LEMMA AfterCounted ==
  ASSUME NEW msgs \in SUBSET Message, IsFiniteSet(msgs), NEW target \in msgs, NEW after,
         Enumerates(after, Following(msgs, target, FALSE), FALSE)
  PROVE  CountAfterMessage(msgs, target) + Cardinality(
           {i \in DOMAIN after : Stamp[after[i]] = Stamp[target]}) = Len(after)
  <1> DEFINE n == Len(after)
             U == Following(msgs, target, FALSE)
             same == {i \in 1 .. n : Stamp[after[i]] = Stamp[target]}
             later == (1 .. n) \ same
             counted == {m \in msgs : Stamp[m] > Stamp[target]}
  <1>0. \A m \in Message : m \in Nat /\ Stamp[m] \in Nat
    BY PagesAssumption
  <1>1. /\ n \in Nat /\ DOMAIN after = 1 .. n
        /\ \A i \in 1 .. n : after[i] \in msgs /\ Precedes(target, after[i])
    BY DEF Enumerates, Following, Follows
  <1>2. IsFiniteSet(1 .. n) /\ Cardinality(1 .. n) = n
    BY <1>1, FS_Interval
  <1>3. IsFiniteSet(later) /\ Cardinality(later) = n - Cardinality(same)
        /\ Cardinality(same) \in Nat
    <2>1. same \subseteq 1 .. n /\ (1 .. n) \cap same = same
      OBVIOUS
    <2> HIDE DEF n, same
    <2>2. /\ IsFiniteSet((1 .. n) \ same)
          /\ Cardinality((1 .. n) \ same) = Cardinality(1 .. n) - Cardinality((1 .. n) \cap same)
      BY <1>2, FS_Difference
    <2>3. IsFiniteSet(same)
      BY <1>2, <2>1, FS_Subset
    <2> QED BY <1>2, <2>1, <2>2, <2>3, FS_CardinalityType
  <1>4. \A i \in later : i \in 1 .. n /\ after[i] \in counted
    BY <1>0, <1>1 DEF Precedes
  <1>5. \A i, j \in later : after[i] = after[j] => i = j
    <2> SUFFICES ASSUME NEW i \in 1 .. n, NEW j \in 1 .. n, i < j PROVE after[i] # after[j]
      BY <1>1
    <2>1. Follows(FALSE, after[i], after[j])
      BY DEF Enumerates
    <2> QED BY <1>1, <2>1, StrictOrder
  <1>6. ASSUME NEW m \in counted PROVE \E i \in later : after[i] = m
    <2>1. m \in U
      BY <1>0 DEF Following, Follows, Precedes
    <2>2. PICK i \in 1 .. n : after[i] = m
      BY <2>1 DEF Enumerates
    <2>3. i \in later
      BY <1>0, <2>2
    <2> QED BY <2>2, <2>3
  <1> HIDE DEF later, counted, n
  <1>7. Cardinality(counted) = Cardinality(later)
    <2> DEFINE f == [i \in later |-> after[i]]
    <2>1. f \in [later -> counted]
      BY <1>4
    <2>2. \A i, j \in later : f[i] = f[j] => i = j
      BY <1>5
    <2>3. \A m \in counted : \E i \in later : f[i] = m
      BY <1>6
    <2> HIDE DEF f
    <2>4. f \in Bijection(later, counted)
      BY <2>1, <2>2, <2>3 DEF Bijection, Injection, Surjection, IsInjective
    <2>5. ExistsBijection(later, counted)
      BY <2>4 DEF ExistsBijection
    <2> QED BY <1>3, <2>5, FS_Bijection
  <1>8. CountAfterMessage(msgs, target) = Cardinality(counted)
    BY DEF CountAfterMessage, counted
  <1>9. {i \in DOMAIN after : Stamp[after[i]] = Stamp[target]} = same
    BY <1>1 DEF n
  <1> HIDE DEF same
  <1>10. CountAfterMessage(msgs, target) + Cardinality(same) = n
    BY <1>1, <1>3, <1>7, <1>8
  <1> QED BY <1>9, <1>10, Zenon DEF n

\* The latest message is the last one of all.
LEMMA LatestIsLast ==
  ASSUME NEW msgs \in SUBSET Message, IsFiniteSet(msgs), msgs # {}
  PROVE  LatestMessage(msgs) = <<Last(AllMessages(msgs))>>
  <1> DEFINE all == Course(msgs, FALSE)
             back == Course(msgs, TRUE)
  <1>1. Enumerates(all, msgs, FALSE) /\ Enumerates(back, msgs, TRUE)
    BY CourseEnumerates
  <1> HIDE DEF all, back
  <1>2. Enumerates(Reverse(all), msgs, TRUE)
    <2>1. Enumerates(Reverse(all), msgs, ~FALSE)
      BY <1>1, Backward
    <2> QED BY <2>1
  <1>3. back = Reverse(all)
    BY <1>1, <1>2, EnumerationUnique
  <1>4. Len(all) \in Nat \ {0} /\ all \in Seq(msgs)
    BY <1>1 DEF Enumerates
  <1>5. Head(Reverse(all)) = all[Len(all)]
    BY <1>4 DEF Reverse
  <1> QED BY <1>3, <1>5 DEF LatestMessage, AllMessages, Last, all, back

LEMMA PagesOfDatabase ==
  ASSUME NEW msgs \in SUBSET Message, IsFiniteSet(msgs), NEW target \in msgs
  PROVE  LET after == AfterMessages(msgs, target, NoLimit) IN
           /\ BeforeMessages(msgs, target, NoLimit) \o <<target>> \o after = AllMessages(msgs)
           /\ CountAfterMessage(msgs, target) + Cardinality(
                {i \in DOMAIN after : Stamp[after[i]] = Stamp[target]}) = Len(after)
  <1> DEFINE after == AfterMessages(msgs, target, NoLimit)
             before == BeforeMessages(msgs, target, NoLimit)
  <1>1. /\ Enumerates(after, Following(msgs, target, FALSE), FALSE)
        /\ Enumerates(before, Following(msgs, target, TRUE), FALSE)
    BY AllContinued DEF AfterMessages, BeforeMessages
  <1> HIDE DEF after, before
  <1>2. Enumerates(before \o <<target>> \o after, msgs, FALSE)
    BY <1>1, PagesJoin
  <1>3. Enumerates(AllMessages(msgs), msgs, FALSE)
    BY CourseEnumerates DEF AllMessages
  <1>4. before \o <<target>> \o after = AllMessages(msgs)
    BY <1>2, <1>3, EnumerationUnique
  <1>5. CountAfterMessage(msgs, target) + Cardinality(
          {i \in DOMAIN after : Stamp[after[i]] = Stamp[target]}) = Len(after)
    BY <1>1, AfterCounted
  <1> QED BY <1>4, <1>5 DEF after, before

-----------------------------------------------------------------------------
\* A room's database holds finitely many messages.
StoreFinite == \A n \in Name : stored[n] # NoDatabase => IsFiniteSet(stored[n])

LEMMA StoreStaysFinite ==
  ASSUME StoreInv, StoreFinite, [StoreNext]_vars
  PROVE  StoreFinite'
  <1>1. stored \in [Name -> Contents] /\ at \in [Call -> Name]
    BY DEF StoreInv, StoreTypes, IInv, TypeOK
  <1>2. CASE UNCHANGED stored
    BY <1>2 DEF StoreFinite
  <1>3. ASSUME NEW c \in Call, EndAdd(c) PROVE StoreFinite'
    <2>1. CASE Accepted(c) /\ Stores(c)
      <3>1. op[c] \in Op /\ op[c].kind = "addMessageBulk"
        BY <1>3 DEF EndAdd, StoreInv, StoreTypes
      <3>2. PICK b \in Batch : op[c] = Add(b)
        BY <3>1 DEF Op
      <3>3. IsFiniteSet(op[c].batch)
        BY <3>2, StoreAssumption DEF Add
      <3>4. stored[at[c]] # NoDatabase
        BY <1>3, <2>1, AcceptedBacked
      <3>5. IsFiniteSet(stored[at[c]] \cup op[c].batch)
        BY <1>1, <3>3, <3>4, FS_Union DEF StoreFinite
      <3>6. stored' = [stored EXCEPT ![at[c]] = stored[at[c]] \cup op[c].batch]
        BY <2>1 DEF Stores
      <3> QED BY <1>1, <3>5, <3>6 DEF StoreFinite
    <2> QED BY <1>2, <1>3, <2>1 DEF EndAdd
  <1>4. ASSUME NEW n \in Name, CreateDatabase(n) PROVE StoreFinite'
    <2>1. IsFiniteSet({})
      BY FS_EmptySet
    <2> QED BY <1>1, <1>4, <2>1 DEF CreateDatabase, StoreFinite
  <1>5. ASSUME NEW n \in Name, DeleteDatabase(n) PROVE StoreFinite'
    BY <1>1, <1>5 DEF DeleteDatabase, StoreFinite
  <1> QED BY <1>2, <1>3, <1>4, <1>5
      DEF StoreNext, AddRoom, AddAccount, DeleteAccount, DeleteRoom, BeginAdd, EndCall,
          OtherPoolStep, vars, storeVars

\* Whatever a room's database holds, the pages before and after a message and the
\* message make up the whole list; the latest and the count agree with it
\* (getContinueMessages, getAllMessages, getLatestMessage, countAfterMessage).
THEOREM PagesAreExact == StoreSpec => []PagesExact
  <1>1. Init => StoreFinite
    BY DEF Init, StoreFinite
  <1>2. StoreFinite /\ StoreInv /\ [StoreNext]_vars => StoreFinite'
    BY StoreStaysFinite
  <1>3. StoreFinite /\ StoreInv => PagesExact
    <2> SUFFICES ASSUME StoreFinite, StoreInv, NEW n \in Name, stored[n] # NoDatabase
                 PROVE  /\ stored[n] # {} =>
                             LatestMessage(stored[n]) = <<Last(AllMessages(stored[n]))>>
                        /\ \A target \in stored[n] :
                             LET after == AfterMessages(stored[n], target, NoLimit) IN
                               /\ BeforeMessages(stored[n], target, NoLimit) \o <<target>> \o after =
                                    AllMessages(stored[n])
                               /\ CountAfterMessage(stored[n], target) + Cardinality(
                                    {i \in DOMAIN after : Stamp[after[i]] = Stamp[target]}) = Len(after)
      BY DEF PagesExact
    <2>1. stored[n] \in SUBSET Message /\ IsFiniteSet(stored[n])
      <3>1. stored[n] \in Contents
        BY DEF StoreInv, StoreTypes
      <3> QED BY <3>1, Values DEF StoreFinite
    <2> QED BY <2>1, LatestIsLast, PagesOfDatabase
  <1> QED BY <1>1, <1>2, <1>3, StoreInvariant, PTL DEF StoreSpec

=============================================================================
