--------------------------- MODULE ConnectionPool ---------------------------
(***************************************************************************)
(* The pool of IndexedDB connections a page keeps (IDBCP,                  *)
(* src/utils/idb/indexed-dbcp.ts).  Every page has one pool; the databases *)
(* are shared by the pages of the origin.                                  *)
(*                                                                         *)
(* A call of getOrOpen or delete is a member of Call.  The connection a    *)
(* call opens, and the EventTarget it leaves in "reserved" while it opens, *)
(* are named after that call.  A member of Call is used for one call at a  *)
(* time and opens again only once its last connection is gone: a bound on  *)
(* the number of calls, not a rule of the code.                            *)
(*                                                                         *)
(* IndexedDB itself is external: the requests on one database are served   *)
(* one by one in the order they were made, a deletion asks every open      *)
(* connection to close (versionchange) and waits until all are closed, and *)
(* the browser may close a connection by force, which the page learns only *)
(* later (close).  The code passes no version, so an open upgrades only a  *)
(* database it has just created.                                           *)
(***************************************************************************)
EXTENDS Sequences, Naturals

CONSTANTS Tab, Name, Call, TabOf, NoCall

ASSUME PoolAssumption == /\ TabOf \in [Call -> Tab]
                         /\ NoCall \notin Call

VARIABLES
  permitted,   \* the pages that may use IndexedDB; in another one (a sandboxed
               \* frame) open and deleteDatabase throw.  It never changes
  dictionary,  \* per page and name, the connection handed out to every caller
  reserved,    \* per page and name, the call that is opening it
  listeners,   \* per opening call, the calls to wake, in order of registration
  pc,          \* where each call stands
  at,          \* the name each call is about
  got,         \* the connection a resolved call was given
  link,        \* the connection each call opened
  requests     \* per name, IndexedDB's queue of requests

poolVars == <<permitted, dictionary, reserved, listeners, pc, at, got, link, requests>>

Request == [kind : {"open", "delete"}, by : Call]

TypeOK ==
  /\ permitted \subseteq Tab
  /\ dictionary \in [Tab -> [Name -> Call \cup {NoCall}]]
  /\ reserved \in [Tab -> [Name -> Call \cup {NoCall}]]
  /\ listeners \in [Call -> Seq(Call)]
  /\ pc \in [Call -> {"idle", "waiting", "opening", "failing", "deleting",
                      "resolved", "rejected"}]
  /\ at \in [Call -> Name]
  /\ got \in [Call -> Call \cup {NoCall}]
  /\ link \in [Call -> {"none", "born", "open", "lost"}]
  /\ requests \in [Name -> Seq(Request)]

PoolInit ==
  /\ permitted \in SUBSET Tab
  /\ dictionary = [t \in Tab |-> [n \in Name |-> NoCall]]
  /\ reserved = [t \in Tab |-> [n \in Name |-> NoCall]]
  /\ listeners = [c \in Call |-> <<>>]
  /\ pc = [c \in Call |-> "idle"]
  /\ at \in [Call -> Name]
  /\ got = [c \in Call |-> NoCall]
  /\ link = [c \in Call |-> "none"]
  /\ requests = [n \in Name |-> <<>>]

(***************************************************************************)
(* Steps of a page.  An event handler runs to its end, and the promises it *)
(* settles run their continuations (microtasks) before the page's next     *)
(* event: no handler runs, and no call is made, while a call of the page   *)
(* has settled and its caller has not continued.  (A call a continuation   *)
(* makes settles after those that are already settled: microtasks are run  *)
(* in order.)                                                              *)
(***************************************************************************)
Quiet(t) == \A c \in Call : TabOf[c] = t => pc[c] \notin {"resolved", "rejected"}

Settled(c) == pc[c] \in {"resolved", "rejected"}

(* getOrOpen: a connection in the dictionary is returned at once. *)
Hit(c, n) ==
  /\ dictionary[TabOf[c]][n] # NoCall
  /\ pc' = [pc EXCEPT ![c] = "resolved"]
  /\ got' = [got EXCEPT ![c] = dictionary[TabOf[c]][n]]
  /\ UNCHANGED <<reserved, listeners, requests>>

(* getOrOpen while another call opens the same name: listen for "completed". *)
Listen(c, n) ==
  /\ dictionary[TabOf[c]][n] = NoCall
  /\ reserved[TabOf[c]][n] # NoCall
  /\ pc' = [pc EXCEPT ![c] = "waiting"]
  /\ listeners' = [listeners EXCEPT ![reserved[TabOf[c]][n]] = Append(@, c)]
  /\ UNCHANGED <<reserved, got, requests>>

\* Mutant of Reserve: the reservation is not looked at.
ReserveUnchecked(c, n) ==
  /\ dictionary[TabOf[c]][n] = NoCall
  /\ link[c] = "none"
  /\ TabOf[c] \in permitted
  /\ pc' = [pc EXCEPT ![c] = "opening"]
  /\ reserved' = [reserved EXCEPT ![TabOf[c]][n] = c]
  /\ requests' = [requests EXCEPT ![n] = Append(@, [kind |-> "open", by |-> c])]
  /\ UNCHANGED <<listeners, got>>

(* getOrOpen of a name nobody opens: reserve it and open the database. *)
Reserve(c, n) ==
  /\ dictionary[TabOf[c]][n] = NoCall
  /\ reserved[TabOf[c]][n] = NoCall
  /\ link[c] = "none"
  /\ TabOf[c] \in permitted
  /\ pc' = [pc EXCEPT ![c] = "opening"]
  /\ reserved' = [reserved EXCEPT ![TabOf[c]][n] = c]
  /\ requests' = [requests EXCEPT ![n] = Append(@, [kind |-> "open", by |-> c])]
  /\ UNCHANGED <<listeners, got>>

(* indexedDB.open throws: the promise is rejected, but nothing releases    *)
(* the name, so that later calls listen to a target nobody dispatches to.  *)
OpenThrows(c, n) ==
  /\ dictionary[TabOf[c]][n] = NoCall
  /\ reserved[TabOf[c]][n] = NoCall
  /\ TabOf[c] \notin permitted
  /\ pc' = [pc EXCEPT ![c] = "rejected"]
  /\ reserved' = [reserved EXCEPT ![TabOf[c]][n] = c]
  /\ UNCHANGED <<listeners, got, requests>>

Calls(c, n) ==
  /\ pc[c] = "idle"
  /\ Quiet(TabOf[c])
  /\ link[c] = "none" \/ at[c] = n
  /\ at' = [at EXCEPT ![c] = n]
  /\ UNCHANGED <<permitted, dictionary, link>>

GetOrOpen(c, n) ==
  Calls(c, n) /\ (Hit(c, n) \/ Listen(c, n) \/ Reserve(c, n) \/ OpenThrows(c, n))

Woken(c) == {c} \cup {listeners[c][i] : i \in 1 .. Len(listeners[c])}

(* openReq.onsuccess: the connection enters the dictionary, and every      *)
(* listener calls getOrOpen again, which now finds it there.               *)
OnSuccess(c) ==
  /\ link[c] = "born"
  /\ Quiet(TabOf[c])
  /\ dictionary' = [dictionary EXCEPT ![TabOf[c]][at[c]] = c]
  /\ reserved' = [reserved EXCEPT ![TabOf[c]][at[c]] = NoCall]
  /\ pc' = [d \in Call |-> IF d \in Woken(c) THEN "resolved" ELSE pc[d]]
  /\ got' = [d \in Call |-> IF d \in Woken(c) THEN c ELSE got[d]]
  /\ listeners' = [listeners EXCEPT ![c] = <<>>]
  /\ link' = [link EXCEPT ![c] = "open"]
  /\ UNCHANGED <<permitted, at, requests>>

\* Mutant of OnError: nobody is woken.
OnErrorSilent(c) ==
  /\ pc[c] = "failing"
  /\ Quiet(TabOf[c])
  /\ reserved' = [reserved EXCEPT ![TabOf[c]][at[c]] = NoCall]
  /\ pc' = [pc EXCEPT ![c] = "rejected"]
  /\ UNCHANGED <<permitted, dictionary, listeners, at, got, link, requests>>

\* Mutant of OnError: the failure is passed on to every listener.
OnErrorForAll(c) ==
  /\ pc[c] = "failing"
  /\ Quiet(TabOf[c])
  /\ reserved' = [reserved EXCEPT ![TabOf[c]][at[c]] = NoCall]
  /\ pc' = [d \in Call |-> IF d \in Woken(c) THEN "rejected" ELSE pc[d]]
  /\ listeners' = [listeners EXCEPT ![c] = <<>>]
  /\ UNCHANGED <<permitted, dictionary, at, got, link, requests>>

(* openReq.onerror: the call is rejected and the name released.  The first *)
(* listener's getOrOpen reserves the name and opens again; the others find *)
(* it reserved and listen to that one.                                     *)
OnError(c) ==
  /\ pc[c] = "failing"
  /\ Quiet(TabOf[c])
  /\ IF listeners[c] = <<>>
     THEN /\ reserved' = [reserved EXCEPT ![TabOf[c]][at[c]] = NoCall]
          /\ pc' = [pc EXCEPT ![c] = "rejected"]
          /\ UNCHANGED <<listeners, requests>>
     ELSE LET next == Head(listeners[c])
          IN  /\ reserved' = [reserved EXCEPT ![TabOf[c]][at[c]] = next]
              /\ listeners' = [listeners EXCEPT ![c] = <<>>,
                                                ![next] = Tail(listeners[c])]
              /\ pc' = [pc EXCEPT ![c] = "rejected", ![next] = "opening"]
              /\ requests' = [requests EXCEPT ![at[c]] =
                                Append(@, [kind |-> "open", by |-> next])]
  /\ UNCHANGED <<permitted, dictionary, at, got, link>>

\* Mutant of OnVersionChange: the closed connection stays in the dictionary.
OnVersionChangeKept(k) ==
  /\ link[k] = "open"
  /\ requests[at[k]] # <<>>
  /\ Head(requests[at[k]]).kind = "delete"
  /\ Quiet(TabOf[k])
  /\ link' = [link EXCEPT ![k] = "none"]
  /\ UNCHANGED <<permitted, dictionary, reserved, listeners, pc, at, got, requests>>

\* Mutant of OnVersionChange: the connection is forgotten and not closed.
OnVersionChangeUnclosed(k) ==
  /\ link[k] = "open"
  /\ requests[at[k]] # <<>>
  /\ Head(requests[at[k]]).kind = "delete"
  /\ Quiet(TabOf[k])
  /\ dictionary' = [dictionary EXCEPT ![TabOf[k]][at[k]] = NoCall]
  /\ UNCHANGED <<permitted, reserved, listeners, pc, at, got, link, requests>>

(* db.onversionchange: a deletion is being served and asks this connection *)
(* to close; the handler closes it and forgets it.                         *)
OnVersionChange(k) ==
  /\ link[k] = "open"
  /\ requests[at[k]] # <<>>
  /\ Head(requests[at[k]]).kind = "delete"
  /\ Quiet(TabOf[k])
  /\ link' = [link EXCEPT ![k] = "none"]
  /\ dictionary' = [dictionary EXCEPT ![TabOf[k]][at[k]] = NoCall]
  /\ UNCHANGED <<permitted, reserved, listeners, pc, at, got, requests>>

(* db.onclose: the page learns that the browser closed the connection. *)
OnClose(k) ==
  /\ link[k] = "lost"
  /\ Quiet(TabOf[k])
  /\ link' = [link EXCEPT ![k] = "none"]
  /\ dictionary' = [dictionary EXCEPT ![TabOf[k]][at[k]] = NoCall]
  /\ UNCHANGED <<permitted, reserved, listeners, pc, at, got, requests>>

(* delete: ask IndexedDB to delete the database, whoever has it open. *)
Delete(c, n) ==
  /\ pc[c] = "idle"
  /\ Quiet(TabOf[c])
  /\ link[c] = "none"
  /\ at' = [at EXCEPT ![c] = n]
  /\ \/ /\ TabOf[c] \in permitted
        /\ pc' = [pc EXCEPT ![c] = "deleting"]
        /\ requests' = [requests EXCEPT ![n] =
                          Append(@, [kind |-> "delete", by |-> c])]
     \/ /\ TabOf[c] \notin permitted
        /\ pc' = [pc EXCEPT ![c] = "rejected"]
        /\ UNCHANGED requests
  /\ UNCHANGED <<permitted, dictionary, reserved, listeners, got, link>>

(* The caller of a settled call continues. *)
Continue(c) ==
  /\ Settled(c)
  /\ pc' = [pc EXCEPT ![c] = "idle"]
  /\ got' = [got EXCEPT ![c] = NoCall]
  /\ UNCHANGED <<permitted, dictionary, reserved, listeners, at, link, requests>>
(***************************************************************************)
(* Steps of IndexedDB.                                                     *)
(***************************************************************************)
Serves(n, kind) == requests[n] # <<>> /\ Head(requests[n]).kind = kind

(* An open is served: the database exists from now on (onUpgradeNeeded     *)
(* makes the stores of a new one) and the success event is on its way.     *)
ServeOpen(n) ==
  /\ Serves(n, "open")
  /\ link' = [link EXCEPT ![Head(requests[n]).by] = "born"]
  /\ requests' = [requests EXCEPT ![n] = Tail(@)]
  /\ UNCHANGED <<permitted, dictionary, reserved, listeners, pc, at, got>>

(* An open fails (no space left, an aborted upgrade): the error event is   *)
(* on its way, and no database has been created.                           *)
FailOpen(n) ==
  /\ Serves(n, "open")
  /\ pc' = [pc EXCEPT ![Head(requests[n]).by] = "failing"]
  /\ requests' = [requests EXCEPT ![n] = Tail(@)]
  /\ UNCHANGED <<permitted, dictionary, reserved, listeners, at, got, link>>

(* A deletion is over once no connection is left: delete resolves, with    *)
(* true if the database is gone and with false if the deletion failed.     *)
EndDelete(n) ==
  /\ Serves(n, "delete")
  /\ \A k \in Call : at[k] = n => link[k] \notin {"born", "open"}
  /\ Quiet(TabOf[Head(requests[n]).by])
  /\ pc' = [pc EXCEPT ![Head(requests[n]).by] = "resolved"]
  /\ requests' = [requests EXCEPT ![n] = Tail(@)]
  /\ UNCHANGED <<permitted, dictionary, reserved, listeners, at, got, link>>

(* The browser closes a connection by force. *)
LoseConnection(k) ==
  /\ link[k] = "open"
  /\ link' = [link EXCEPT ![k] = "lost"]
  /\ UNCHANGED <<permitted, dictionary, reserved, listeners, pc, at, got, requests>>

PageStep == \E c \in Call : \/ OnSuccess(c) \/ OnError(c)
                            \/ OnVersionChange(c) \/ OnClose(c)

DatabaseStep == \/ \E n \in Name : \/ ServeOpen(n) \/ FailOpen(n) \/ EndDelete(n)
                \/ \E c \in Call : LoseConnection(c)

Next == \/ \E c \in Call, n \in Name : GetOrOpen(c, n) \/ Delete(c, n)
        \/ \E c \in Call : Continue(c)
        \/ PageStep
        \/ DatabaseStep

(***************************************************************************)
(* Fairness: a page runs its microtasks and, whenever it comes to rest     *)
(* between two of them again and again, dispatches the events queued for   *)
(* it (strong fairness: its callers keep making calls in between, so that  *)
(* a handler is not enabled without interruption).  IndexedDB answers      *)
(* every request, by success or by error.  Nobody has to make a call.      *)
(***************************************************************************)
Fairness ==
  /\ \A c \in Call : WF_poolVars(Continue(c))
  /\ \A c \in Call : SF_poolVars(OnSuccess(c) \/ OnError(c))
  /\ \A c \in Call : SF_poolVars(OnVersionChange(c) \/ OnClose(c))
  /\ \A n \in Name : WF_poolVars(ServeOpen(n) \/ FailOpen(n))
  /\ \A n \in Name : SF_poolVars(EndDelete(n))

Spec == PoolInit /\ [][Next]_poolVars /\ Fairness

(***************************************************************************)
(* Properties                                                              *)
(***************************************************************************)
Connected(t, n) == {c \in Call : TabOf[c] = t /\ at[c] = n /\ link[c] # "none"}

Opening(t, n) == {c \in Call : /\ TabOf[c] = t /\ at[c] = n
                               /\ pc[c] \in {"opening", "failing"}}

(* What "reserved" is for (getOrOpen, indexed-dbcp.ts 24-33): a page never *)
(* holds two connections to one database, and never opens one while it     *)
(* holds another.  A second connection would be in no dictionary, so that  *)
(* nothing but its own versionchange would ever close it.                  *)
OneConnection ==
  \A t \in Tab, n \in Name :
    \A c, d \in Connected(t, n) \cup Opening(t, n) : c = d

(* The connection a caller is given is one of its own page to the name it  *)
(* asked for, and the page has not closed it: it is in the dictionary and  *)
(* open, or lost without the page having been told.                        *)
GivenUsable ==
  \A c \in Call :
    pc[c] = "resolved" /\ got[c] # NoCall =>
      /\ link[got[c]] \in {"open", "lost"}
      /\ dictionary[TabOf[c]][at[c]] = got[c]
      /\ TabOf[got[c]] = TabOf[c]
      /\ at[got[c]] = at[c]

(* Nobody waits for nothing: a caller that listens is on the list of the   *)
(* call that has the name reserved, once, and that call is still to be     *)
(* answered; so its event wakes the caller.  Pages that may not use        *)
(* IndexedDB are the exception OpenThrows describes.                       *)
NoLostWaiter ==
  \A c \in Call :
    pc[c] = "waiting" /\ TabOf[c] \in permitted =>
      LET o == reserved[TabOf[c]][at[c]]
      IN  /\ o # NoCall
          /\ pc[o] \in {"opening", "failing"}
          /\ \E i \in DOMAIN listeners[o] :
                /\ listeners[o][i] = c
                /\ \A j \in DOMAIN listeners[o] : listeners[o][j] = c => j = i

(* Every call of a page that may use IndexedDB settles: opens that fail    *)
(* pass the name on, and deletions are not held up, because every open     *)
(* connection closes when it is asked to.                                  *)
CallsSettle ==
  \A c \in Call :
    TabOf[c] \in permitted /\ pc[c] \in {"waiting", "opening", "deleting"}
      ~> Settled(c)

AskingAt(t, n) == {c \in Call : /\ TabOf[c] = t /\ at[c] = n
                               /\ pc[c] \in {"waiting", "opening", "failing"}}

(* The pool implements SharedConnection: the dance of reservations, events *)
(* and listeners (indexed-dbcp.ts 18-73) answers all who ask for a name    *)
(* with one connection in one step, refuses one caller per failure, and    *)
(* closes no connection a caller has been given and not taken.             *)
Shared == INSTANCE SharedConnection WITH
  connection <- dictionary,
  asking <- [t \in Tab |-> [n \in Name |-> AskingAt(t, n)]],
  given <- got,
  refused <- {c \in Call : pc[c] = "rejected"}

SharedSpec == Shared!Spec
=============================================================================
