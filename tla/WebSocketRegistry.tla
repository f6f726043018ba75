------------------------- MODULE WebSocketRegistry -------------------------
(***************************************************************************)
(* The browser's sockets by name (src/utils/react/websocket-registry.ts)   *)
(* and the components that listen to one (use-websocket.tsx), for one      *)
(* name.  An effect registers the socket and unregisters it, which closes  *)
(* it; the close event comes later, when the next socket may have been     *)
(* registered under the name.  The listeners are kept by name, and every   *)
(* socket of the name tells all of them what happens to it.                *)
(*                                                                         *)
(* A component's name does not change while it is mounted, so that a       *)
(* listener starts afresh.  The socket is the browser's (external): one    *)
(* that is being closed fires nothing but its close event.                 *)
(***************************************************************************)
EXTENDS FiniteSets

CONSTANTS
  Socket,   \* the sockets registered under the name, each with its entry
  Listener, \* mounted components
  Packet,   \* messages
  Wanted,   \* Wanted[l]: the packets the filter of listener l lets through
  Nobody    \* no socket, no packet

ASSUME RegistryAssumption ==
  Wanted \in [Listener -> SUBSET Packet] /\ Nobody \notin Socket \cup Packet

VARIABLES
  registered, \* the socket whose entry the registry holds, or Nobody
  wire,       \* [Socket -> WireStates]: what the browser knows of each
  entry,      \* [Socket -> Views]: the WebSocketEntry of each
  listening,  \* the listeners in the set of the name
  view,       \* [Listener -> Views]: the state of each component
  overtaken   \* history: listeners that were last told of another socket's end

registryVars == <<registered, wire, entry, listening, view, overtaken>>

WireStates == {"unused", "connecting", "open", "closing", "closed"}
SocketStates == {"INITIAL", "OPEN", "CLOSED"}   \* RECONNECTING is never set
Views == [ref : Socket \cup {Nobody}, state : SocketStates, last : Packet \cup {Nobody}]

Initial == [ref |-> Nobody, state |-> "INITIAL", last |-> Nobody]
Opened(s) == [ref |-> s, state |-> "OPEN", last |-> Nobody]
Shut == [ref |-> Nobody, state |-> "CLOSED", last |-> Nobody]

RegistryInit ==
  /\ registered = Nobody
  /\ wire = [s \in Socket |-> "unused"]
  /\ entry = [s \in Socket |-> Initial]
  /\ listening = {}
  /\ view = [l \in Listener |-> Initial]
  /\ overtaken = {}

\* register: the url is there ("" registers nothing) and the name is free (it throws)
Register(s) ==
  /\ registered = Nobody
  /\ wire[s] = "unused"
  /\ registered' = s
  /\ wire' = [wire EXCEPT ![s] = "connecting"]
  /\ entry' = [entry EXCEPT ![s].ref = s]
  /\ UNCHANGED <<listening, view, overtaken>>

\* what register returned: the socket is closed, unless its close event came first
Unregister ==
  /\ registered # Nobody
  /\ registered' = Nobody
  /\ wire' = [wire EXCEPT ![registered] = IF entry[registered].ref = Nobody THEN @
                                          ELSE "closing"]
  /\ UNCHANGED <<entry, listening, view, overtaken>>

\* an event of socket s leaves v in its entry and with every listener
TellAll(s, v) ==
  /\ entry' = [entry EXCEPT ![s] = v]
  /\ view' = [l \in Listener |-> IF l \in listening THEN v ELSE view[l]]
  /\ overtaken' = IF s = registered THEN {} ELSE overtaken \cup listening
  /\ UNCHANGED <<registered, listening>>

SocketOpens(s) ==
  /\ wire[s] = "connecting"
  /\ wire' = [wire EXCEPT ![s] = "open"]
  /\ TellAll(s, Opened(s))

SocketCloses(s) ==   \* also: the connection failed
  /\ wire[s] \in {"connecting", "open", "closing"}
  /\ wire' = [wire EXCEPT ![s] = "closed"]
  /\ TellAll(s, Shut)

SocketReceives(s, p) ==
  /\ wire[s] = "open"
  /\ entry' = [entry EXCEPT ![s].last = p]
  /\ view' = [l \in Listener |-> IF l \in listening /\ p \in Wanted[l]
                                 THEN [view[l] EXCEPT !.last = p] ELSE view[l]]
  /\ UNCHANGED <<registered, wire, listening, overtaken>>

\* Mutant of Greeting: a listener that comes late waits for the next event.
GreetingAwaited(l) == Initial

\* what a new listener is set to: the entry's socket, even one that is still
\* connecting, its last state, and its last message if that is let through
Greeting(l) ==
  IF registered = Nobody THEN Initial
  ELSE LET e == entry[registered] IN
         [e EXCEPT !.last = IF e.last \in Wanted[l] THEN e.last ELSE Nobody]

Listen(l) ==
  /\ l \notin listening
  /\ listening' = listening \cup {l}
  /\ view' = [view EXCEPT ![l] = Greeting(l)]
  /\ UNCHANGED <<registered, wire, entry, overtaken>>

Unlisten(l) ==   \* the component is unmounted
  /\ l \in listening
  /\ listening' = listening \ {l}
  /\ view' = [view EXCEPT ![l] = Initial]
  /\ overtaken' = overtaken \ {l}
  /\ UNCHANGED <<registered, wire, entry>>

RegistryNext ==
  \/ \E s \in Socket : Register(s) \/ SocketOpens(s) \/ SocketCloses(s)
  \/ \E s \in Socket, p \in Packet : SocketReceives(s, p)
  \/ Unregister
  \/ \E l \in Listener : Listen(l) \/ Unlisten(l)

RegistrySpec == RegistryInit /\ [][RegistryNext]_registryVars
-----------------------------------------------------------------------------
(***************************************************************************)
(* Properties.                                                             *)
(***************************************************************************)

\* Every variable has its type.
RegistryTypeOK ==
  /\ registered \in Socket \cup {Nobody}
  /\ wire \in [Socket -> WireStates]
  /\ entry \in [Socket -> Views]
  /\ listening \subseteq Listener
  /\ view \in [Listener -> Views]
  /\ overtaken \subseteq Listener

\* A listener, whenever it came, shows the state of the registered socket once
\* that was opened or closed: the same socket to send on, the same state, and no
\* message of an earlier socket; the socket's last message, if it wants that one.
\* Exempt are listeners that were told of the end of the socket before it, whose
\* late close event overwrites what they had; its own next event corrects them.
ListenersFollow ==
  registered # Nobody /\ entry[registered].state # "INITIAL" =>
    \A l \in listening \ overtaken :
      LET e == entry[registered] IN
        /\ view[l].ref = e.ref /\ view[l].state = e.state
        /\ e.last \in Wanted[l] \cup {Nobody} => view[l].last = e.last
        /\ e.ref # Nobody => wire[e.ref] = "open"

=============================================================================
