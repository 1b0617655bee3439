------------------------------ MODULE Reconnect ------------------------------
(***************************************************************************)
(* How the browser's websockets are replaced: createWebsocket of           *)
(* BackendConnection/plugin.js (client "backend") and createSocket of      *)
(* Controll/components/ControllTableV2.vue (client "table").               *)
(*                                                                         *)
(* Both keep the socket in a variable of the module, which every handler   *)
(* and timer reads when it runs, whatever socket or view it was set for.   *)
(* A task of the browser's event loop is one step.  The identity of a      *)
(* socket whose close event was delivered is used again.                   *)
(*                                                                         *)
(* The environment: close() on a connection that is not yet established    *)
(* makes it fail, which fires error and close; on an established one it    *)
(* starts the closing handshake, which ends in close alone.  A network     *)
(* failure may fire error.  A closed socket delivers no message.           *)
(*                                                                         *)
(* DataApi is the other end of the backend's connection.  The names of the *)
(* specification differ from its, so that one module can extend both.      *)
(***************************************************************************)
EXTENDS Naturals, FiniteSets

CONSTANTS
  Clients,   \* the two programs, or one of them
  Sockets,   \* bound: socket objects alive at the same time
  MaxLeft    \* bound: connection timers that may outlive their views at a time

ASSUME ClientsAssumption == Clients \subseteq {"backend", "table"}
ASSUME SocketsAssumption == IsFiniteSet(Sockets)
ASSUME MaxLeftAssumption == MaxLeft \in Nat
ASSUME NullAssumption == "null" \notin Sockets

VARIABLES
  client,      \* which of the two programs this is
  state,       \* per socket object, its readyState, CLOSING split in two:
               \* "aborting" (close() before it was established) and "closing"
  current,     \* the variable WS or Socket
  connTimers,  \* sockets whose connection timer (connTimeout) runs
  opTimers,    \* how many operation timers (timeout, socketTimeoutObj) run
  mounted,     \* is the view, or the plugin, there?
  leftTimer,   \* history: a view was destroyed while its connection timer ran
  spoiled,     \* history: the error of another socket closed the current one
  spoiledLast  \* history: ... and the one before it

socketVars == <<client, state, current, connTimers, opTimers, mounted, leftTimer, spoiled, spoiledLast>>
ghosts == <<spoiled, spoiledLast>>

NoSocket == "null"
States == {"unused", "connecting", "open", "aborting", "closing", "closed"}
Live == {"connecting", "open"}

SocketInit ==
  /\ client \in Clients
  /\ state = [s \in Sockets |-> "unused"] /\ current = NoSocket
  /\ connTimers = {} /\ opTimers = 0
  /\ mounted = FALSE /\ leftTimer = FALSE
  /\ spoiled = FALSE /\ spoiledLast = FALSE

-----------------------------------------------------------------------------
\* close() of socket s, given the states before it.
Closed(st, s) ==
  IF s = NoSocket THEN st
  ELSE [st EXCEPT ![s] = CASE @ = "connecting" -> "aborting"
                           [] @ = "open" -> "closing"
                           [] OTHER -> @]

\* What a view's or plugin's life needs of a socket object before it is one anew.
Reusable(s) == state[s] \in {"unused", "closed"} /\ s # current /\ s \notin connTimers

TimersKept(kept) == connTimers' = kept \cup {current'}

\* Mutant: the socket before it is not closed.
CreateBeside(kept) ==
  \E s \in Sockets :
    /\ Reusable(s)
    /\ current' = s /\ state' = [state EXCEPT ![s] = "connecting"]
    /\ TimersKept(kept)
    /\ spoiled' = FALSE /\ spoiledLast' = spoiled

\* createWebsocket, createSocket: the timers in "kept" go on.  The operation timer of the
\* table is cleared; the backend's has fired, or was never set.
Create(kept) ==
  \E s \in Sockets :
    /\ Reusable(s)
    /\ current' = s
    /\ state' = [Closed(state, current) EXCEPT ![s] = "connecting"]
    /\ TimersKept(kept)
    /\ spoiled' = FALSE /\ spoiledLast' = spoiled

\* install, or mounted of a view; the variable is the one of the view before it.
Mount ==
  /\ ~mounted /\ mounted' = TRUE
  /\ Create(connTimers)
  /\ opTimers' = IF client = "table" THEN 0 ELSE opTimers
  /\ UNCHANGED <<client, leftTimer>>

\* beforeDestroy of the table: the connection timer is not among what it clears.
Destroy ==
  /\ client = "table" /\ mounted /\ mounted' = FALSE
  /\ Cardinality(connTimers) <= MaxLeft
  /\ opTimers' = 0
  /\ state' = Closed(state, current)
  /\ leftTimer' = (leftTimer \/ connTimers # {})
  /\ UNCHANGED <<client, current, connTimers, ghosts>>

\* Mutant: the time is shorter than it takes to report that a connection was given up.
ImpatientTimeout(s) ==
  /\ s \in connTimers
  /\ Create(connTimers \ {s})
  /\ opTimers' = IF client = "table" THEN 0 ELSE opTimers
  /\ UNCHANGED <<client, mounted, leftTimer>>

\* The connection timer.  The failure of a connection that was given up is reported at
\* once, before a timer of 1.5 or 2 seconds that was set after it.
ConnTimeout(s) ==
  /\ s \in connTimers /\ \A a \in Sockets : state[a] # "aborting"
  /\ Create(connTimers \ {s})
  /\ opTimers' = IF client = "table" THEN 0 ELSE opTimers
  /\ UNCHANGED <<client, mounted, leftTimer>>

\* The operation timer: nothing was received for 1.5 or 2 seconds.
OpTimeout ==
  /\ opTimers > 0 /\ \A a \in Sockets : state[a] # "aborting"
  /\ opTimers' = IF client = "table" THEN 0 ELSE opTimers - 1
  /\ Create(connTimers)
  /\ UNCHANGED <<client, mounted, leftTimer>>

\* Mutant: the connection timer goes on.
OpensTimed(s) ==
  /\ state[s] = "connecting"
  /\ state' = [state EXCEPT ![s] = "open"]
  /\ opTimers' = opTimers + 1
  /\ UNCHANGED <<client, current, connTimers, mounted, leftTimer, ghosts>>

\* The open event.  The backend clears the timer its variable holds, the latest one,
\* and the table the one of this socket.
Opens(s) ==
  /\ state[s] = "connecting"
  /\ state' = [state EXCEPT ![s] = "open"]
  /\ connTimers' = connTimers \ {IF client = "backend" THEN current ELSE s}
  /\ opTimers' = opTimers + 1
  /\ UNCHANGED <<client, current, mounted, leftTimer, ghosts>>

\* A message starts the operation timer again.
Message(s) ==
  /\ state[s] = "open"
  /\ opTimers' = IF opTimers > 0 THEN opTimers ELSE 1
  /\ UNCHANGED <<client, state, current, connTimers, mounted, leftTimer, ghosts>>

\* Mutant: the error handler also clears the connection timer, and leaves it at that.
ErrorGivesUp(s) ==
  /\ state' = Closed([state EXCEPT ![s] = "closed"], current)
  /\ connTimers' = connTimers \ {current}
  /\ UNCHANGED <<client, current, opTimers, mounted, leftTimer, ghosts>>

\* The error handler of the backend closes the socket its variable holds now, whichever
\* socket failed; the table's only logs, and is set when the socket opens.
ErrorEvent(s) ==
  LET failed == [state EXCEPT ![s] = "closed"] IN
  /\ state' = IF client = "backend" THEN Closed(failed, current) ELSE failed
  /\ spoiled' = (spoiled \/ (client = "backend" /\ s # current /\ state[current] \in Live))
  /\ UNCHANGED <<client, current, connTimers, opTimers, mounted, leftTimer, spoiledLast>>

\* The connection is refused or lost, or was given up.
Fails(s) == state[s] \in Live /\ ErrorEvent(s)
Aborted(s) == state[s] = "aborting" /\ ErrorEvent(s)

\* The close event without an error: the peer ends the connection, or the handshake is done.
CloseEvent(s) ==
  /\ state[s] \in {"open", "closing"}
  /\ state' = [state EXCEPT ![s] = "closed"]
  /\ UNCHANGED <<client, current, connTimers, opTimers, mounted, leftTimer, ghosts>>

SocketNext ==
  \/ Mount \/ Destroy \/ OpTimeout
  \/ \E s \in Sockets :
       \/ ConnTimeout(s) \/ Opens(s) \/ Message(s)
       \/ Fails(s) \/ Aborted(s) \/ CloseEvent(s)

SocketSpec == SocketInit /\ [][SocketNext]_socketVars

\* Timers fire, events are delivered, the plugin or view is loaded; and a backend that is
\* tried again and again lets a connection open before its timer at some time.
FairSocketSpec ==
  /\ SocketSpec
  /\ WF_socketVars(Mount) /\ WF_socketVars(OpTimeout)
  /\ \A s \in Sockets :
       /\ WF_socketVars(ConnTimeout(s)) /\ WF_socketVars(Aborted(s)) /\ WF_socketVars(CloseEvent(s))
       /\ SF_socketVars(s = current /\ Opens(s))

-----------------------------------------------------------------------------
(* Properties.                                                             *)

\* Every socket but the one in the variable is closed or on its way to be: a replaced
\* connection is never left open beside the new one, and a destroyed view leaves none
\* unless a connection timer outlived it.
OnlyCurrentIsLive ==
  /\ \A s \in Sockets : state[s] \in Live => s = current
  /\ ~mounted /\ ~leftTimer => \A s \in Sockets : state[s] \notin Live

\* Exactly one timer watches a socket, so that it is replaced when it stalls and by one
\* attempt only; none without a view.  This needs that no view was destroyed while it was
\* connecting, whose timer beforeDestroy does not know.
OneTimer ==
  ~leftTimer => Cardinality(connTimers) + opTimers = IF mounted THEN 1 ELSE 0

\* The error of a connection given up closes at most every second attempt: after a socket
\* that it closed comes one that no error of another closes.
NeverSpoiledTwice == ~(spoiled /\ spoiledLast)

\* A view, or the plugin, that stays gets an open connection again and again, even after
\* connection timers outlived destroyed views.
Reconnects == []<>(mounted => current # NoSocket /\ state[current] = "open")

=============================================================================
