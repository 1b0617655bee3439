---------------------------- MODULE OpcuaAdapter ----------------------------
(***************************************************************************)
(* adapters/opcua/client.py: the asyncio process that connects browsers    *)
(* (websocket), the MCS (OPC UA) and Redis.  Four tasks share one event    *)
(* loop: a handler per websocket fills cmd_queue, command_task drains it,  *)
(* opcua_task polls the MCS into redis_queue, publish_to_redis_task drains *)
(* that.  They run in one TaskGroup: an exception that leaves any of them  *)
(* ends the process, and the container is started again.                   *)
(*                                                                         *)
(* An action is the code between two awaits.  A websocket object is used   *)
(* once: a browser that reconnects gets another element of Conns.          *)
(***************************************************************************)
EXTENDS Integers, Sequences, FiniteSets

CONSTANTS
  Conns,          \* websocket objects
  CmdLists,       \* contents of a command message: sequences over CmdKinds
  CmdQueueSize,   \* cmd_queue's maxsize (128 in the code)
  RedisQueueSize, \* redis_queue's maxsize (128 in the code)
  BackendsFail,   \* may OPC UA and Redis calls raise?
  MaxSent,        \* bound: command messages per connection
  MaxPolls,       \* bound: telemetry polls
  MaxCrashes      \* bound: crashes after which the container is started again

\* "set" needs input_configs, the others use the OPC UA session.  "download"
\* stands for the commands whose result is added to the response, "load" for
\* those whose result is not (load_igniters, which returns None, is of the first).
CmdKinds == {"set", "load", "download"}

ASSUME SizesArePositive == /\ CmdQueueSize \in Nat \ {0}
                           /\ RedisQueueSize \in Nat \ {0}
ASSUME BoundsAreNat == MaxSent \in Nat /\ MaxPolls \in Nat /\ MaxCrashes \in Nat
ASSUME CmdListsAreLists == CmdLists \subseteq Seq(CmdKinds)
ASSUME BackendsFailIsBool == BackendsFail \in BOOLEAN

VARIABLES
  process,        \* "down", "connecting" (no OPC UA session yet) or "ready"
  wsState,        \* what the websocket library knows of each connection
  ws_connections, \* connections whose websocket_handler runs
  sent,           \* number of command messages each client has sent
  inbox,          \* messages received by the library, not yet by the handler
  cmd_queue,
  current,        \* the message command_task works on, or NoMsg
  pos,            \* the command of current to execute next
  resp,           \* the response list command_task is building
  replies,        \* replies sent on each connection
  accepted,       \* history: messages put in cmd_queue by this process
  applied,        \* history: commands this process executed on the MCS
  polled,         \* history: telemetry samples polled so far
  polledAtStart,  \* history: polled when this process started
  redis_queue,
  publishing,     \* the sample publish_to_redis_task has taken, or NoSample
  stream,         \* the Redis stream (survives the process)
  crashes         \* times the process has ended

connVars == <<wsState, ws_connections, sent, inbox>>
cmdVars == <<cmd_queue, current, pos, resp, replies, accepted, applied>>
dataVars == <<polled, polledAtStart, redis_queue, publishing, stream>>
vars == <<process, connVars, cmdVars, dataVars, crashes>>

NoMsg == [ticket |-> 0]
NoSample == 0

(* n numbers the messages of a connection, ticket those of the process: both are *)
(* ghosts, the code's queue entry is the pair (ws, msg).                         *)
Message == [ws : Conns, n : 1..MaxSent, cmds : CmdLists, ticket : Nat \ {0}]
Reply == [n : 1..MaxSent, cmds : CmdLists, entries : Nat]

Received == [n : 1..MaxSent, cmds : CmdLists]
Executed == [ticket : Nat \ {0}, pos : Nat \ {0}]
Sample == Nat \ {0}

ConnTypes ==
  /\ wsState \in [Conns -> {"unused", "open", "closed"}]
  /\ ws_connections \subseteq Conns
  /\ sent \in [Conns -> 0..MaxSent]
  /\ inbox \in [Conns -> Seq(Received)]

CmdTypes ==
  /\ cmd_queue \in Seq(Message)
  /\ Len(cmd_queue) <= CmdQueueSize
  /\ current \in Message \cup {NoMsg}
  /\ pos \in Nat \ {0}
  /\ resp \in Nat
  /\ replies \in [Conns -> Seq(Reply)]
  /\ accepted \in Nat
  /\ applied \in Seq(Executed)

DataTypes ==
  /\ polled \in Nat /\ polledAtStart \in Nat
  /\ redis_queue \in Seq(Sample)
  /\ Len(redis_queue) <= RedisQueueSize
  /\ publishing \in Sample \cup {NoSample}
  /\ stream \in Seq(Sample)

TypeOK ==
  /\ process \in {"down", "connecting", "ready"}
  /\ crashes \in Nat
  /\ ConnTypes /\ CmdTypes /\ DataTypes

Init ==
  /\ process = "down"
  /\ wsState = [c \in Conns |-> "unused"]
  /\ ws_connections = {}
  /\ sent = [c \in Conns |-> 0]
  /\ inbox = [c \in Conns |-> <<>>]
  /\ cmd_queue = <<>>
  /\ current = NoMsg /\ pos = 1 /\ resp = 0
  /\ replies = [c \in Conns |-> <<>>]
  /\ accepted = 0 /\ applied = <<>>
  /\ polled = 0 /\ polledAtStart = 0
  /\ redis_queue = <<>> /\ publishing = NoSample /\ stream = <<>>
  /\ crashes = 0

-----------------------------------------------------------------------------
(* Process life cycle. *)

\* The container starts client.py; parse_eq_config fills sequence_configs and
\* the tasks are created.  input_configs is still empty.
Start ==
  /\ process = "down"
  /\ crashes <= MaxCrashes
  /\ process' = "connecting"
  /\ polledAtStart' = polled
  /\ UNCHANGED <<connVars, cmdVars, polled, redis_queue, publishing, stream, crashes>>

\* opcua_task has its session: input_configs is filled and polling begins.
OpcuaConnected ==
  /\ process = "connecting"
  /\ process' = "ready"
  /\ UNCHANGED <<connVars, cmdVars, dataVars, crashes>>

\* An exception leaves a task: the TaskGroup cancels the others, the process
\* ends, its queues are gone and every websocket is closed.
Crash ==
  /\ crashes' = crashes + 1
  /\ process' = "down"
  /\ wsState' = [c \in Conns |-> IF wsState[c] = "open" THEN "closed" ELSE wsState[c]]
  /\ ws_connections' = {}
  /\ inbox' = [c \in Conns |-> <<>>]
  /\ cmd_queue' = <<>>
  /\ current' = NoMsg /\ pos' = 1 /\ resp' = 0
  /\ accepted' = 0 /\ applied' = <<>>
  /\ redis_queue' = <<>> /\ publishing' = NoSample
  /\ UNCHANGED <<sent, replies, polled, polledAtStart, stream>>

\* The OPC UA connection cannot be made or a node read by opcua_task raises.
OpcuaTaskFails ==
  /\ BackendsFail
  /\ process # "down"
  /\ Crash

-----------------------------------------------------------------------------
(* Websocket connections. *)

\* A browser connects: websocket_handler starts and registers the connection.
ClientConnect(c) ==
  /\ process # "down"
  /\ wsState[c] = "unused"
  /\ wsState' = [wsState EXCEPT ![c] = "open"]
  /\ ws_connections' = ws_connections \cup {c}
  /\ UNCHANGED <<process, sent, inbox, cmdVars, dataVars, crashes>>

\* A command message reaches the library's receive buffer.  Messages without
\* 'commands' (keepalives) only keep the timeout from expiring.
ClientSend(c) ==
  /\ wsState[c] = "open"
  /\ sent[c] < MaxSent
  /\ \E cmds \in CmdLists :
       inbox' = [inbox EXCEPT ![c] = Append(@, [n |-> sent[c] + 1, cmds |-> cmds])]
  /\ sent' = [sent EXCEPT ![c] = @ + 1]
  /\ UNCHANGED <<process, wsState, ws_connections, cmdVars, dataVars, crashes>>

\* The peer closes or vanishes and the library notices, before the handler does.
ClientClose(c) ==
  /\ wsState[c] = "open"
  /\ wsState' = [wsState EXCEPT ![c] = "closed"]
  /\ UNCHANGED <<process, ws_connections, sent, inbox, cmdVars, dataVars, crashes>>

\* The finally block: the handler ends, the library closes the connection.
HandlerEnds(c) ==
  /\ ws_connections' = ws_connections \ {c}
  /\ wsState' = [wsState EXCEPT ![c] = "closed"]
  /\ inbox' = [inbox EXCEPT ![c] = <<>>]
  /\ UNCHANGED <<process, sent, cmdVars, dataVars, crashes>>

CmdQueueHasRoom == Len(cmd_queue) < CmdQueueSize

\* recv returns a message and cmd_queue has room; what was received before the
\* peer closed is still delivered.
HandlerRecv(c) ==
  /\ c \in ws_connections
  /\ inbox[c] # <<>>
  /\ CmdQueueHasRoom
  /\ cmd_queue' = Append(cmd_queue,
                    [ws |-> c, n |-> Head(inbox[c]).n, cmds |-> Head(inbox[c]).cmds,
                     ticket |-> accepted + 1])
  /\ accepted' = accepted + 1
  /\ inbox' = [inbox EXCEPT ![c] = Tail(@)]
  /\ UNCHANGED <<process, wsState, ws_connections, sent,
                 current, pos, resp, replies, applied, dataVars, crashes>>

\* Mutant: QueueFull is caught, the message dropped and the connection kept.
MutantDropMessage(c) ==
  /\ c \in ws_connections
  /\ inbox[c] # <<>>
  /\ ~CmdQueueHasRoom
  /\ inbox' = [inbox EXCEPT ![c] = Tail(@)]
  /\ UNCHANGED <<process, wsState, ws_connections, sent, cmdVars, dataVars, crashes>>

\* put_nowait raises QueueFull, which only the finally block sees.
HandlerOverflow(c) ==
  /\ c \in ws_connections
  /\ inbox[c] # <<>>
  /\ ~CmdQueueHasRoom
  /\ HandlerEnds(c)

\* recv raises ConnectionClosed, or asyncio.timeout(4) expires.
HandlerClosedOrTimeout(c) ==
  /\ c \in ws_connections
  /\ inbox[c] = <<>>
  /\ HandlerEnds(c)

-----------------------------------------------------------------------------
(* command_task. *)

\* Mutant: the response list is created once, outside the loop.
MutantKeepResp ==
  /\ process # "down"
  /\ current = NoMsg
  /\ cmd_queue # <<>>
  /\ current' = Head(cmd_queue)
  /\ cmd_queue' = Tail(cmd_queue)
  /\ pos' = 1
  /\ UNCHANGED <<process, connVars, resp, replies, accepted, applied, dataVars, crashes>>

CommandGet ==
  /\ process # "down"
  /\ current = NoMsg
  /\ cmd_queue # <<>>
  /\ current' = Head(cmd_queue)
  /\ cmd_queue' = Tail(cmd_queue)
  /\ pos' = 1
  /\ resp' = 0
  /\ UNCHANGED <<process, connVars, replies, accepted, applied, dataVars, crashes>>

HasCommand == current # NoMsg /\ pos <= Len(current.cmds)

\* Mutant: a command is executed again after it went through.
MutantExecAgain ==
  /\ HasCommand
  /\ process = "ready"
  /\ applied' = Append(applied, [ticket |-> current.ticket, pos |-> pos])
  /\ resp' = IF current.cmds[pos] = "download" THEN resp + 1 ELSE resp
  /\ pos' \in {pos, pos + 1}
  /\ Len(applied) < 6
  /\ UNCHANGED <<process, connVars, cmd_queue, current, replies, accepted, dataVars, crashes>>

\* A handler runs to its end against the MCS.
CommandExec ==
  /\ HasCommand
  /\ process = "ready"
  /\ applied' = Append(applied, [ticket |-> current.ticket, pos |-> pos])
  /\ resp' = IF current.cmds[pos] = "download" THEN resp + 1 ELSE resp
  /\ pos' = pos + 1
  /\ UNCHANGED <<process, connVars, cmd_queue, current, replies, accepted, dataVars, crashes>>

\* input_configs is empty until the session is up: "unsupported command input
\* key" is printed and the command dropped.
CommandIgnored ==
  /\ HasCommand
  /\ process = "connecting"
  /\ current.cmds[pos] = "set"
  /\ pos' = pos + 1
  /\ UNCHANGED <<process, connVars, cmd_queue, current, resp, replies, accepted, applied,
                 dataVars, crashes>>

\* A handler uses the OPC UA client without a session, or the MCS call raises.
CommandRaises ==
  /\ HasCommand
  /\ \/ process = "connecting" /\ current.cmds[pos] # "set"
     \/ process = "ready" /\ BackendsFail
  /\ Crash

AllExecuted == current # NoMsg /\ pos > Len(current.cmds)

\* Mutant: nothing is sent unless every command produced an entry.
MutantSilentReply ==
  /\ AllExecuted
  /\ wsState[current.ws] = "open"
  /\ replies' = IF resp < Len(current.cmds) THEN replies
                ELSE [replies EXCEPT ![current.ws] = Append(@, [n |-> current.n,
                                            cmds |-> current.cmds, entries |-> resp])]
  /\ current' = NoMsg
  /\ UNCHANGED <<process, connVars, cmd_queue, pos, resp, accepted, applied, dataVars, crashes>>

\* await ws.send(json.dumps(resp)) on a live connection.
CommandReply ==
  /\ AllExecuted
  /\ wsState[current.ws] = "open"
  /\ replies' = [replies EXCEPT ![current.ws] = Append(@, [n |-> current.n, cmds |-> current.cmds,
                                                        entries |-> resp])]
  /\ current' = NoMsg
  /\ UNCHANGED <<process, connVars, cmd_queue, pos, resp, accepted, applied, dataVars, crashes>>

\* ws.send raises ConnectionClosed and nothing in command_task catches it.
CommandReplyFails ==
  /\ AllExecuted
  /\ wsState[current.ws] # "open"
  /\ Crash

-----------------------------------------------------------------------------
(* Telemetry: opcua_task and publish_to_redis_task. *)

Poll ==
  /\ process = "ready"
  /\ polled < MaxPolls
  /\ Len(redis_queue) < RedisQueueSize
  /\ polled' = polled + 1
  /\ redis_queue' = Append(redis_queue, polled + 1)
  /\ UNCHANGED <<process, connVars, cmdVars, polledAtStart, publishing, stream, crashes>>

\* Mutant: QueueFull is caught and the sample dropped.
MutantDropSample ==
  /\ process = "ready"
  /\ polled < MaxPolls
  /\ Len(redis_queue) >= RedisQueueSize
  /\ polled' = polled + 1
  /\ UNCHANGED <<process, connVars, cmdVars, polledAtStart, redis_queue, publishing, stream,
                 crashes>>

\* redis_queue.put_nowait raises QueueFull inside opcua_task.
PollOverflow ==
  /\ process = "ready"
  /\ polled < MaxPolls
  /\ Len(redis_queue) >= RedisQueueSize
  /\ Crash

PublishGet ==
  /\ process # "down"
  /\ publishing = NoSample
  /\ redis_queue # <<>>
  /\ publishing' = Head(redis_queue)
  /\ redis_queue' = Tail(redis_queue)
  /\ UNCHANGED <<process, connVars, cmdVars, polled, polledAtStart, stream, crashes>>

\* Mutant: a sample that was added is added again.
MutantXaddTwice ==
  /\ publishing # NoSample
  /\ stream' = stream \o <<publishing, publishing>>
  /\ publishing' = NoSample
  /\ UNCHANGED <<process, connVars, cmdVars, polled, polledAtStart, redis_queue, crashes>>

PublishXadd ==
  /\ publishing # NoSample
  /\ stream' = Append(stream, publishing)
  /\ publishing' = NoSample
  /\ UNCHANGED <<process, connVars, cmdVars, polled, polledAtStart, redis_queue, crashes>>

PublishRaises ==
  /\ publishing # NoSample
  /\ BackendsFail
  /\ Crash

-----------------------------------------------------------------------------
Command == CommandGet \/ CommandExec \/ CommandIgnored \/ CommandRaises
             \/ CommandReply \/ CommandReplyFails
Publish == PublishGet \/ PublishXadd \/ PublishRaises

Next ==
  \/ Start \/ OpcuaConnected \/ OpcuaTaskFails
  \/ \E c \in Conns :
       \/ ClientConnect(c) \/ ClientSend(c) \/ ClientClose(c)
       \/ HandlerRecv(c) \/ HandlerOverflow(c) \/ HandlerClosedOrTimeout(c)
  \/ CommandGet \/ CommandExec \/ CommandIgnored \/ CommandRaises
  \/ CommandReply \/ CommandReplyFails
  \/ Poll \/ PollOverflow
  \/ PublishGet \/ PublishXadd \/ PublishRaises

Spec == Init /\ [][Next]_vars

(* The event loop gives every runnable task its turn, OPC UA and Redis calls *)
(* return or raise, and a closed connection wakes its handler.  Clients and  *)
(* polls are not forced, and neither is a timeout.                           *)
FairSpec ==
  /\ Spec
  /\ WF_vars(Command)
  /\ WF_vars(Publish)
  /\ \A c \in Conns : WF_vars(HandlerRecv(c) \/ HandlerOverflow(c))
-----------------------------------------------------------------------------
(* Properties. *)

\* The i-th reply on a connection answers the i-th command message its client
\* sent (client.py 168-204, 865-885).  Replies carry no id: the browser's
\* SequenceTable can only match them by counting.
ReplyOrder == \A c \in Conns : \A i \in DOMAIN replies[c] : replies[c][i].n = i

Downloads(cmds, k) == Cardinality({i \in 1..k : cmds[i] = "download"})

\* A reply has one entry for each download of its own message and none of
\* another's, whatever was dropped, ignored or raised before (client.py 172-204).
ReplyEntries ==
  \A c \in Conns : \A i \in DOMAIN replies[c] :
    LET r == replies[c][i] IN r.entries = Downloads(r.cmds, Len(r.cmds))

\* The MCS sees the commands of one process in the order the messages were
\* queued, the commands of a message together, none twice (client.py 168-202).
AppliedInOrder ==
  \A i, j \in DOMAIN applied : i < j =>
    \/ applied[i].ticket < applied[j].ticket
    \/ /\ applied[i].ticket = applied[j].ticket
       /\ applied[i].pos < applied[j].pos

\* Every sample polled since the process started is in the stream or on its way
\* there: back-pressure ends the process, it never drops a sample silently
\* (client.py 116-160, 907-916).
NoSampleLost ==
  process # "down" =>
    \A k \in polledAtStart + 1 .. polled :
      \/ \E i \in DOMAIN stream : stream[i] = k
      \/ publishing = k
      \/ \E i \in DOMAIN redis_queue : redis_queue[i] = k

\* The stream holds samples in the order they were polled, none twice, also
\* across restarts (client.py 907-916).
StreamInOrder == \A i, j \in DOMAIN stream : i < j => stream[i] < stream[j]

\* A message in cmd_queue is answered, unless its connection or the process ends
\* first: nothing is forgotten in the queue (client.py 168-204).
AcceptedIsAnswered ==
  \A c \in Conns : \A k \in 1..MaxSent :
    (\E i \in DOMAIN cmd_queue : cmd_queue[i].ws = c /\ cmd_queue[i].n = k)
      ~> (Len(replies[c]) >= k \/ wsState[c] = "closed" \/ process = "down")

\* While OPC UA and Redis answer and their queue has room, no browser takes the
\* adapter down (README.md 256: "EX-UI must work reliably").
AdapterSurvives == crashes = 0
=============================================================================
