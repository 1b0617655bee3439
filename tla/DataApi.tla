------------------------------- MODULE DataApi -------------------------------
(***************************************************************************)
(* BackendAPI/DATA/main.py: the asyncio process that follows the Redis     *)
(* streams of all data sources and sends what it reads, and a keepalive,   *)
(* to every browser.  Each browser has a bounded queue, filled by put      *)
(* tasks nobody awaits and drained by its websocket_handler.               *)
(*                                                                         *)
(* An action is the code between two awaits.  A put that finds its queue   *)
(* full joins the queue's putters; each get wakes one of them, which then  *)
(* runs behind the tasks that are ready already (asyncio.Queue).           *)
(***************************************************************************)
EXTENDS Integers, Sequences, FiniteSets

CONSTANTS
  Streams,    \* the streams of the data sources
  Conns,      \* websocket objects, each used once
  QueueSize,  \* a queue's maxsize (128 in the code)
  MaxEntries, \* bound: entries the adapters add, per stream
  MaxBacklog  \* bound: no keepalive is put behind that many messages

ASSUME QueueSizeAssumption == QueueSize \in Nat \ {0}
ASSUME BoundsAreNat == MaxEntries \in Nat /\ MaxBacklog \in Nat

VARIABLES
  stream,         \* Redis: number of entries of each stream, its last id
  up,             \* does the process run?
  redis_streams,  \* the id after which to read, or Last ('$')
  reading,        \* is an xread under way?
  from,           \* its ids, Last replaced by what it was at the call; 0 without one
  fetched,        \* history: ids read by this process, per stream
  packets,        \* history: packets made by this process
  wsState,        \* what the websocket library knows of each connection
  ws_connections, \* connections whose websocket_handler runs
  ready, putters, \* per connection: puts to run, puts waiting for room
  queue,          \* per connection
  sending,        \* what the handler sends, or Idle
  received,       \* packets that were sent, while the handler runs
  due,            \* history: packets made since the handler has run
  overflowed      \* history: connections whose queue was full for a put

redisVars == <<redis_streams, reading, from, fetched, packets>>
connVars == <<wsState, ws_connections>>
queueVars == <<ready, putters, queue, sending, received, due, overflowed>>
vars == <<stream, up, redisVars, connVars, queueVars>>

Last == -1
Idle == -1
Keepalive == 0
Messages == Nat
Empty == [c \in Conns |-> <<>>]

Init ==
  /\ stream = [s \in Streams |-> 0]
  /\ up = TRUE /\ reading = FALSE
  /\ redis_streams = [s \in Streams |-> Last]
  /\ from = [s \in Streams |-> 0]
  /\ fetched = [s \in Streams |-> <<>>]
  /\ packets = 0
  /\ wsState = [c \in Conns |-> "unused"] /\ ws_connections = {}
  /\ ready = Empty /\ putters = Empty /\ queue = Empty
  /\ sending = [c \in Conns |-> Idle]
  /\ received = Empty /\ due = [c \in Conns |-> {}] /\ overflowed = {}

-----------------------------------------------------------------------------
\* An adapter adds an entry (module OpcuaAdapter's PublishXadd).
Xadd(s) ==
  /\ stream[s] < MaxEntries
  /\ stream' = [stream EXCEPT ![s] = @ + 1]
  /\ UNCHANGED <<up, redisVars, connVars, queueVars>>

\* A put task for every queue, not awaited.
Broadcast(m) ==
  ready' = [c \in Conns |-> IF c \in ws_connections THEN Append(ready[c], m) ELSE ready[c]]

\* Mutant: the puts are awaited before the next read.
MutantXreadCall ==
  /\ up /\ ~reading
  /\ ready = Empty /\ putters = Empty
  /\ reading' = TRUE
  /\ from' = [s \in Streams |-> IF redis_streams[s] = Last THEN stream[s] ELSE redis_streams[s]]
  /\ UNCHANGED <<stream, up, redis_streams, fetched, packets, connVars, queueVars>>

XreadCall ==
  /\ up /\ ~reading
  /\ reading' = TRUE
  /\ from' = [s \in Streams |-> IF redis_streams[s] = Last THEN stream[s] ELSE redis_streams[s]]
  /\ UNCHANGED <<stream, up, redis_streams, fetched, packets, connVars, queueVars>>

NewIn(s) == from[s] < stream[s]
Entries(s) == [i \in 1..stream[s] - from[s] |-> from[s] + i]

\* Mutant: the id a stream was first read at is kept.
MutantSaveIds(read) ==
  redis_streams' = [s \in Streams |-> IF s \in read /\ redis_streams[s] = Last THEN stream[s]
                                      ELSE redis_streams[s]]

SaveIds(read) ==
  redis_streams' = [s \in Streams |-> IF s \in read THEN stream[s] ELSE redis_streams[s]]

\* Some streams have new entries: all of these make one packet.
XreadReturns(read) ==
  /\ reading
  /\ read # {} /\ \A s \in read : NewIn(s)
  /\ reading' = FALSE /\ from' = [s \in Streams |-> 0]
  /\ SaveIds(read)
  /\ fetched' = [s \in Streams |-> IF s \in read THEN fetched[s] \o Entries(s) ELSE fetched[s]]
  /\ packets' = packets + 1
  /\ Broadcast(packets')
  /\ due' = [c \in Conns |-> IF c \in ws_connections THEN due[c] \cup {packets'} ELSE due[c]]
  /\ UNCHANGED <<stream, up, connVars, putters, queue, sending, received, overflowed>>

\* Nothing new within 100 ms.
XreadEmpty ==
  /\ reading
  /\ \A s \in Streams : ~NewIn(s)
  /\ reading' = FALSE /\ from' = [s \in Streams |-> 0]
  /\ UNCHANGED <<stream, up, redis_streams, fetched, packets, connVars, queueVars>>

\* xread raises, or a value is not a number: the TaskGroup and the process end,
\* its memory is gone and every websocket closed.
RedisTaskFails ==
  /\ up /\ reading
  /\ up' = FALSE /\ reading' = FALSE /\ from' = [s \in Streams |-> 0]
  /\ wsState' = [c \in Conns |-> IF wsState[c] = "open" THEN "closed" ELSE wsState[c]]
  /\ ws_connections' = {}
  /\ ready' = Empty /\ putters' = Empty /\ queue' = Empty
  /\ sending' = [c \in Conns |-> Idle]
  /\ received' = Empty /\ due' = [c \in Conns |-> {}] /\ overflowed' = {}
  /\ redis_streams' = [s \in Streams |-> Last]
  /\ fetched' = [s \in Streams |-> <<>>] /\ packets' = 0
  /\ UNCHANGED stream

\* The container starts main.py again: every stream is followed from '$'.
Start ==
  /\ ~up
  /\ up' = TRUE
  /\ UNCHANGED <<stream, redisVars, connVars, queueVars>>

-----------------------------------------------------------------------------
Backlog(c) == Len(ready[c]) + Len(putters[c]) + Len(queue[c])

\* Mutant: the puts are awaited before the next keepalive.
MutantSendKeepalive ==
  /\ up
  /\ ready = Empty /\ putters = Empty
  /\ ready' = [c \in Conns |-> IF c \in ws_connections /\ Backlog(c) < MaxBacklog
                               THEN Append(ready[c], Keepalive) ELSE ready[c]]
  /\ UNCHANGED <<stream, up, redisVars, connVars, putters, queue, sending, received, due,
                 overflowed>>

\* websocket_task's turn, every 0.5 s.
SendKeepalive ==
  /\ up
  /\ ready' = [c \in Conns |-> IF c \in ws_connections /\ Backlog(c) < MaxBacklog
                               THEN Append(ready[c], Keepalive) ELSE ready[c]]
  /\ UNCHANGED <<stream, up, redisVars, connVars, putters, queue, sending, received, due,
                 overflowed>>

\* A browser connects: its handler registers its queue and waits for a message.
ClientConnect(c) ==
  /\ up /\ wsState[c] = "unused"
  /\ wsState' = [wsState EXCEPT ![c] = "open"]
  /\ ws_connections' = ws_connections \cup {c}
  /\ UNCHANGED <<stream, up, redisVars, queueVars>>

\* The peer closes, or does not answer the library's pings.
ClientClose(c) ==
  /\ wsState[c] = "open"
  /\ wsState' = [wsState EXCEPT ![c] = "closed"]
  /\ UNCHANGED <<stream, up, redisVars, ws_connections, queueVars>>

HasRoom(c) == Len(queue[c]) < QueueSize

\* The next put task of the queue runs.
Put(c) ==
  /\ ready[c] # <<>>
  /\ HasRoom(c)
  /\ queue' = [queue EXCEPT ![c] = Append(@, Head(ready[c]))]
  /\ ready' = [ready EXCEPT ![c] = Tail(@)]
  /\ UNCHANGED <<stream, up, redisVars, connVars, putters, sending, received, due, overflowed>>

\* Mutant: put_nowait, its QueueFull caught.
MutantPutWaits(c) ==
  /\ ready[c] # <<>>
  /\ ~HasRoom(c)
  /\ ready' = [ready EXCEPT ![c] = Tail(@)]
  /\ UNCHANGED <<stream, up, redisVars, connVars, putters, queue, sending, received, due, overflowed>>

PutWaits(c) ==
  /\ ready[c] # <<>>
  /\ ~HasRoom(c)
  /\ putters' = [putters EXCEPT ![c] = Append(@, Head(ready[c]))]
  /\ ready' = [ready EXCEPT ![c] = Tail(@)]
  /\ overflowed' = overflowed \cup {c}
  /\ UNCHANGED <<stream, up, redisVars, connVars, queue, sending, received, due>>

\* Mutant: a message stays at the head of the queue.
MutantGet(c) ==
  /\ c \in ws_connections /\ sending[c] = Idle
  /\ queue[c] # <<>>
  /\ sending' = [sending EXCEPT ![c] = Head(queue[c])]
  /\ UNCHANGED <<stream, up, redisVars, connVars, ready, putters, queue, received, due, overflowed>>

\* get wakes the first putter.
Get(c) ==
  /\ c \in ws_connections /\ sending[c] = Idle
  /\ queue[c] # <<>>
  /\ sending' = [sending EXCEPT ![c] = Head(queue[c])]
  /\ queue' = [queue EXCEPT ![c] = Tail(@)]
  /\ IF putters[c] = <<>> THEN UNCHANGED <<ready, putters>>
     ELSE /\ ready' = [ready EXCEPT ![c] = Append(@, Head(putters[c]))]
          /\ putters' = [putters EXCEPT ![c] = Tail(@)]
  /\ UNCHANGED <<stream, up, redisVars, connVars, received, due, overflowed>>

SendReturns(c) ==
  /\ sending[c] # Idle /\ wsState[c] = "open"
  /\ received' = [received EXCEPT ![c] = IF sending[c] = Keepalive THEN @ ELSE Append(@, sending[c])]
  /\ sending' = [sending EXCEPT ![c] = Idle]
  /\ UNCHANGED <<stream, up, redisVars, connVars, ready, putters, queue, due, overflowed>>

\* ws.send raises: the handler ends and its queue goes, with what waits for it.
SendRaises(c) ==
  /\ sending[c] # Idle /\ wsState[c] = "closed"
  /\ ws_connections' = ws_connections \ {c}
  /\ sending' = [sending EXCEPT ![c] = Idle]
  /\ ready' = [ready EXCEPT ![c] = <<>>] /\ putters' = [putters EXCEPT ![c] = <<>>]
  /\ queue' = [queue EXCEPT ![c] = <<>>]
  /\ received' = [received EXCEPT ![c] = <<>>] /\ due' = [due EXCEPT ![c] = {}]
  /\ overflowed' = overflowed \ {c}
  /\ UNCHANGED <<stream, up, redisVars, wsState>>

-----------------------------------------------------------------------------
Next ==
  \/ \E s \in Streams : Xadd(s)
  \/ XreadCall \/ (\E read \in SUBSET Streams : XreadReturns(read)) \/ XreadEmpty
  \/ RedisTaskFails \/ Start \/ SendKeepalive
  \/ \E c \in Conns :
       \/ ClientConnect(c) \/ ClientClose(c)
       \/ Put(c) \/ PutWaits(c) \/ Get(c) \/ SendReturns(c) \/ SendRaises(c)

Spec == Init /\ [][Next]_vars

(* Every task gets its turn and Redis answers.  Nobody is obliged to receive:  *)
(* there is no fairness for SendReturns.                                       *)
FairSpec ==
  /\ Spec
  /\ WF_vars(XreadCall) /\ WF_vars(\E read \in SUBSET Streams : XreadReturns(read))
  /\ WF_vars(XreadEmpty)
  /\ WF_vars(SendKeepalive)
  /\ \A c \in Conns : WF_vars(Put(c) \/ PutWaits(c)) /\ WF_vars(Get(c)) /\ WF_vars(SendRaises(c))

-----------------------------------------------------------------------------
\* From the first entry it reads of a stream, a process reads every entry, once
\* and in order, whatever is added while it does not read (main.py 91-105).
FetchedWithoutGap ==
  \A s \in Streams : \A i \in 2..Len(fetched[s]) : fetched[s][i] = fetched[s][i - 1] + 1

\* A browser gets each packet at most once, and in the order they were made as
\* long as its queue has always had room (main.py 33-57, 121).
InOrderUnlessFull ==
  \A c \in Conns : \A i, j \in DOMAIN received[c] :
    i < j => /\ received[c][i] # received[c][j]
             /\ c \notin overflowed => received[c][i] < received[c][j]

InSeq(m, s) == \E i \in DOMAIN s : s[i] = m

\* While a browser is connected no packet made since is lost, whether its queue
\* was full or not: it was sent or is under way (main.py 33-57, 121).
NoPacketLost ==
  \A c \in ws_connections : \A m \in due[c] :
    \/ InSeq(m, received[c]) \/ sending[c] = m
    \/ InSeq(m, queue[c]) \/ InSeq(m, ready[c]) \/ InSeq(m, putters[c])

\* A handler whose connection is gone ends, though it only waits for its queue
\* and other browsers may not receive at all (main.py 41-57, 66-77).
ClosedIsRemoved == \A c \in Conns : wsState[c] = "closed" ~> c \notin ws_connections

\* What is added to a stream that has been read from is read, however many
\* browsers do not receive (main.py 93-121).
NewIsFetched ==
  \A s \in Streams, i \in 1..MaxEntries :
    (up /\ redis_streams[s] # Last /\ stream[s] = i) ~> (~up \/ redis_streams[s] >= i)
=============================================================================
