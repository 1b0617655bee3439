------------------------- MODULE OpcuaAdapter_proofs -------------------------
(* Theorems about OpcuaAdapter for every set of connections, command lists,    *)
(* queue sizes and bounds.                                                     *)
EXTENDS OpcuaAdapter, TLAPS, FiniteSetTheorems

(* The number of the last message of c that its handler has queued. *)
Queued(c) == sent[c] - Len(inbox[c])

Pending(c, m) ==
  \/ current # NoMsg /\ current.ws = c /\ current.n = m
  \/ \E i \in DOMAIN cmd_queue : cmd_queue[i].ws = c /\ cmd_queue[i].n = m

(* What is waiting for c, in the receive buffer and in cmd_queue, continues the *)
(* numbering of the replies already sent.                                       *)
InboxNumbered ==
  \A c \in Conns : \A i \in DOMAIN inbox[c] : inbox[c][i].n = Queued(c) + i

CurrentIsNext == current # NoMsg => current.n = Len(replies[current.ws]) + 1

QueueAscends ==
  \A i \in DOMAIN cmd_queue :
    /\ cmd_queue[i].n > Len(replies[cmd_queue[i].ws])
    /\ current # NoMsg /\ current.ws = cmd_queue[i].ws => cmd_queue[i].n > current.n
    /\ \A j \in 1..i-1 : cmd_queue[j].ws = cmd_queue[i].ws => cmd_queue[j].n < cmd_queue[i].n

NoGapBefore(queue, cur, answered, i) ==
  \A m \in answered + 1 .. queue[i].n - 1 :
    \/ cur # NoMsg /\ cur.ws = queue[i].ws /\ cur.n = m
    \/ \E j \in 1..i-1 : queue[j].ws = queue[i].ws /\ queue[j].n = m

QueueHasNoGap ==
  \A i \in DOMAIN cmd_queue :
    NoGapBefore(cmd_queue, current, Len(replies[cmd_queue[i].ws]), i)

HandlerContinues ==
  \A c \in ws_connections :
    /\ Len(replies[c]) <= Queued(c)
    /\ \A m \in 1..MaxSent : Pending(c, m) <=> m \in Len(replies[c]) + 1 .. Queued(c)

UnusedIsFresh ==
  \A c \in Conns : wsState[c] = "unused" =>
    /\ sent[c] = 0 /\ inbox[c] = <<>> /\ replies[c] = <<>>
    /\ \A m \in 1..MaxSent : ~Pending(c, m)

ReplyInv ==
  /\ ReplyOrder /\ InboxNumbered /\ CurrentIsNext
  /\ QueueAscends /\ QueueHasNoGap /\ HandlerContinues /\ UnusedIsFresh

(* Tickets are handed out and taken one by one. *)
TicketInv ==
  /\ AppliedInOrder
  /\ Len(cmd_queue) <= accepted
  /\ \A i \in DOMAIN cmd_queue : cmd_queue[i].ticket = accepted - Len(cmd_queue) + i
  /\ current # NoMsg => current.ticket = accepted - Len(cmd_queue)
  /\ \A i \in DOMAIN applied :
       /\ applied[i].ticket <= accepted - Len(cmd_queue)
       /\ current # NoMsg /\ applied[i].ticket = current.ticket => applied[i].pos < pos

(* Samples pass queue and publisher one by one. *)
SampleInv ==
  /\ StreamInOrder
  /\ Len(redis_queue) <= polled
  /\ \A i \in DOMAIN redis_queue : redis_queue[i] = polled - Len(redis_queue) + i
  /\ publishing # NoSample => publishing = polled - Len(redis_queue)
  /\ \A i \in DOMAIN stream :
       /\ stream[i] <= polled - Len(redis_queue)
       /\ publishing # NoSample => stream[i] < publishing
  /\ NoSampleLost
-----------------------------------------------------------------------------
(* What the queues are made of. *)
LEMMA AppendFacts ==
  ASSUME NEW S, NEW s \in Seq(S), NEW e \in S
  PROVE  /\ Append(s, e) \in Seq(S)
         /\ Len(Append(s, e)) = Len(s) + 1
         /\ \A i \in 1..Len(s) : Append(s, e)[i] = s[i]
         /\ Append(s, e)[Len(s) + 1] = e
OBVIOUS

LEMMA HeadTailFacts ==
  ASSUME NEW S, NEW s \in Seq(S), s # <<>>
  PROVE  /\ Head(s) \in S /\ Head(s) = s[1]
         /\ Tail(s) \in Seq(S)
         /\ Len(s) \in Nat \ {0}
         /\ Len(Tail(s)) = Len(s) - 1
         /\ \A i \in 1..Len(s) - 1 : Tail(s)[i] = s[i + 1]
OBVIOUS

-----------------------------------------------------------------------------
(* Every reachable state is well typed; in particular cmd_queue and redis_queue *)
(* stay within their sizes (client.py 31-35).                                   *)
THEOREM TypeCorrect == Spec => []TypeOK
<1> USE SizesArePositive, BoundsAreNat
<1>1. Init => TypeOK
  BY DEF Init, TypeOK, ConnTypes, CmdTypes, DataTypes, NoMsg, NoSample
<1>2. TypeOK /\ [Next]_vars => TypeOK'
  <2> SUFFICES ASSUME TypeOK, [Next]_vars
               PROVE  TypeOK'
    OBVIOUS
  <2>a. UNCHANGED connVars => ConnTypes'
    BY DEF TypeOK, ConnTypes, connVars
  <2>b. UNCHANGED cmdVars => CmdTypes'
    BY DEF TypeOK, CmdTypes, cmdVars
  <2>c. UNCHANGED dataVars => DataTypes'
    BY DEF TypeOK, DataTypes, dataVars
  <2>d. ASSUME NEW c \in Conns, HandlerEnds(c) PROVE TypeOK'
    <3>1. ConnTypes'
      <4>1. <<>> \in Seq(Received)
        OBVIOUS
      <4>2. inbox' \in [Conns -> Seq(Received)]
        BY <2>d, <4>1 DEF HandlerEnds, TypeOK, ConnTypes
      <4>3. QED
        BY <2>d, <4>2 DEF HandlerEnds, TypeOK, ConnTypes
    <3>2. QED
      BY <2>b, <2>c, <2>d, <3>1 DEF HandlerEnds, TypeOK
  <2>e. Crash => TypeOK'
    <3> SUFFICES ASSUME Crash PROVE TypeOK'
      OBVIOUS
    <3>1. ConnTypes'
      <4>1. <<>> \in Seq(Received)
        OBVIOUS
      <4>2. inbox' \in [Conns -> Seq(Received)]
        BY <4>1 DEF Crash
      <4>3. wsState' \in [Conns -> {"unused", "open", "closed"}]
        BY DEF Crash, TypeOK, ConnTypes
      <4>4. QED
        BY <4>2, <4>3 DEF Crash, TypeOK, ConnTypes
    <3>2. CmdTypes'
      BY DEF Crash, TypeOK, CmdTypes
    <3>3. DataTypes'
      BY DEF Crash, TypeOK, DataTypes, NoSample
    <3>4. QED
      BY <3>1, <3>2, <3>3 DEF Crash, TypeOK
  <2>1. CASE Start
    <3>1. DataTypes'
      BY <2>1 DEF Start, TypeOK, DataTypes
    <3>2. QED
      BY <2>1, <2>a, <2>b, <3>1 DEF Start, TypeOK
  <2>2. CASE OpcuaConnected
    BY <2>2, <2>a, <2>b, <2>c DEF OpcuaConnected, TypeOK
  <2>3. CASE OpcuaTaskFails
    BY <2>3, <2>e DEF OpcuaTaskFails
  <2>4. ASSUME NEW c \in Conns, ClientConnect(c) PROVE TypeOK'
    <3>1. ConnTypes'
      BY <2>4 DEF ClientConnect, TypeOK, ConnTypes
    <3>2. QED
      BY <2>4, <2>b, <2>c, <3>1 DEF ClientConnect, TypeOK
  <2>5. ASSUME NEW c \in Conns, ClientSend(c) PROVE TypeOK'
    <3>1. PICK cmds \in CmdLists :
            inbox' = [inbox EXCEPT ![c] = Append(inbox[c], [n |-> sent[c] + 1, cmds |-> cmds])]
      BY <2>5 DEF ClientSend
    <3>2. sent[c] + 1 \in 1..MaxSent
      BY <2>5 DEF ClientSend, TypeOK, ConnTypes
    <3>a. [n |-> sent[c] + 1, cmds |-> cmds] \in Received
      BY <3>2 DEF Received
    <3>3. Append(inbox[c], [n |-> sent[c] + 1, cmds |-> cmds]) \in Seq(Received)
      BY <3>a, AppendFacts DEF TypeOK, ConnTypes
    <3>4. inbox' \in [Conns -> Seq(Received)]
      BY <3>1, <3>3 DEF TypeOK, ConnTypes
    <3>b. sent' \in [Conns -> 0..MaxSent]
      BY <2>5, <3>2 DEF ClientSend, TypeOK, ConnTypes
    <3>5. ConnTypes'
      BY <2>5, <3>4, <3>b DEF ClientSend, TypeOK, ConnTypes
    <3>6. QED
      BY <2>5, <2>b, <2>c, <3>5 DEF ClientSend, TypeOK
  <2>6. ASSUME NEW c \in Conns, ClientClose(c) PROVE TypeOK'
    <3>1. ConnTypes'
      BY <2>6 DEF ClientClose, TypeOK, ConnTypes
    <3>2. QED
      BY <2>6, <2>b, <2>c, <3>1 DEF ClientClose, TypeOK
  <2>7. ASSUME NEW c \in Conns, HandlerRecv(c) PROVE TypeOK'
    <3> DEFINE h == Head(inbox[c])
               m == [ws |-> c, n |-> h.n, cmds |-> h.cmds, ticket |-> accepted + 1]
    <3>1. h \in Received /\ Tail(inbox[c]) \in Seq(Received)
      BY <2>7, HeadTailFacts DEF HandlerRecv, TypeOK, ConnTypes
    <3>2. accepted + 1 \in Nat \ {0}
      BY DEF TypeOK, CmdTypes
    <3>3. m \in Message
      BY <3>1, <3>2 DEF Message, Received
    <3>4. cmd_queue' = Append(cmd_queue, m)
      BY <2>7 DEF HandlerRecv
    <3> HIDE DEF m, h
    <3>5. cmd_queue' \in Seq(Message) /\ Len(cmd_queue') <= CmdQueueSize
      BY <2>7, <3>3, <3>4, AppendFacts DEF HandlerRecv, CmdQueueHasRoom, TypeOK, CmdTypes
    <3>6. CmdTypes'
      BY <2>7, <3>2, <3>5 DEF HandlerRecv, TypeOK, CmdTypes
    <3>7. ConnTypes'
      BY <2>7, <3>1 DEF HandlerRecv, TypeOK, ConnTypes
    <3>8. QED
      BY <2>7, <2>c, <3>6, <3>7 DEF HandlerRecv, TypeOK
  <2>8. ASSUME NEW c \in Conns, HandlerOverflow(c) PROVE TypeOK'
    BY <2>8, <2>d DEF HandlerOverflow
  <2>9. ASSUME NEW c \in Conns, HandlerClosedOrTimeout(c) PROVE TypeOK'
    BY <2>9, <2>d DEF HandlerClosedOrTimeout
  <2>10. CASE CommandGet
    <3>1. /\ current' \in Message
          /\ cmd_queue' \in Seq(Message)
          /\ Len(cmd_queue') <= CmdQueueSize
      BY <2>10, HeadTailFacts DEF CommandGet, TypeOK, CmdTypes
    <3>2. CmdTypes'
      BY <2>10, <3>1 DEF CommandGet, TypeOK, CmdTypes
    <3>3. QED
      BY <2>10, <2>a, <2>c, <3>2 DEF CommandGet, TypeOK
  <2>11. CASE CommandExec
    <3> DEFINE e == [ticket |-> current.ticket, pos |-> pos]
    <3>1. e \in Executed
      BY <2>11 DEF CommandExec, HasCommand, TypeOK, CmdTypes, Message, Executed
    <3>2. applied' = Append(applied, e)
      BY <2>11 DEF CommandExec
    <3> HIDE DEF e
    <3>3. applied' \in Seq(Executed)
      BY <3>1, <3>2, AppendFacts DEF TypeOK, CmdTypes
    <3>4. resp' \in Nat /\ pos' \in Nat \ {0}
      BY <2>11 DEF CommandExec, TypeOK, CmdTypes
    <3>5. CmdTypes'
      BY <2>11, <3>3, <3>4 DEF CommandExec, TypeOK, CmdTypes
    <3>6. QED
      BY <2>11, <2>a, <2>c, <3>5 DEF CommandExec, TypeOK
  <2>12. CASE CommandIgnored
    <3>1. pos' \in Nat \ {0}
      BY <2>12 DEF CommandIgnored, TypeOK, CmdTypes
    <3>2. CmdTypes'
      BY <2>12, <3>1 DEF CommandIgnored, TypeOK, CmdTypes
    <3>3. QED
      BY <2>12, <2>a, <2>c, <3>2 DEF CommandIgnored, TypeOK
  <2>13. CASE CommandRaises
    BY <2>13, <2>e DEF CommandRaises
  <2>14. CASE CommandReply
    <3> DEFINE r == [n |-> current.n, cmds |-> current.cmds, entries |-> resp]
    <3>1. current \in Message
      BY <2>14 DEF CommandReply, AllExecuted, TypeOK, CmdTypes
    <3>2. current.ws \in Conns /\ r \in Reply
      BY <3>1 DEF Message, Reply, TypeOK, CmdTypes
    <3>3. replies' = [replies EXCEPT ![current.ws] = Append(replies[current.ws], r)]
      BY <2>14 DEF CommandReply
    <3> HIDE DEF r
    <3>4. Append(replies[current.ws], r) \in Seq(Reply)
      BY <3>2, AppendFacts DEF TypeOK, CmdTypes
    <3>5. replies' \in [Conns -> Seq(Reply)]
      BY <3>2, <3>3, <3>4 DEF TypeOK, CmdTypes
    <3>6. CmdTypes'
      BY <2>14, <3>5 DEF CommandReply, TypeOK, CmdTypes
    <3>7. QED
      BY <2>14, <2>a, <2>c, <3>6 DEF CommandReply, TypeOK
  <2>15. CASE CommandReplyFails
    BY <2>15, <2>e DEF CommandReplyFails
  <2>16. CASE Poll
    <3>1. polled + 1 \in Sample
      BY DEF TypeOK, DataTypes, Sample
    <3>2. redis_queue' \in Seq(Sample) /\ Len(redis_queue') <= RedisQueueSize
      BY <2>16, <3>1, AppendFacts DEF Poll, TypeOK, DataTypes
    <3>3. DataTypes'
      BY <2>16, <3>1, <3>2 DEF Poll, TypeOK, DataTypes, Sample
    <3>4. QED
      BY <2>16, <2>a, <2>b, <3>3 DEF Poll, TypeOK
  <2>17. CASE PollOverflow
    BY <2>17, <2>e DEF PollOverflow
  <2>18. CASE PublishGet
    <3>1. /\ publishing' \in Sample
          /\ redis_queue' \in Seq(Sample)
          /\ Len(redis_queue') <= RedisQueueSize
      BY <2>18, HeadTailFacts DEF PublishGet, TypeOK, DataTypes
    <3>2. DataTypes'
      BY <2>18, <3>1 DEF PublishGet, TypeOK, DataTypes
    <3>3. QED
      BY <2>18, <2>a, <2>b, <3>2 DEF PublishGet, TypeOK
  <2>19. CASE PublishXadd
    <3>1. stream' \in Seq(Sample)
      BY <2>19, AppendFacts DEF PublishXadd, TypeOK, DataTypes
    <3>2. DataTypes'
      BY <2>19, <3>1 DEF PublishXadd, TypeOK, DataTypes
    <3>3. QED
      BY <2>19, <2>a, <2>b, <3>2 DEF PublishXadd, TypeOK
  <2>20. CASE PublishRaises
    BY <2>20, <2>e DEF PublishRaises
  <2>21. CASE UNCHANGED vars
    BY <2>21, <2>a, <2>b, <2>c DEF vars, connVars, cmdVars, dataVars, TypeOK
  <2>22. QED
    BY <2>1, <2>2, <2>3, <2>4, <2>5, <2>6, <2>7, <2>8, <2>9, <2>10, <2>11, <2>12,
       <2>13, <2>14, <2>15, <2>16, <2>17, <2>18, <2>19, <2>20, <2>21 DEF Next
<1>3. QED
  BY <1>1, <1>2, PTL DEF Spec

-----------------------------------------------------------------------------
(* Telemetry: the Redis stream holds the samples in order, and everything polled *)
(* since the process started is in it or on its way (client.py 116-160, 907-916). *)
LEMMA SampleStep == TypeOK /\ SampleInv /\ [Next]_vars => SampleInv'
<1> SUFFICES ASSUME TypeOK, SampleInv, [Next]_vars
             PROVE  SampleInv'
  OBVIOUS
<1> USE DEF NoSample
<1>s. redis_queue \in Seq(Sample) /\ stream \in Seq(Sample)
  BY DEF TypeOK, DataTypes
<1>a. polled \in Nat /\ polledAtStart \in Nat /\ publishing \in Nat
  BY DEF TypeOK, DataTypes, Sample
<1>b. /\ Len(redis_queue) \in Nat /\ DOMAIN redis_queue = 1..Len(redis_queue)
      /\ Len(stream) \in Nat /\ DOMAIN stream = 1..Len(stream)
      /\ \A i \in DOMAIN redis_queue : redis_queue[i] \in Nat
      /\ \A i \in DOMAIN stream : stream[i] \in Nat
  BY <1>s DEF Sample
<1>i. \A i \in 1..Len(redis_queue) : redis_queue[i] = polled - Len(redis_queue) + i
  BY <1>b DEF SampleInv
<1>0. UNCHANGED <<process, dataVars>> => SampleInv'
  BY DEF dataVars, SampleInv, StreamInOrder, NoSampleLost
<1>1. Crash => SampleInv'
  BY <1>a, <1>b DEF Crash, SampleInv, StreamInOrder, NoSampleLost
<1>2. CASE Start
  BY <1>2, <1>a DEF Start, SampleInv, StreamInOrder, NoSampleLost
<1>3. CASE OpcuaConnected
  BY <1>3 DEF OpcuaConnected, dataVars, SampleInv, StreamInOrder, NoSampleLost
<1>4. CASE Poll
  <2>1. polled + 1 \in Sample
    BY <1>a DEF Sample
  <2> DEFINE q == Append(redis_queue, polled + 1)
  <2>2. /\ redis_queue' = q /\ polled' = polled + 1
        /\ UNCHANGED <<process, polledAtStart, publishing, stream>>
    BY <1>4 DEF Poll
  <2>3. /\ Len(q) = Len(redis_queue) + 1
        /\ \A i \in 1..Len(redis_queue) : q[i] = redis_queue[i]
        /\ q[Len(redis_queue) + 1] = polled + 1
        /\ DOMAIN q = 1..Len(redis_queue) + 1
    BY <2>1, <1>s, <1>b, AppendFacts
  <2> HIDE DEF q
  <2>4. StreamInOrder'
    BY <2>2 DEF SampleInv, StreamInOrder
  <2>5. \A i \in DOMAIN q : q[i] = polled' - Len(q) + i
    <3>0. polled' - Len(q) = polled - Len(redis_queue)
      BY <1>a, <1>b, <2>2, <2>3
    <3> SUFFICES ASSUME NEW i \in DOMAIN q
                 PROVE  q[i] = polled - Len(redis_queue) + i
      BY <3>0
    <3>1. CASE i \in 1..Len(redis_queue)
      BY <3>1, <1>i, <2>3
    <3>2. CASE i = Len(redis_queue) + 1
      BY <3>2, <1>a, <1>b, <2>3
    <3>3. QED
      BY <3>1, <3>2, <1>b, <2>3
  <2>6. \A i \in DOMAIN stream : /\ stream[i] <= polled' - Len(q)
                                 /\ publishing # NoSample => stream[i] < publishing
    BY <1>a, <1>b, <2>2, <2>3 DEF SampleInv
  <2>7. NoSampleLost'
    <3> SUFFICES ASSUME process # "down", NEW k \in polledAtStart + 1 .. polled + 1
                 PROVE  \/ \E i \in DOMAIN stream : stream[i] = k
                        \/ publishing = k
                        \/ \E i \in DOMAIN q : q[i] = k
      BY <2>2 DEF NoSampleLost
    <3>1. CASE k = polled + 1
      BY <3>1, <2>3, <1>a, <1>b
    <3>2. CASE k # polled + 1
      <4>1. k \in polledAtStart + 1 .. polled
        BY <3>2, <1>a
      <4>2. \A i \in DOMAIN redis_queue : i \in DOMAIN q /\ q[i] = redis_queue[i]
        BY <2>3, <1>b
      <4>3. QED
        BY <4>1, <4>2 DEF SampleInv, NoSampleLost
    <3>3. QED
      BY <3>1, <3>2
  <2>8. QED
    BY <1>a, <1>b, <2>2, <2>3, <2>4, <2>5, <2>6, <2>7 DEF SampleInv
<1>5. CASE PublishGet
  <2> DEFINE q == Tail(redis_queue)
  <2>1. /\ redis_queue' = q /\ publishing' = Head(redis_queue) /\ publishing = NoSample
        /\ redis_queue # <<>>
        /\ UNCHANGED <<process, polled, polledAtStart, stream>>
    BY <1>5 DEF PublishGet
  <2>2. /\ Head(redis_queue) = redis_queue[1]
        /\ Len(redis_queue) \in Nat \ {0}
        /\ Len(q) = Len(redis_queue) - 1
        /\ \A i \in 1..Len(redis_queue) - 1 : q[i] = redis_queue[i + 1]
        /\ DOMAIN q = 1..Len(redis_queue) - 1
    BY <2>1, <1>s, HeadTailFacts
  <2> HIDE DEF q
  <2>3. publishing' = polled - Len(q)
    BY <2>1, <2>2, <1>a, <1>i
  <2>4. \A i \in DOMAIN q : q[i] = polled - Len(q) + i
    BY <2>2, <1>a, <1>i
  <2>5. \A i \in DOMAIN stream : stream[i] <= polled - Len(q) /\ stream[i] < publishing'
    BY <2>1, <2>2, <2>3, <1>a, <1>b DEF SampleInv
  <2>6. NoSampleLost'
    <3> SUFFICES ASSUME process # "down", NEW k \in polledAtStart + 1 .. polled,
                        NEW i \in DOMAIN redis_queue, redis_queue[i] = k
                 PROVE  publishing' = k \/ \E j \in DOMAIN q : q[j] = k
      BY <2>1, <1>a, <1>b DEF NoSampleLost, SampleInv
    <3>1. CASE i = 1
      BY <3>1, <2>1, <2>2
    <3>2. CASE i # 1
      <4>1. i - 1 \in DOMAIN q /\ q[i - 1] = k
        BY <3>2, <2>2, <1>a
      <4>2. QED
        BY <4>1
    <3>3. QED
      BY <3>1, <3>2
  <2>7. QED
    BY <1>a, <2>1, <2>2, <2>3, <2>4, <2>5, <2>6 DEF SampleInv, StreamInOrder
<1>6. CASE PublishXadd
  <2> DEFINE s == Append(stream, publishing)
  <2>1. /\ stream' = s /\ publishing' = NoSample /\ publishing # NoSample
        /\ UNCHANGED <<process, polled, polledAtStart, redis_queue>>
    BY <1>6 DEF PublishXadd
  <2>2. publishing \in Sample
    BY <2>1, <1>a DEF Sample
  <2>3. /\ Len(s) = Len(stream) + 1
        /\ \A i \in 1..Len(stream) : s[i] = stream[i]
        /\ s[Len(stream) + 1] = publishing
        /\ DOMAIN s = 1..Len(stream) + 1
    BY <2>2, <1>s, <1>b, AppendFacts
  <2> HIDE DEF s
  <2>4. StreamInOrder'
    BY <2>1, <2>3, <1>a, <1>b DEF SampleInv, StreamInOrder
  <2>5. \A i \in DOMAIN s : s[i] <= polled - Len(redis_queue)
    BY <2>1, <2>3, <1>a, <1>b DEF SampleInv
  <2>6. NoSampleLost'
    <3>1. \A i \in DOMAIN stream : i \in DOMAIN s /\ s[i] = stream[i]
      BY <2>3, <1>b
    <3>2. \E i \in DOMAIN s : s[i] = publishing
      BY <2>3, <1>b
    <3>3. QED
      BY <3>1, <3>2, <2>1 DEF SampleInv, NoSampleLost
  <2>7. QED
    BY <1>a, <2>1, <2>4, <2>5, <2>6 DEF SampleInv
<1>7. QED
  BY <1>0, <1>1, <1>2, <1>3, <1>4, <1>5, <1>6
     DEF Next, vars, dataVars, OpcuaTaskFails, ClientConnect, ClientSend, ClientClose,
         HandlerRecv, HandlerOverflow, HandlerClosedOrTimeout, HandlerEnds, CommandGet,
         CommandExec, CommandIgnored, CommandRaises, CommandReply, CommandReplyFails,
         PollOverflow, PublishRaises

(* No telemetry sample is lost, duplicated or reordered on its way to Redis while *)
(* the process lives, whatever the size of redis_queue.                           *)
THEOREM TelemetryCorrect == Spec => [](StreamInOrder /\ NoSampleLost)
<1>1. Init => SampleInv
  BY DEF Init, SampleInv, StreamInOrder, NoSampleLost, NoSample
<1>2. QED
  BY <1>1, TypeCorrect, SampleStep, PTL DEF Spec, SampleInv

-----------------------------------------------------------------------------
(* command_task: the queue hands out its messages in the order they came in.   *)
LEMMA TicketStep == TypeOK /\ TicketInv /\ [Next]_vars => TicketInv'
<1> SUFFICES ASSUME TypeOK, TicketInv, [Next]_vars
             PROVE  TicketInv'
  OBVIOUS
<1>s. /\ cmd_queue \in Seq(Message) /\ applied \in Seq(Executed)
      /\ current \in Message \cup {NoMsg}
  BY DEF TypeOK, CmdTypes
<1>a. accepted \in Nat /\ pos \in Nat
  BY DEF TypeOK, CmdTypes
<1>b. /\ Len(cmd_queue) \in Nat /\ DOMAIN cmd_queue = 1..Len(cmd_queue)
      /\ Len(applied) \in Nat /\ DOMAIN applied = 1..Len(applied)
  BY <1>s
<1>c. ASSUME NEW i \in DOMAIN applied
      PROVE  applied[i].ticket \in Nat /\ applied[i].pos \in Nat
  <2>1. applied[i] \in Executed
    BY <1>s
  <2>2. QED
    BY <2>1 DEF Executed
<1>d. \A e \in Message : e.ticket \in Nat
  BY DEF Message
<1>0. UNCHANGED <<cmd_queue, current, pos, accepted, applied>> => TicketInv'
  BY DEF TicketInv, AppliedInOrder
<1>1. Crash => TicketInv'
  <2> SUFFICES ASSUME Crash PROVE TicketInv'
    OBVIOUS
  <2>1. cmd_queue' = <<>> /\ applied' = <<>> /\ current' = NoMsg /\ accepted' = 0
    BY DEF Crash
  <2>2. Len(<<>>) = 0 /\ DOMAIN <<>> = {}
    OBVIOUS
  <2>3. QED
    BY <2>1, <2>2 DEF TicketInv, AppliedInOrder
<1>2. ASSUME NEW c \in Conns, HandlerRecv(c) PROVE TicketInv'
  <2> DEFINE m == [ws |-> c, n |-> Head(inbox[c]).n, cmds |-> Head(inbox[c]).cmds,
                   ticket |-> accepted + 1]
             q == Append(cmd_queue, m)
  <2>1. /\ cmd_queue' = q /\ accepted' = accepted + 1
        /\ UNCHANGED <<current, pos, applied>>
    BY <1>2 DEF HandlerRecv
  <2>2. m.ticket = accepted + 1
    OBVIOUS
  <2>3. /\ Len(q) = Len(cmd_queue) + 1
        /\ \A i \in 1..Len(cmd_queue) : q[i] = cmd_queue[i]
        /\ q[Len(cmd_queue) + 1] = m
        /\ DOMAIN q = 1..Len(cmd_queue) + 1
    BY <1>s
  <2> HIDE DEF q, m
  <2>4. accepted' - Len(q) = accepted - Len(cmd_queue)
    BY <1>a, <1>b, <2>1, <2>3
  <2>5. ASSUME NEW i \in DOMAIN q PROVE q[i].ticket = accepted - Len(cmd_queue) + i
    <3>1. CASE i \in 1..Len(cmd_queue)
      BY <3>1, <1>b, <2>3 DEF TicketInv
    <3>2. CASE i = Len(cmd_queue) + 1
      BY <3>2, <1>a, <1>b, <2>2, <2>3
    <3>3. QED
      BY <3>1, <3>2, <1>b, <2>3
  <2>6. QED
    BY <1>a, <1>b, <2>1, <2>3, <2>4, <2>5 DEF TicketInv, AppliedInOrder
<1>3. CASE CommandGet
  <2> DEFINE q == Tail(cmd_queue)
  <2>1. /\ cmd_queue' = q /\ current' = Head(cmd_queue) /\ pos' = 1 /\ cmd_queue # <<>>
        /\ UNCHANGED <<accepted, applied>>
    BY <1>3 DEF CommandGet
  <2>2. /\ Head(cmd_queue) = cmd_queue[1]
        /\ Len(cmd_queue) \in Nat \ {0}
        /\ Len(q) = Len(cmd_queue) - 1
        /\ \A i \in 1..Len(cmd_queue) - 1 : q[i] = cmd_queue[i + 1]
        /\ DOMAIN q = 1..Len(cmd_queue) - 1
    BY <2>1, <1>s, HeadTailFacts
  <2> HIDE DEF q
  <2>3. \A i \in 1..Len(cmd_queue) : cmd_queue[i].ticket = accepted - Len(cmd_queue) + i
    BY <1>b DEF TicketInv
  <2>4. Len(q) <= accepted
    BY <1>a, <2>2 DEF TicketInv
  <2>5. current'.ticket = accepted - Len(q)
    BY <1>a, <2>1, <2>2, <2>3
  <2>6. \A i \in DOMAIN q : q[i].ticket = accepted - Len(q) + i
    BY <1>a, <2>2, <2>3
  <2>7. \A i \in DOMAIN applied : applied[i].ticket < accepted - Len(q)
    BY <1>a, <1>c, <2>2 DEF TicketInv
  <2>8. \A i \in DOMAIN applied : applied[i].ticket <= accepted - Len(q)
    BY <1>a, <1>c, <2>2, <2>7
  <2>9. \A i \in DOMAIN applied : applied[i].ticket # current'.ticket
    BY <1>a, <1>c, <2>2, <2>5, <2>7
  <2>10. AppliedInOrder'
    BY <2>1 DEF TicketInv, AppliedInOrder
  <2>11. QED
    BY <2>1, <2>4, <2>5, <2>6, <2>8, <2>9, <2>10 DEF TicketInv
<1>4. CASE CommandExec
  <2> DEFINE e == [ticket |-> current.ticket, pos |-> pos]
             a == Append(applied, e)
  <2>1. /\ applied' = a /\ pos' = pos + 1 /\ current # NoMsg
        /\ UNCHANGED <<cmd_queue, current, accepted>>
    BY <1>4 DEF CommandExec, HasCommand
  <2>2. e.ticket = current.ticket /\ e.pos = pos /\ current.ticket \in Nat
    BY <1>s, <1>d, <2>1
  <2>3. /\ Len(a) = Len(applied) + 1
        /\ \A i \in 1..Len(applied) : a[i] = applied[i]
        /\ a[Len(applied) + 1] = e
        /\ DOMAIN a = 1..Len(applied) + 1
    BY <1>s
  <2> HIDE DEF a, e
  <2>4. current.ticket = accepted - Len(cmd_queue)
    BY <2>1 DEF TicketInv
  <2>5. \A i \in 1..Len(applied) : /\ applied[i].ticket <= current.ticket
                                   /\ applied[i].ticket = current.ticket => applied[i].pos < pos
    BY <1>b, <2>1, <2>4 DEF TicketInv
  <2>6. AppliedInOrder'
    <3> SUFFICES ASSUME NEW i \in 1..Len(applied) + 1, NEW j \in 1..Len(applied) + 1, i < j
                 PROVE  \/ a[i].ticket < a[j].ticket
                        \/ a[i].ticket = a[j].ticket /\ a[i].pos < a[j].pos
      BY <2>1, <2>3 DEF AppliedInOrder
    <3>1. CASE j \in 1..Len(applied)
      BY <3>1, <1>b, <2>3 DEF TicketInv, AppliedInOrder
    <3>2. CASE j = Len(applied) + 1
      <4>1. i \in 1..Len(applied)
        BY <3>2, <1>b
      <4>2. /\ applied[i].ticket \in Nat /\ a[i] = applied[i] /\ a[j] = e
        BY <4>1, <3>2, <1>b, <1>c, <2>3
      <4>3. QED
        BY <4>1, <4>2, <2>2, <2>5
    <3>3. QED
      BY <3>1, <3>2, <1>b
  <2>7. ASSUME NEW i \in DOMAIN a
        PROVE  /\ a[i].ticket <= current.ticket
               /\ a[i].ticket = current.ticket => a[i].pos < pos + 1
    <3>1. CASE i \in 1..Len(applied)
      BY <3>1, <1>a, <1>b, <1>c, <2>3, <2>5
    <3>2. CASE i = Len(applied) + 1
      BY <3>2, <1>a, <2>2, <2>3
    <3>3. QED
      BY <3>1, <3>2, <1>b, <2>3
  <2>8. QED
    BY <2>1, <2>4, <2>6, <2>7 DEF TicketInv
<1>5. CASE CommandIgnored
  <2>1. pos' = pos + 1 /\ UNCHANGED <<cmd_queue, current, accepted, applied>>
    BY <1>5 DEF CommandIgnored
  <2>2. \A i \in DOMAIN applied :
          current # NoMsg /\ applied[i].ticket = current.ticket => applied[i].pos < pos + 1
    BY <1>a, <1>c DEF TicketInv
  <2>3. QED
    BY <2>1, <2>2 DEF TicketInv, AppliedInOrder
<1>6. CASE CommandReply
  BY <1>6 DEF CommandReply, TicketInv, AppliedInOrder
<1>7. QED
  BY <1>0, <1>1, <1>2, <1>3, <1>4, <1>5, <1>6
     DEF Next, vars, cmdVars, connVars, OpcuaTaskFails, Start, OpcuaConnected, ClientConnect,
         ClientSend, ClientClose, HandlerOverflow, HandlerClosedOrTimeout, HandlerEnds,
         CommandRaises, CommandReplyFails, Poll, PollOverflow, PublishGet, PublishXadd,
         PublishRaises

(* The MCS sees the commands of a process in the order their messages were     *)
(* queued, whoever sent them, and none twice (client.py 168-202, 865-878).     *)
THEOREM CommandOrder == Spec => []AppliedInOrder
<1>1. Init => TicketInv
  BY DEF Init, TicketInv, AppliedInOrder
<1>2. QED
  BY <1>1, TypeCorrect, TicketStep, PTL DEF Spec, TicketInv

-----------------------------------------------------------------------------
(* Replies: the numbers waiting for a connection follow those already replied. *)
LEMMA ReplyStep == TypeOK /\ ReplyInv /\ [Next]_vars => ReplyInv'
<1> SUFFICES ASSUME TypeOK, ReplyInv, [Next]_vars
             PROVE  ReplyInv'
  OBVIOUS
<1> USE BoundsAreNat
<1>s. /\ cmd_queue \in Seq(Message) /\ current \in Message \cup {NoMsg}
      /\ replies \in [Conns -> Seq(Reply)] /\ inbox \in [Conns -> Seq(Received)]
      /\ sent \in [Conns -> 0..MaxSent] /\ ws_connections \subseteq Conns
      /\ wsState \in [Conns -> {"unused", "open", "closed"}]
  BY DEF TypeOK, CmdTypes, ConnTypes
<1>m. \A e \in Message : e.ws \in Conns /\ e.n \in 1..MaxSent /\ e # NoMsg
  <2>1. \A e \in Message : e.ticket \in Nat \ {0}
    BY DEF Message
  <2>2. NoMsg.ticket = 0
    BY DEF NoMsg
  <2>3. QED
    BY <2>1, <2>2 DEF Message
<1>q. /\ Len(cmd_queue) \in Nat /\ DOMAIN cmd_queue = 1..Len(cmd_queue)
      /\ \A i \in 1..Len(cmd_queue) : cmd_queue[i].ws \in Conns /\ cmd_queue[i].n \in 1..MaxSent
  BY <1>s, <1>m
<1>c. current # NoMsg => current.ws \in Conns /\ current.n \in 1..MaxSent
  BY <1>s, <1>m
<1>l. \A c \in Conns : Len(replies[c]) \in Nat /\ DOMAIN replies[c] = 1..Len(replies[c])
  BY <1>s
<1>i. \A c \in Conns : Len(inbox[c]) \in Nat /\ DOMAIN inbox[c] = 1..Len(inbox[c])
  BY <1>s
<1>n. \A c \in Conns : sent[c] \in Int /\ Queued(c) \in Int
  BY <1>s, <1>i DEF Queued
<1>0. UNCHANGED <<wsState, ws_connections, sent, inbox, cmd_queue, current, replies>>
        => ReplyInv'
  BY DEF ReplyInv, ReplyOrder, InboxNumbered, CurrentIsNext, QueueAscends, QueueHasNoGap,
         HandlerContinues, UnusedIsFresh, Pending, Queued
<1>1. Crash => ReplyInv'
  <2> SUFFICES ASSUME Crash PROVE ReplyInv'
    OBVIOUS
  <2>1. /\ cmd_queue' = <<>> /\ current' = NoMsg /\ ws_connections' = {}
        /\ UNCHANGED <<sent, replies>>
        /\ \A c \in Conns : inbox'[c] = <<>> /\ (wsState'[c] = "unused" => wsState[c] = "unused")
    BY <1>s DEF Crash
  <2>2. DOMAIN <<>> = {}
    OBVIOUS
  <2>3. ReplyOrder' /\ InboxNumbered' /\ CurrentIsNext' /\ HandlerContinues'
    BY <2>1, <2>2 DEF ReplyInv, ReplyOrder, InboxNumbered, CurrentIsNext, HandlerContinues
  <2>4. QueueAscends' /\ QueueHasNoGap'
    BY <2>1, <2>2 DEF QueueAscends, QueueHasNoGap
  <2>5. UnusedIsFresh'
    BY <2>1, <2>2 DEF ReplyInv, UnusedIsFresh, Pending
  <2>6. QED
    BY <2>3, <2>4, <2>5 DEF ReplyInv
<1>2. ASSUME NEW c \in Conns, ClientConnect(c) PROVE ReplyInv'
  <2>1. /\ wsState[c] = "unused" /\ ws_connections' = ws_connections \cup {c}
        /\ \A d \in Conns : wsState'[d] = "unused" => wsState[d] = "unused"
        /\ UNCHANGED <<sent, inbox, cmd_queue, current, replies>>
    BY <1>2, <1>s DEF ClientConnect, cmdVars
  <2>2. Len(replies[c]) = 0 /\ Queued(c) = 0 /\ \A m \in 1..MaxSent : ~Pending(c, m)
    BY <2>1 DEF ReplyInv, UnusedIsFresh, Queued
  <2>3. /\ \A d \in Conns : Queued(d)' = Queued(d) /\ Len(replies[d])' = Len(replies[d])
        /\ \A d \in Conns : \A m \in 1..MaxSent : Pending(d, m)' <=> Pending(d, m)
    BY <2>1 DEF Pending, Queued
  <2>4. HandlerContinues'
    <3> SUFFICES ASSUME NEW d \in ws_connections'
                 PROVE  /\ Len(replies[d]) <= Queued(d)
                        /\ \A m \in 1..MaxSent :
                             Pending(d, m) <=> m \in Len(replies[d]) + 1 .. Queued(d)
      BY <2>1, <2>3, <1>s DEF HandlerContinues
    <3>1. CASE d = c
      <4>1. Len(replies[d]) + 1 .. Queued(d) = {}
        BY <3>1, <2>2
      <4>2. QED
        BY <3>1, <4>1, <2>2
    <3>2. CASE d \in ws_connections
      BY <3>2 DEF ReplyInv, HandlerContinues
    <3>3. QED
      BY <3>1, <3>2, <2>1
  <2>5. QED
    BY <2>1, <2>4 DEF ReplyInv, ReplyOrder, InboxNumbered, CurrentIsNext, QueueAscends,
                      QueueHasNoGap, UnusedIsFresh, Pending, Queued
<1>3. ASSUME NEW c \in Conns, ClientSend(c) PROVE ReplyInv'
  <2>1. PICK cmds \in CmdLists :
          inbox' = [inbox EXCEPT ![c] = Append(inbox[c], [n |-> sent[c] + 1, cmds |-> cmds])]
    BY <1>3 DEF ClientSend
  <2> DEFINE m == [n |-> sent[c] + 1, cmds |-> cmds]
             b == Append(inbox[c], m)
  <2>2. /\ sent' = [sent EXCEPT ![c] = sent[c] + 1] /\ wsState[c] = "open"
        /\ UNCHANGED <<wsState, ws_connections, cmd_queue, current, replies>>
    BY <1>3 DEF ClientSend, cmdVars
  <2>3. /\ Len(b) = Len(inbox[c]) + 1
        /\ \A i \in 1..Len(inbox[c]) : b[i] = inbox[c][i]
        /\ b[Len(inbox[c]) + 1] = m
        /\ DOMAIN b = 1..Len(inbox[c]) + 1
    BY <1>s
  <2>4. m.n = sent[c] + 1
    OBVIOUS
  <2>5. inbox' = [inbox EXCEPT ![c] = b]
    BY <2>1
  <2> HIDE DEF b, m
  <2>6. \A d \in Conns : Queued(d)' = Queued(d)
    <3> SUFFICES ASSUME NEW d \in Conns PROVE Queued(d)' = Queued(d)
      OBVIOUS
    <3>1. d # c => sent'[d] = sent[d] /\ inbox'[d] = inbox[d]
      BY <2>2, <2>5, <1>s
    <3>2. sent'[c] = sent[c] + 1 /\ inbox'[c] = b
      BY <2>2, <2>5, <1>s
    <3>3. sent[c] \in Int /\ Len(inbox[c]) \in Int
      BY <1>n, <1>i
    <3>4. sent'[c] - Len(inbox'[c]) = sent[c] - Len(inbox[c])
      <4>1. sent'[c] = sent[c] + 1 /\ Len(inbox'[c]) = Len(inbox[c]) + 1
        BY <3>2, <2>3
      <4>2. QED
        BY <4>1, <3>3
    <3>5. QED
      BY <3>1, <3>4 DEF Queued
  <2>7. InboxNumbered'
    <3> SUFFICES ASSUME NEW d \in Conns, NEW i \in DOMAIN inbox'[d]
                 PROVE  inbox'[d][i].n = Queued(d) + i
      BY <2>6 DEF InboxNumbered
    <3>1. CASE d # c
      BY <3>1, <2>5, <1>s DEF ReplyInv, InboxNumbered
    <3>2. CASE d = c /\ i \in 1..Len(inbox[c])
      BY <3>2, <2>3, <2>5, <1>s, <1>i DEF ReplyInv, InboxNumbered
    <3>3. CASE d = c /\ i = Len(inbox[c]) + 1
      BY <3>3, <2>3, <2>4, <2>5, <1>s, <1>i, <1>n DEF Queued
    <3>4. QED
      BY <3>1, <3>2, <3>3, <2>3, <2>5, <1>s, <1>i
  <2>8. \A d \in Conns : wsState[d] = "unused" => sent'[d] = sent[d] /\ inbox'[d] = inbox[d]
    BY <2>2, <2>5, <1>s
  <2>9. UnusedIsFresh'
    BY <2>2, <2>8 DEF ReplyInv, UnusedIsFresh, Pending
  <2>10. HandlerContinues'
    BY <2>2, <2>6, <1>s DEF ReplyInv, HandlerContinues, Pending
  <2>11. QED
    BY <2>2, <2>7, <2>9, <2>10
       DEF ReplyInv, ReplyOrder, CurrentIsNext, QueueAscends, QueueHasNoGap
<1>4. ASSUME NEW c \in Conns, ClientClose(c) PROVE ReplyInv'
  <2>1. /\ \A d \in Conns : wsState'[d] = "unused" => wsState[d] = "unused"
        /\ UNCHANGED <<ws_connections, sent, inbox, cmd_queue, current, replies>>
    BY <1>4, <1>s DEF ClientClose, cmdVars
  <2>2. QueueAscends' /\ QueueHasNoGap'
    BY <2>1 DEF ReplyInv, QueueAscends, QueueHasNoGap
  <2>3. HandlerContinues' /\ UnusedIsFresh'
    BY <2>1 DEF ReplyInv, HandlerContinues, UnusedIsFresh, Pending, Queued
  <2>4. QED
    BY <2>1, <2>2, <2>3 DEF ReplyInv, ReplyOrder, InboxNumbered, CurrentIsNext, Queued
<1>5. ASSUME NEW c \in Conns, HandlerEnds(c) PROVE ReplyInv'
  <2>1. /\ ws_connections' = ws_connections \ {c}
        /\ wsState' = [wsState EXCEPT ![c] = "closed"]
        /\ inbox' = [inbox EXCEPT ![c] = <<>>]
        /\ UNCHANGED <<sent, cmd_queue, current, replies>>
    BY <1>5 DEF HandlerEnds, cmdVars
  <2>2. \A d \in Conns : d # c => inbox'[d] = inbox[d] /\ wsState'[d] = wsState[d]
    BY <2>1, <1>s
  <2>3. inbox'[c] = <<>> /\ wsState'[c] = "closed"
    BY <2>1, <1>s
  <2>4. InboxNumbered'
    BY <2>1, <2>2, <2>3 DEF ReplyInv, InboxNumbered, Queued
  <2>5. HandlerContinues'
    BY <2>1, <2>2, <1>s DEF ReplyInv, HandlerContinues, Pending, Queued
  <2>6. UnusedIsFresh'
    BY <2>1, <2>2, <2>3 DEF ReplyInv, UnusedIsFresh, Pending
  <2>7. QED
    BY <2>1, <2>4, <2>5, <2>6
       DEF ReplyInv, ReplyOrder, CurrentIsNext, QueueAscends, QueueHasNoGap
<1>6. ASSUME NEW c \in Conns, HandlerRecv(c) PROVE ReplyInv'
  <2> DEFINE m == [ws |-> c, n |-> Head(inbox[c]).n, cmds |-> Head(inbox[c]).cmds,
                   ticket |-> accepted + 1]
             q == Append(cmd_queue, m)
             t == Tail(inbox[c])
             last == Len(cmd_queue) + 1
  <2>1. /\ c \in ws_connections /\ inbox[c] # <<>>
        /\ cmd_queue' = q /\ inbox' = [inbox EXCEPT ![c] = t]
        /\ UNCHANGED <<wsState, ws_connections, sent, current, replies>>
    BY <1>6 DEF HandlerRecv
  <2>2. m.ws = c /\ m.n = Head(inbox[c]).n
    OBVIOUS
  <2>3. /\ Head(inbox[c]) = inbox[c][1] /\ Len(inbox[c]) \in Nat \ {0}
        /\ Len(t) = Len(inbox[c]) - 1
        /\ \A i \in 1..Len(inbox[c]) - 1 : t[i] = inbox[c][i + 1]
        /\ DOMAIN t = 1..Len(inbox[c]) - 1
    BY <2>1, <1>s, HeadTailFacts
  <2>4. /\ \A i \in 1..Len(cmd_queue) : q[i] = cmd_queue[i]
        /\ q[last] = m /\ DOMAIN q = 1..last
    BY <1>s
  <2> HIDE DEF m, q, t
  <2>5. m.n = Queued(c) + 1
    BY <2>2, <2>3 DEF ReplyInv, InboxNumbered
  <2>6. inbox'[c] = t /\ \A d \in Conns : d # c => inbox'[d] = inbox[d]
    BY <2>1, <1>s
  <2>7. /\ Queued(c)' = Queued(c) + 1
        /\ \A d \in Conns : d # c => Queued(d)' = Queued(d)
    <3>1. sent[c] \in Int /\ Len(inbox[c]) \in Int
      BY <1>n, <1>i
    <3>2. QED
      BY <3>1, <2>1, <2>3, <2>6 DEF Queued
  <2>8. \A k \in 1..MaxSent : Pending(c, k) => k <= Queued(c)
    BY <2>1, <1>n, <1>l DEF ReplyInv, HandlerContinues
  <2>9. \A d \in Conns, k \in 1..MaxSent :
          Pending(d, k)' <=> Pending(d, k) \/ (d = c /\ k = Queued(c) + 1)
    <3> SUFFICES ASSUME NEW d \in Conns, NEW k \in 1..MaxSent
                 PROVE  Pending(d, k)' <=> Pending(d, k) \/ (d = c /\ k = Queued(c) + 1)
      OBVIOUS
    <3> DEFINE isCurrent == current # NoMsg /\ current.ws = d /\ current.n = k
               before == \E i \in 1..Len(cmd_queue) : cmd_queue[i].ws = d /\ cmd_queue[i].n = k
               after == \E i \in 1..last : q[i].ws = d /\ q[i].n = k
    <3>a. Pending(d, k) <=> isCurrent \/ before
      BY <1>q DEF Pending
    <3>b. Pending(d, k)' <=> isCurrent \/ after
      BY <2>1, <2>4 DEF Pending
    <3>1. \A i \in 1..last : i \in 1..Len(cmd_queue) \/ i = last
      BY <1>q
    <3>2. last \in 1..last /\ \A i \in 1..Len(cmd_queue) : i \in 1..last
      BY <1>q
    <3>3. after <=> before \/ (d = c /\ k = Queued(c) + 1)
      BY <3>1, <3>2, <2>2, <2>4, <2>5
    <3>4. QED
      BY <3>a, <3>b, <3>3
  <2>10. InboxNumbered'
    <3> SUFFICES ASSUME NEW d \in Conns, NEW i \in DOMAIN inbox'[d]
                 PROVE  inbox'[d][i].n = Queued(d)' + i
      BY DEF InboxNumbered
    <3>1. CASE d # c
      BY <3>1, <2>6, <2>7 DEF ReplyInv, InboxNumbered
    <3>2. CASE d = c
      <4>1. i \in 1..Len(inbox[c]) - 1 /\ inbox'[d][i] = inbox[c][i + 1]
        BY <3>2, <2>3, <2>6
      <4>2. i + 1 \in DOMAIN inbox[c]
        BY <4>1, <2>3, <1>i
      <4>3. inbox[c][i + 1].n = Queued(c) + (i + 1)
        BY <4>2 DEF ReplyInv, InboxNumbered
      <4>4. QED
        BY <3>2, <4>1, <4>3, <2>7, <1>n
    <3>3. QED
      BY <3>1, <3>2
  <2>11. \A i \in 1..Len(cmd_queue) : cmd_queue[i].ws = c => cmd_queue[i].n < m.n
    <3> SUFFICES ASSUME NEW i \in 1..Len(cmd_queue), cmd_queue[i].ws = c
                 PROVE  cmd_queue[i].n < m.n
      OBVIOUS
    <3>1. cmd_queue[i].n \in 1..MaxSent /\ Pending(c, cmd_queue[i].n)
      BY <1>q DEF Pending
    <3>2. QED
      BY <3>1, <1>n, <2>5, <2>8
  <2>12. current # NoMsg /\ current.ws = c => current.n < m.n
    BY <1>c, <1>n, <2>5, <2>8 DEF Pending
  <2>13. m.n > Len(replies[c])
    BY <1>l, <1>n, <2>1, <2>5 DEF ReplyInv, HandlerContinues
  <2>14. QueueAscends'
    <3> SUFFICES ASSUME NEW i \in 1..last
                 PROVE  /\ q[i].n > Len(replies[q[i].ws])
                        /\ current # NoMsg /\ current.ws = q[i].ws => q[i].n > current.n
                        /\ \A j \in 1..i-1 : q[j].ws = q[i].ws => q[j].n < q[i].n
      BY <2>1, <2>4 DEF QueueAscends
    <3>1. \A j \in 1..i-1 : j \in 1..Len(cmd_queue)
      BY <1>q
    <3>2. CASE i \in 1..Len(cmd_queue)
      BY <3>1, <3>2, <2>4, <1>q DEF ReplyInv, QueueAscends
    <3>3. CASE i = last
      BY <3>1, <3>3, <2>2, <2>4, <2>11, <2>12, <2>13, <1>c
    <3>4. QED
      BY <3>2, <3>3, <1>q
  <2>15. QueueHasNoGap'
    <3> SUFFICES ASSUME NEW i \in 1..last,
                        NEW k \in Len(replies[q[i].ws]) + 1 .. q[i].n - 1
                 PROVE  \/ current # NoMsg /\ current.ws = q[i].ws /\ current.n = k
                        \/ \E j \in 1..i-1 : q[j].ws = q[i].ws /\ q[j].n = k
      <4>1. (\A i \in 1..last : NoGapBefore(q, current, Len(replies[q[i].ws]), i)) => QueueHasNoGap'
        BY <2>1, <2>4 DEF QueueHasNoGap
      <4>2. QED
        BY <4>1 DEF NoGapBefore
    <3>1. \A j \in 1..i-1 : j \in 1..Len(cmd_queue)
      BY <1>q
    <3>2. CASE i \in 1..Len(cmd_queue)
      <4>1. q[i] = cmd_queue[i] /\ \A j \in 1..i-1 : q[j] = cmd_queue[j]
        BY <3>1, <3>2, <2>4
      <4>2. k \in Len(replies[cmd_queue[i].ws]) + 1 .. cmd_queue[i].n - 1 /\ i \in DOMAIN cmd_queue
        BY <4>1, <3>2, <1>q
      <4>3. \/ current # NoMsg /\ current.ws = cmd_queue[i].ws /\ current.n = k
            \/ \E j \in 1..i-1 : cmd_queue[j].ws = cmd_queue[i].ws /\ cmd_queue[j].n = k
        BY <4>2 DEF ReplyInv, QueueHasNoGap, NoGapBefore
      <4>4. QED
        BY <4>1, <4>3
    <3>3. CASE i = last
      <4>1. k \in Len(replies[c]) + 1 .. Queued(c)
        BY <3>3, <2>2, <2>4, <2>5, <1>n, <1>l
      <4>2. k \in 1..MaxSent
        <5>1. Len(inbox[c]) >= 0 /\ sent[c] <= MaxSent /\ Queued(c) <= MaxSent
          BY <1>s, <1>i DEF Queued
        <5>2. QED
          BY <4>1, <5>1, <1>n, <1>l
      <4>3. Pending(c, k)
        BY <4>1, <4>2, <2>1 DEF ReplyInv, HandlerContinues
      <4>4. q[i].ws = c /\ i - 1 = Len(cmd_queue)
        BY <3>3, <2>2, <2>4, <1>q
      <4>5. QED
        BY <4>3, <4>4, <2>4, <1>q DEF Pending
    <3>4. QED
      BY <3>2, <3>3, <1>q
  <2>16. HandlerContinues'
    <3> SUFFICES ASSUME NEW d \in ws_connections
                 PROVE  /\ Len(replies[d]) <= Queued(d)'
                        /\ \A k \in 1..MaxSent :
                             Pending(d, k)' <=> k \in Len(replies[d]) + 1 .. Queued(d)'
      BY <2>1 DEF HandlerContinues
    <3>1. /\ d \in Conns /\ Queued(d) \in Int /\ Len(replies[d]) \in Nat
          /\ Len(replies[d]) <= Queued(d)
          /\ \A k \in 1..MaxSent : Pending(d, k) <=> k \in Len(replies[d]) + 1 .. Queued(d)
      BY <1>s, <1>n, <1>l DEF ReplyInv, HandlerContinues
    <3>2. CASE d # c
      BY <3>1, <3>2, <2>7, <2>9
    <3>3. CASE d = c
      <4>1. \A k \in 1..MaxSent : Pending(d, k)' <=> Pending(d, k) \/ k = Queued(c) + 1
        BY <3>1, <3>3, <2>9
      <4>2. \A k \in 1..MaxSent : Pending(d, k)' <=> k \in Len(replies[d]) + 1 .. Queued(d) + 1
        BY <4>1, <3>1, <3>3
      <4>3. QED
        BY <3>1, <3>3, <4>2, <2>7
    <3>4. QED
      BY <3>2, <3>3
  <2>17. UnusedIsFresh'
    <3>1. wsState[c] # "unused"
      BY <2>1 DEF ReplyInv, UnusedIsFresh
    <3>2. QED
      BY <3>1, <2>1, <2>6, <2>9 DEF ReplyInv, UnusedIsFresh
  <2>18. QED
    BY <2>1, <2>10, <2>14, <2>15, <2>16, <2>17 DEF ReplyInv, ReplyOrder, CurrentIsNext
<1>7. CASE CommandGet
  <2> DEFINE h == cmd_queue[1]
             q == Tail(cmd_queue)
  <2>1. /\ cmd_queue' = q /\ current' = Head(cmd_queue) /\ current = NoMsg
        /\ cmd_queue # <<>>
        /\ UNCHANGED <<wsState, ws_connections, sent, inbox, replies>>
    BY <1>7 DEF CommandGet, connVars
  <2>2. /\ Head(cmd_queue) \in Message /\ Head(cmd_queue) = h
        /\ Len(cmd_queue) \in Nat \ {0}
        /\ \A i \in 1..Len(cmd_queue) - 1 : q[i] = cmd_queue[i + 1]
        /\ DOMAIN q = 1..Len(cmd_queue) - 1
    BY <2>1, <1>s, HeadTailFacts
  <2>3. current' = h /\ h # NoMsg /\ h.ws \in Conns /\ h.n \in 1..MaxSent
    BY <2>1, <2>2, <1>m
  <2>4. 1 \in 1..Len(cmd_queue)
    BY <2>2
  <2> HIDE DEF h, q
  <2>5. h.n = Len(replies[h.ws]) + 1
    <3>1. h.n > Len(replies[h.ws])
      BY <2>4, <1>q DEF ReplyInv, QueueAscends, h
    <3>2. ~\E m \in Len(replies[h.ws]) + 1 .. h.n - 1 : TRUE
      BY <2>1, <2>4, <1>q DEF ReplyInv, QueueHasNoGap, NoGapBefore, h
    <3>3. QED
      BY <3>1, <3>2, <2>3, <1>l
  <2>6. \A i \in 1..Len(cmd_queue) - 1 : i + 1 \in 1..Len(cmd_queue)
    BY <2>2
  <2>7. \A i \in 1..Len(cmd_queue) : i = 1 \/ (i - 1 \in 1..Len(cmd_queue) - 1 /\ q[i - 1] = cmd_queue[i])
    BY <2>2
  <2>8. \A d \in Conns, k \in 1..MaxSent : Pending(d, k)' <=> Pending(d, k)
    <3> SUFFICES ASSUME NEW d \in Conns, NEW k \in 1..MaxSent
                 PROVE  Pending(d, k)' <=> Pending(d, k)
      OBVIOUS
    <3> DEFINE before == \E i \in 1..Len(cmd_queue) : cmd_queue[i].ws = d /\ cmd_queue[i].n = k
               after == \E i \in 1..Len(cmd_queue) - 1 : q[i].ws = d /\ q[i].n = k
    <3>1. Pending(d, k) <=> before
      BY <2>1, <1>q DEF Pending
    <3>2. Pending(d, k)' <=> (h.ws = d /\ h.n = k) \/ after
      BY <2>1, <2>2, <2>3 DEF Pending
    <3>3. before <=> (h.ws = d /\ h.n = k) \/ after
      BY <2>2, <2>4, <2>6, <2>7 DEF h
    <3>4. QED
      BY <3>1, <3>2, <3>3
  <2>9. CurrentIsNext'
    BY <2>1, <2>3, <2>5 DEF CurrentIsNext
  <2>10. QueueAscends'
    <3> SUFFICES ASSUME NEW i \in 1..Len(cmd_queue) - 1
                 PROVE  /\ q[i].n > Len(replies[q[i].ws])
                        /\ h.ws = q[i].ws => q[i].n > h.n
                        /\ \A j \in 1..i-1 : q[j].ws = q[i].ws => q[j].n < q[i].n
      BY <2>1, <2>2, <2>3 DEF QueueAscends
    <3>1. /\ i + 1 \in DOMAIN cmd_queue /\ q[i] = cmd_queue[i + 1] /\ 1 \in 1..(i + 1) - 1
          /\ \A j \in 1..i-1 : q[j] = cmd_queue[j + 1] /\ j + 1 \in 1..(i + 1) - 1
      BY <2>2, <2>6, <1>q
    <3>2. /\ q[i].n > Len(replies[q[i].ws])
          /\ \A j \in 1..(i + 1) - 1 : cmd_queue[j].ws = q[i].ws => cmd_queue[j].n < q[i].n
      BY <3>1 DEF ReplyInv, QueueAscends
    <3>3. h.n \in Int /\ q[i].n \in Int
      BY <2>3, <3>1, <1>q
    <3>4. QED
      BY <3>1, <3>2, <3>3 DEF h
  <2>11. QueueHasNoGap'
    <3> SUFFICES ASSUME NEW i \in 1..Len(cmd_queue) - 1,
                        NEW k \in Len(replies[q[i].ws]) + 1 .. q[i].n - 1
                 PROVE  \/ h.ws = q[i].ws /\ h.n = k
                        \/ \E j \in 1..i-1 : q[j].ws = q[i].ws /\ q[j].n = k
      <4>1. (\A i \in 1..Len(cmd_queue) - 1 : NoGapBefore(q, h, Len(replies[q[i].ws]), i))
              => QueueHasNoGap'
        BY <2>1, <2>2, <2>3 DEF QueueHasNoGap
      <4>2. QED
        BY <4>1, <2>3 DEF NoGapBefore
    <3>1. i + 1 \in DOMAIN cmd_queue /\ q[i] = cmd_queue[i + 1]
      BY <2>2, <2>6, <1>q
    <3>2. PICK j \in 1..(i + 1) - 1 : cmd_queue[j].ws = q[i].ws /\ cmd_queue[j].n = k
      BY <3>1, <2>1 DEF ReplyInv, QueueHasNoGap, NoGapBefore
    <3>3. CASE j = 1
      BY <3>2, <3>3 DEF h
    <3>4. CASE j # 1
      <4>1. j - 1 \in 1..i-1 /\ j \in 1..Len(cmd_queue)
        BY <3>4, <2>2
      <4>2. q[j - 1] = cmd_queue[j]
        BY <4>1, <3>4, <2>7
      <4>3. QED
        BY <3>2, <4>1, <4>2
    <3>5. QED
      BY <3>3, <3>4
  <2>12. HandlerContinues'
    BY <2>1, <2>8, <1>s DEF ReplyInv, HandlerContinues, Queued
  <2>13. UnusedIsFresh'
    BY <2>1, <2>8 DEF ReplyInv, UnusedIsFresh
  <2>14. QED
    BY <2>1, <2>9, <2>10, <2>11, <2>12, <2>13
       DEF ReplyInv, ReplyOrder, InboxNumbered, Queued
<1>8. CASE CommandReply
  <2> DEFINE w == current.ws
             r == [n |-> current.n, cmds |-> current.cmds, entries |-> resp]
             a == Append(replies[w], r)
  <2>1. /\ replies' = [replies EXCEPT ![w] = a] /\ current' = NoMsg /\ current # NoMsg
        /\ wsState[w] = "open"
        /\ UNCHANGED <<wsState, ws_connections, sent, inbox, cmd_queue>>
    BY <1>8 DEF CommandReply, AllExecuted, connVars
  <2>2. w \in Conns /\ r.n = current.n /\ current.n \in 1..MaxSent
    BY <2>1, <1>c
  <2>3. /\ Len(a) = Len(replies[w]) + 1
        /\ \A i \in 1..Len(replies[w]) : a[i] = replies[w][i]
        /\ a[Len(replies[w]) + 1] = r
        /\ DOMAIN a = 1..Len(replies[w]) + 1
    BY <2>2, <1>s
  <2>4. current.n = Len(replies[w]) + 1
    BY <2>1 DEF ReplyInv, CurrentIsNext
  <2> HIDE DEF a, r
  <2>5. replies'[w] = a /\ \A d \in Conns : d # w => replies'[d] = replies[d]
    BY <2>1, <2>2, <1>s
  <2>6. ReplyOrder'
    <3> SUFFICES ASSUME NEW d \in Conns, NEW i \in DOMAIN replies'[d]
                 PROVE  replies'[d][i].n = i
      BY DEF ReplyOrder
    <3>1. CASE d # w
      BY <3>1, <2>5 DEF ReplyInv, ReplyOrder
    <3>2. CASE d = w /\ i \in 1..Len(replies[w])
      BY <3>2, <2>2, <2>3, <2>5, <1>l DEF ReplyInv, ReplyOrder
    <3>3. CASE d = w /\ i = Len(replies[w]) + 1
      BY <3>3, <2>2, <2>3, <2>4, <2>5
    <3>4. QED
      BY <3>1, <3>2, <3>3, <2>2, <2>3, <2>5, <1>l
  <2>7. \A i \in 1..Len(cmd_queue) : cmd_queue[i].ws = w => cmd_queue[i].n > current.n
    BY <2>1, <1>q DEF ReplyInv, QueueAscends
  <2>8. QueueAscends'
    <3> SUFFICES ASSUME NEW i \in 1..Len(cmd_queue)
                 PROVE  /\ cmd_queue[i].n > Len(replies'[cmd_queue[i].ws])
                        /\ \A j \in 1..i-1 : cmd_queue[j].ws = cmd_queue[i].ws
                                                => cmd_queue[j].n < cmd_queue[i].n
      BY <2>1, <1>q DEF QueueAscends
    <3>1. CASE cmd_queue[i].ws = w
      BY <3>1, <2>3, <2>4, <2>5, <2>7, <1>q DEF ReplyInv, QueueAscends
    <3>2. CASE cmd_queue[i].ws # w
      BY <3>2, <2>5, <1>q DEF ReplyInv, QueueAscends
    <3>3. QED
      BY <3>1, <3>2
  <2>9. QueueHasNoGap'
    <3> SUFFICES ASSUME NEW i \in 1..Len(cmd_queue)
                 PROVE  NoGapBefore(cmd_queue, NoMsg, Len(replies'[cmd_queue[i].ws]), i)
      BY <2>1, <1>q DEF QueueHasNoGap
    <3> SUFFICES ASSUME NEW k \in Len(replies'[cmd_queue[i].ws]) + 1 .. cmd_queue[i].n - 1
                 PROVE  \E j \in 1..i-1 : cmd_queue[j].ws = cmd_queue[i].ws /\ cmd_queue[j].n = k
      BY DEF NoGapBefore
    <3>1. cmd_queue[i].ws \in Conns /\ cmd_queue[i].n \in Int
      BY <1>q
    <3>2. Len(replies[cmd_queue[i].ws]) \in Int
      BY <3>1, <1>l
    <3>3. CASE cmd_queue[i].ws = w
      <4>1. Len(replies'[w]) = current.n
        BY <2>3, <2>4, <2>5, <1>l, <2>2
      <4>2. k > current.n /\ k \in Len(replies[w]) + 1 .. cmd_queue[i].n - 1
        BY <4>1, <3>3, <3>2, <3>1, <2>4, <2>2
      <4>3. NoGapBefore(cmd_queue, current, Len(replies[w]), i)
        BY <3>3, <1>q DEF ReplyInv, QueueHasNoGap
      <4>4. QED
        BY <4>2, <4>3, <2>2 DEF NoGapBefore
    <3>4. CASE cmd_queue[i].ws # w
      <4>1. k \in Len(replies[cmd_queue[i].ws]) + 1 .. cmd_queue[i].n - 1
        BY <3>4, <3>1, <2>5
      <4>2. NoGapBefore(cmd_queue, current, Len(replies[cmd_queue[i].ws]), i)
        BY <1>q DEF ReplyInv, QueueHasNoGap
      <4>3. QED
        BY <4>1, <4>2, <3>4 DEF NoGapBefore
    <3>5. QED
      BY <3>3, <3>4
  <2>10. \A d \in Conns, k \in 1..MaxSent :
           Pending(d, k)' <=> Pending(d, k) /\ ~(d = w /\ k = current.n)
    <3> SUFFICES ASSUME NEW d \in Conns, NEW k \in 1..MaxSent
                 PROVE  Pending(d, k)' <=> Pending(d, k) /\ ~(d = w /\ k = current.n)
      OBVIOUS
    <3> DEFINE inQueue == \E i \in 1..Len(cmd_queue) : cmd_queue[i].ws = d /\ cmd_queue[i].n = k
    <3>1. Pending(d, k)' <=> inQueue
      BY <2>1, <1>q DEF Pending
    <3>2. Pending(d, k) <=> (w = d /\ current.n = k) \/ inQueue
      BY <2>1, <1>q DEF Pending
    <3>3. inQueue /\ d = w => k # current.n
      BY <2>2, <2>7, <1>q
    <3>4. QED
      BY <3>1, <3>2, <3>3
  <2>11. HandlerContinues'
    <3> SUFFICES ASSUME NEW d \in ws_connections
                 PROVE  /\ Len(replies'[d]) <= Queued(d)
                        /\ \A k \in 1..MaxSent :
                             Pending(d, k)' <=> k \in Len(replies'[d]) + 1 .. Queued(d)
      BY <2>1 DEF HandlerContinues, Queued
    <3>1. /\ d \in Conns /\ Queued(d) \in Int /\ Len(replies[d]) \in Nat
          /\ Len(replies[d]) <= Queued(d)
          /\ \A k \in 1..MaxSent : Pending(d, k) <=> k \in Len(replies[d]) + 1 .. Queued(d)
      BY <1>s, <1>n, <1>l DEF ReplyInv, HandlerContinues
    <3>2. CASE d # w
      BY <3>1, <3>2, <2>5, <2>10
    <3>3. CASE d = w
      <4>1. Pending(d, current.n)
        BY <3>3, <2>1 DEF Pending
      <4>2. current.n \in Len(replies[d]) + 1 .. Queued(d)
        BY <4>1, <3>1, <2>2
      <4>3. Len(replies'[d]) = Len(replies[d]) + 1
        BY <3>3, <2>3, <2>5
      <4>4. \A k \in 1..MaxSent : Pending(d, k)' <=> Pending(d, k) /\ k # Len(replies[d]) + 1
        BY <3>1, <3>3, <2>4, <2>10
      <4>5. QED
        BY <3>1, <4>2, <4>3, <4>4
    <3>4. QED
      BY <3>2, <3>3
  <2>12. UnusedIsFresh'
    <3>1. \A d \in Conns : wsState[d] = "unused" => d # w
      BY <2>1
    <3>2. QED
      BY <3>1, <2>1, <2>5, <2>10 DEF ReplyInv, UnusedIsFresh
  <2>13. QED
    BY <2>1, <2>6, <2>8, <2>9, <2>11, <2>12
       DEF ReplyInv, InboxNumbered, CurrentIsNext, Queued
<1>9. QED
  BY <1>0, <1>1, <1>2, <1>3, <1>4, <1>5, <1>6, <1>7, <1>8
     DEF Next, vars, cmdVars, connVars, OpcuaTaskFails, Start, OpcuaConnected,
         HandlerOverflow, HandlerClosedOrTimeout, CommandExec, CommandIgnored,
         CommandRaises, CommandReplyFails, Poll, PollOverflow, PublishGet, PublishXadd,
         PublishRaises

(* Whoever else is served, whatever was dropped by a full queue or lost in a    *)
(* crash: the i-th reply on a connection answers the i-th command message sent  *)
(* on it (client.py 168-204, 865-885).                                          *)
THEOREM ReplyNumbering == Spec => []ReplyOrder
<1>1. Init => ReplyInv
  <2>1. DOMAIN <<>> = {} /\ Len(<<>>) = 0
    OBVIOUS
  <2>2. QED
    BY <2>1 DEF Init, ReplyInv, ReplyOrder, InboxNumbered, CurrentIsNext, QueueAscends,
               QueueHasNoGap, HandlerContinues, UnusedIsFresh, Pending, Queued
<1>2. QED
  BY <1>1, TypeCorrect, ReplyStep, PTL DEF Spec, ReplyInv

-----------------------------------------------------------------------------
(* What command_task has added to the response is one entry for each download  *)
(* among the commands before pos.                                              *)
EntriesInv ==
  /\ ReplyEntries
  /\ current # NoMsg => pos <= Len(current.cmds) + 1 /\ resp = Downloads(current.cmds, pos - 1)

LEMMA NoDownloads == \A cmds : Downloads(cmds, 0) = 0
<1>1. \A cmds : {i \in 1..0 : cmds[i] = "download"} = {}
  OBVIOUS
<1>2. QED
  BY <1>1, FS_EmptySet DEF Downloads

LEMMA OneMoreCommand ==
  ASSUME NEW cmds, NEW k \in Nat \ {0}
  PROVE  Downloads(cmds, k) =
           IF cmds[k] = "download" THEN Downloads(cmds, k - 1) + 1 ELSE Downloads(cmds, k - 1)
<1> DEFINE before == {i \in 1..k-1 : cmds[i] = "download"}
           upTo == {i \in 1..k : cmds[i] = "download"}
<1>1. IsFiniteSet(before)
  <2>1. IsFiniteSet(1..k-1)
    BY FS_Interval
  <2>2. before \in SUBSET (1..k-1)
    OBVIOUS
  <2>3. QED
    BY <2>1, <2>2, FS_Subset
<1>2. k \notin before
  OBVIOUS
<1>3. CASE cmds[k] = "download"
  <2>1. upTo = before \cup {k}
    BY <1>3
  <2>2. Cardinality(before \cup {k}) = Cardinality(before) + 1
    BY <1>1, <1>2, FS_AddElement
  <2>3. QED
    BY <1>3, <2>1, <2>2 DEF Downloads
<1>4. CASE cmds[k] # "download"
  <2>1. upTo = before
    BY <1>4
  <2>2. QED
    BY <1>4, <2>1 DEF Downloads
<1>5. QED
  BY <1>3, <1>4

LEMMA EntriesStep == TypeOK /\ EntriesInv /\ [Next]_vars => EntriesInv'
<1> SUFFICES ASSUME TypeOK, EntriesInv, [Next]_vars
             PROVE  EntriesInv'
  OBVIOUS
<1>t. /\ pos \in Nat \ {0}
      /\ current # NoMsg => current \in Message
      /\ cmd_queue \in Seq(Message)
      /\ replies \in [Conns -> Seq(Reply)]
  BY DEF TypeOK, CmdTypes
<1>m. \A m \in Message : m.ws \in Conns /\ m.cmds \in Seq(CmdKinds) /\ Len(m.cmds) \in Nat
  BY CmdListsAreLists DEF Message
<1>0. UNCHANGED <<current, pos, resp, replies>> => EntriesInv'
  BY DEF EntriesInv, ReplyEntries
<1>1. Crash => EntriesInv'
  BY DEF Crash, EntriesInv, ReplyEntries
<1>2. CASE CommandGet
  <2>1. current' \in Message /\ pos' = 1 /\ resp' = 0 /\ UNCHANGED replies
    BY <1>2, <1>t, HeadTailFacts DEF CommandGet
  <2>2. ReplyEntries'
    BY <2>1 DEF EntriesInv, ReplyEntries
  <2>3. pos' <= Len(current'.cmds) + 1 /\ pos' - 1 = 0
    BY <2>1, <1>m
  <2>4. QED
    BY <2>1, <2>2, <2>3, NoDownloads DEF EntriesInv
<1>3. CASE CommandExec
  <2>1. /\ current # NoMsg /\ pos <= Len(current.cmds)
        /\ UNCHANGED <<current, replies>>
        /\ pos' = pos + 1
        /\ resp' = IF current.cmds[pos] = "download" THEN resp + 1 ELSE resp
    BY <1>3 DEF CommandExec, HasCommand
  <2>2. resp' = Downloads(current.cmds, pos)
    BY <2>1, <1>t, OneMoreCommand DEF EntriesInv
  <2>3. pos' - 1 = pos /\ pos' <= Len(current.cmds) + 1
    BY <2>1, <1>t, <1>m
  <2>4. ReplyEntries'
    BY <2>1 DEF EntriesInv, ReplyEntries
  <2>5. QED
    BY <2>1, <2>2, <2>3, <2>4 DEF EntriesInv
<1>4. CASE CommandIgnored
  <2>1. /\ current # NoMsg /\ pos <= Len(current.cmds)
        /\ UNCHANGED <<current, resp, replies>>
        /\ pos' = pos + 1
        /\ current.cmds[pos] # "download"
    BY <1>4 DEF CommandIgnored, HasCommand
  <2>2. resp' = Downloads(current.cmds, pos)
    BY <2>1, <1>t, OneMoreCommand DEF EntriesInv
  <2>3. pos' - 1 = pos /\ pos' <= Len(current.cmds) + 1
    BY <2>1, <1>t, <1>m
  <2>4. ReplyEntries'
    BY <2>1 DEF EntriesInv, ReplyEntries
  <2>5. QED
    BY <2>1, <2>2, <2>3, <2>4 DEF EntriesInv
<1>5. CASE CommandReply
  <2> DEFINE w == current.ws
             r == [n |-> current.n, cmds |-> current.cmds, entries |-> resp]
  <2>1. /\ current \in Message /\ w \in Conns /\ pos > Len(current.cmds)
        /\ replies' = [replies EXCEPT ![w] = Append(replies[w], r)]
        /\ current' = NoMsg
    BY <1>5, <1>t, <1>m DEF CommandReply, AllExecuted
  <2>2. pos - 1 = Len(current.cmds)
    BY <1>5, <2>1, <1>t, <1>m DEF EntriesInv, CommandReply, AllExecuted
  <2>3. r.cmds = current.cmds /\ r.entries = Downloads(r.cmds, Len(r.cmds))
    BY <1>5, <2>2 DEF EntriesInv, CommandReply, AllExecuted
  <2>4. r \in Reply
    BY <2>1 DEF Reply, Message, TypeOK, CmdTypes
  <2> HIDE DEF r
  <2>5. ReplyEntries'
    <3> SUFFICES ASSUME NEW c \in Conns, NEW i \in DOMAIN replies'[c]
                 PROVE  replies'[c][i].entries
                          = Downloads(replies'[c][i].cmds, Len(replies'[c][i].cmds))
      BY DEF ReplyEntries
    <3>1. CASE c # w
      <4>1. replies'[c] = replies[c]
        BY <2>1, <3>1, <1>t
      <4>2. QED
        BY <4>1 DEF EntriesInv, ReplyEntries
    <3>2. CASE c = w
      <4>1. replies'[c] = Append(replies[c], r) /\ replies[c] \in Seq(Reply)
        BY <2>1, <3>2, <1>t
      <4>2. /\ Len(replies[c]) \in Nat /\ DOMAIN replies[c] = 1..Len(replies[c])
            /\ DOMAIN replies'[c] = 1..Len(replies[c]) + 1
        BY <4>1, <2>4
      <4>3. \/ i \in DOMAIN replies[c] /\ replies'[c][i] = replies[c][i]
            \/ replies'[c][i] = r
        BY <4>1, <4>2, <2>4, AppendFacts
      <4>4. QED
        BY <4>3, <2>3 DEF EntriesInv, ReplyEntries
    <3>3. QED
      BY <3>1, <3>2
  <2>6. QED
    BY <2>1, <2>5 DEF EntriesInv
<1>6. QED
  BY <1>0, <1>1, <1>2, <1>3, <1>4, <1>5
     DEF Next, vars, cmdVars, OpcuaTaskFails, Start, OpcuaConnected, ClientConnect,
         ClientSend, ClientClose, HandlerEnds, HandlerRecv, HandlerOverflow,
         HandlerClosedOrTimeout, CommandRaises, CommandReplyFails, Poll, PollOverflow,
         PublishGet, PublishXadd, PublishRaises

(* A reply has one entry for each download of its own message, whatever commands *)
(* were ignored before it and however often the process ended (client.py 172-204). *)
THEOREM EntriesAreOwn == Spec => []ReplyEntries
<1>1. Init => EntriesInv
  BY DEF Init, EntriesInv, ReplyEntries
<1>2. QED
  BY <1>1, TypeCorrect, EntriesStep, PTL DEF Spec, EntriesInv
=============================================================================
