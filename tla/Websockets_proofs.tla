--------------------------- MODULE Websockets_proofs ---------------------------
(***************************************************************************)
(* Theorems about the two ends of the browsers' websockets, for any number *)
(* of connections, sockets, streams, entries and messages and any size of  *)
(* the queues.                                                             *)
(*                                                                         *)
(* The data API's end (DataApi).  A stream's ids that were read continue   *)
(* each other, because a read begins behind the id that was saved          *)
(* (FetchedInv).  What was sent to a browser, is being sent, is queued,    *)
(* ready to be put and waits for room make one sequence, its path: a step  *)
(* leaves the path as it is, adds the newest packet or a keepalive, takes  *)
(* a keepalive away, or, when the queue is full, moves a message to the    *)
(* end (PathInv).  Order and completeness of what a browser gets are read  *)
(* off the path.                                                           *)
(*                                                                         *)
(* The browser's end (Reconnect): whatever socket an event or timer        *)
(* belongs to, only the socket in the variable is live, and one timer      *)
(* watches it (SocketsInv).                                                *)
(***************************************************************************)
EXTENDS DataApi, Reconnect, SequenceTheorems, FiniteSetTheorems, TLAPS

-----------------------------------------------------------------------------
(* Sequences of messages.                                                      *)

\* Of the messages that are not keepalives each is there once; they are in the order they were made.
Once(p) == \A i, j \in 1 .. Len(p) : i < j /\ p[i] # Keepalive => p[i] # p[j]
Rising(p) == \A i, j \in 1 .. Len(p) : i < j /\ p[i] # Keepalive /\ p[j] # Keepalive => p[i] < p[j]
Has(p, m) == \E i \in 1 .. Len(p) : p[i] = m
Below(p, n) == \A i \in 1 .. Len(p) : p[i] < n

\* w is v with one more element, e at place k.
Inserted(v, w, k, e) ==
  /\ Len(w) = Len(v) + 1 /\ k \in 1 .. Len(w)
  /\ \A i \in 1 .. Len(w) : w[i] = IF i < k THEN v[i] ELSE IF i = k THEN e ELSE v[i - 1]

(* What is there without an element is there with it, and the other way round. *)
LEMMA InsertedElements ==
  ASSUME NEW v \in Seq(Nat), NEW w \in Seq(Nat), NEW k, NEW e, Inserted(v, w, k, e)
  PROVE  /\ k \in Nat /\ Len(v) \in Nat /\ Len(w) = Len(v) + 1
         /\ \A i \in 1 .. Len(v) : v[i] = w[IF i < k THEN i ELSE i + 1]
         /\ w[k] = e
BY DEF Inserted

LEMMA InsertedHas ==
  ASSUME NEW v \in Seq(Nat), NEW w \in Seq(Nat), NEW k, NEW e, Inserted(v, w, k, e), NEW m
  PROVE  Has(w, m) <=> Has(v, m) \/ m = e
<1>1. ASSUME Has(v, m) PROVE Has(w, m)
  <2>1. PICK i \in 1 .. Len(v) : v[i] = m
    BY <1>1 DEF Has
  <2>2. (IF i < k THEN i ELSE i + 1) \in 1 .. Len(w)
    BY InsertedElements
  <2>3. w[IF i < k THEN i ELSE i + 1] = m
    BY <2>1, InsertedElements
  <2>4. QED
    BY <2>2, <2>3 DEF Has
<1>2. ASSUME m = e PROVE Has(w, m)
  BY <1>2, InsertedElements DEF Has, Inserted
<1>3. ASSUME Has(w, m), m # e PROVE Has(v, m)
  <2>1. PICK i \in 1 .. Len(w) : w[i] = m
    BY <1>3 DEF Has
  <2>2. i # k /\ w[i] = (IF i < k THEN v[i] ELSE v[i - 1])
    BY <1>3, <2>1 DEF Inserted
  <2>3. (IF i < k THEN i ELSE i - 1) \in 1 .. Len(v)
    BY <2>2, InsertedElements DEF Inserted
  <2>4. QED
    BY <2>1, <2>2, <2>3 DEF Has
<1>4. QED
  BY <1>1, <1>2, <1>3

LEMMA RemovedKeeps ==
  ASSUME NEW v \in Seq(Nat), NEW w \in Seq(Nat), NEW k, NEW e, Inserted(v, w, k, e)
  PROVE  (Once(w) => Once(v)) /\ (Rising(w) => Rising(v))
<1> DEFINE g(i) == IF i < k THEN i ELSE i + 1
<1>1. \A i \in 1 .. Len(v) : g(i) \in 1 .. Len(w) /\ v[i] = w[g(i)]
  <2>1. /\ k \in Nat /\ Len(v) \in Nat /\ Len(w) = Len(v) + 1
        /\ \A i \in 1 .. Len(v) : v[i] = w[IF i < k THEN i ELSE i + 1]
    BY InsertedElements
  <2>2. QED
    BY <2>1
<1>2. \A i, j \in 1 .. Len(v) : i < j => g(i) < g(j)
  BY InsertedElements
<1> HIDE DEF g
<1>3. QED
  BY <1>1, <1>2 DEF Once, Rising

LEMMA InsertedOnce ==
  ASSUME NEW v \in Seq(Nat), NEW w \in Seq(Nat), NEW k, NEW e, Inserted(v, w, k, e),
         Once(v), e = Keepalive \/ ~Has(v, e)
  PROVE  Once(w)
<1> DEFINE g(i) == IF i < k THEN i ELSE i - 1
<1>1. \A i \in 1 .. Len(w) : i # k => g(i) \in 1 .. Len(v) /\ w[i] = v[g(i)]
  BY InsertedElements DEF Inserted
<1>2. \A i, j \in 1 .. Len(w) : i # k /\ j # k /\ i < j => g(i) < g(j)
  <2>1. k \in Nat
    BY InsertedElements
  <2>2. QED
    BY <2>1
<1> HIDE DEF g
<1>3. w[k] = e
  BY InsertedElements
<1>4. \A i \in 1 .. Len(w) : i # k => w[i] # e \/ e = Keepalive
  BY <1>1 DEF Has
<1>5. SUFFICES ASSUME NEW i \in 1 .. Len(w), NEW j \in 1 .. Len(w), i < j, w[i] # Keepalive
               PROVE  w[i] # w[j]
  BY DEF Once
<1>6. CASE i = k \/ j = k
  BY <1>3, <1>4, <1>5, <1>6
<1>7. CASE i # k /\ j # k
  <2>1. g(i) \in 1 .. Len(v) /\ g(j) \in 1 .. Len(v) /\ g(i) < g(j) /\ w[i] = v[g(i)] /\ w[j] = v[g(j)]
    BY <1>1, <1>2, <1>5, <1>7
  <2>2. QED
    BY <1>5, <2>1 DEF Once
<1>8. QED
  BY <1>6, <1>7

LEMMA InsertedRising ==
  ASSUME NEW v \in Seq(Nat), NEW w \in Seq(Nat), NEW k, NEW e, Inserted(v, w, k, e),
         Rising(v), e = Keepalive \/ (k = Len(w) /\ Below(v, e))
  PROVE  Rising(w)
<1> DEFINE g(i) == IF i < k THEN i ELSE i - 1
<1>1. \A i \in 1 .. Len(w) : i # k => g(i) \in 1 .. Len(v) /\ w[i] = v[g(i)]
  BY InsertedElements DEF Inserted
<1>2. \A i, j \in 1 .. Len(w) : i # k /\ j # k /\ i < j => g(i) < g(j)
  <2>1. k \in Nat
    BY InsertedElements
  <2>2. QED
    BY <2>1
<1> HIDE DEF g
<1>3. w[k] = e
  BY InsertedElements
<1>4. e = Keepalive \/ (\A i \in 1 .. Len(w) : i # k => i < k /\ w[i] < e)
  <2>1. ASSUME e # Keepalive, NEW i \in 1 .. Len(w), i # k PROVE i < k /\ w[i] < e
    <3>1. k = Len(w) /\ Below(v, e) /\ k \in Nat
      BY <2>1, InsertedElements
    <3>2. w[i] = v[g(i)] /\ g(i) \in 1 .. Len(v)
      BY <1>1, <2>1
    <3>3. QED
      BY <2>1, <3>1, <3>2 DEF Below
  <2>2. QED
    BY <2>1
<1>5. SUFFICES ASSUME NEW i \in 1 .. Len(w), NEW j \in 1 .. Len(w), i < j, w[i] # Keepalive, w[j] # Keepalive
               PROVE  w[i] < w[j]
  BY DEF Rising
<1>6. CASE i = k \/ j = k
  <2>1. k \in Nat
    BY InsertedElements
  <2>2. QED
    BY <1>3, <1>4, <1>5, <1>6, <2>1
<1>7. CASE i # k /\ j # k
  <2>1. g(i) \in 1 .. Len(v) /\ g(j) \in 1 .. Len(v) /\ g(i) < g(j) /\ w[i] = v[g(i)] /\ w[j] = v[g(j)]
    BY <1>1, <1>2, <1>5, <1>7
  <2>2. QED
    BY <1>5, <2>1 DEF Rising
<1>8. QED
  BY <1>6, <1>7

LEMMA InsertedBetween ==
  ASSUME NEW x \in Seq(Nat), NEW z \in Seq(Nat), NEW e \in Nat
  PROVE  Inserted(x \o z, x \o (<<e>> \o z), Len(x) + 1, e)
<1>1. <<e>> \in Seq(Nat) /\ Len(<<e>>) = 1 /\ <<e>>[1] = e /\ Len(x) \in Nat /\ Len(z) \in Nat
  OBVIOUS
<1>2. <<e>> \o z \in Seq(Nat) /\ Len(<<e>> \o z) = Len(z) + 1
      /\ \A i \in 1 .. Len(z) + 1 : (<<e>> \o z)[i] = IF i = 1 THEN e ELSE z[i - 1]
  BY <1>1, ConcatProperties
<1>3. Len(x \o z) = Len(x) + Len(z)
      /\ \A i \in 1 .. Len(x) + Len(z) : (x \o z)[i] = IF i <= Len(x) THEN x[i] ELSE z[i - Len(x)]
  BY ConcatProperties
<1>4. Len(x \o (<<e>> \o z)) = Len(x) + Len(z) + 1
      /\ \A i \in 1 .. Len(x) + Len(z) + 1 :
           (x \o (<<e>> \o z))[i] = IF i <= Len(x) THEN x[i] ELSE (<<e>> \o z)[i - Len(x)]
  BY <1>1, <1>2, ConcatProperties
<1>5. ASSUME NEW i \in 1 .. Len(x) + Len(z) + 1
      PROVE  (x \o (<<e>> \o z))[i]
               = IF i < Len(x) + 1 THEN (x \o z)[i] ELSE IF i = Len(x) + 1 THEN e ELSE (x \o z)[i - 1]
  <2>1. CASE i <= Len(x)
    BY <1>1, <1>3, <1>4, <2>1
  <2>2. CASE i = Len(x) + 1
    BY <1>1, <1>2, <1>4, <2>2
  <2>3. CASE i > Len(x) + 1
    <3>1. (x \o (<<e>> \o z))[i] = (<<e>> \o z)[i - Len(x)]
      BY <1>1, <1>4, <2>3
    <3>2. (<<e>> \o z)[i - Len(x)] = z[i - Len(x) - 1]
      BY <1>1, <1>2, <2>3
    <3>3. (x \o z)[i - 1] = z[i - Len(x) - 1]
      <4>1. i - 1 \in 1 .. Len(x) + Len(z) /\ ~(i - 1 <= Len(x)) /\ (i - 1) - Len(x) = i - Len(x) - 1
        BY <1>1, <2>3
      <4>2. (x \o z)[i - 1] = z[(i - 1) - Len(x)]
        BY <1>3, <4>1
      <4>3. QED
        BY <4>1, <4>2
    <3>4. QED
      <4>1. ~(i < Len(x) + 1) /\ i # Len(x) + 1
        BY <1>1, <2>3
      <4>2. QED
        BY <3>1, <3>2, <3>3, <4>1
  <2>4. QED
    BY <1>1, <2>1, <2>2, <2>3
<1>6. QED
  BY <1>1, <1>3, <1>4, <1>5 DEF Inserted

LEMMA BeginningKeeps ==
  ASSUME NEW x \in Seq(Nat), NEW z \in Seq(Nat)
  PROVE  (Once(x \o z) => Once(x)) /\ (Rising(x \o z) => Rising(x))
<1>1. Len(x) \in Nat /\ Len(x \o z) >= Len(x) /\ \A i \in 1 .. Len(x) : (x \o z)[i] = x[i]
  BY ConcatProperties
<1>2. ASSUME NEW i \in 1 .. Len(x) PROVE i \in 1 .. Len(x \o z) /\ (x \o z)[i] = x[i]
  <2>1. Len(x \o z) \in Nat
    BY ConcatProperties
  <2>2. QED
    BY <1>1, <2>1
<1>3. Once(x \o z) => Once(x)
  BY <1>2 DEF Once
<1>4. Rising(x \o z) => Rising(x)
  BY <1>2 DEF Rising
<1>5. QED
  BY <1>3, <1>4

-----------------------------------------------------------------------------
(* Types.                                                                      *)

StreamsOK ==
  /\ stream \in [Streams -> Nat]
  /\ redis_streams \in [Streams -> Nat \cup {Last}] /\ from \in [Streams -> Nat]
  /\ fetched \in [Streams -> Seq(Nat)]

QueuesOK ==
  /\ packets \in Nat
  /\ ready \in [Conns -> Seq(Nat)] /\ putters \in [Conns -> Seq(Nat)] /\ queue \in [Conns -> Seq(Nat)]
  /\ received \in [Conns -> Seq(Nat)]
  /\ sending \in [Conns -> Nat \cup {Idle}]
  /\ due \in [Conns -> SUBSET Nat]
  /\ ws_connections \subseteq Conns

LEMMA NothingQueued == Empty \in [Conns -> Seq(Nat)] /\ \A c \in Conns : Empty[c] = <<>>
BY DEF Empty

(* The entries of a read are numbered on from where it began. *)
LEMMA EntriesAre ==
  ASSUME StreamsOK, NEW s \in Streams, NewIn(s)
  PROVE  /\ Entries(s) \in Seq(Nat) /\ Len(Entries(s)) = stream[s] - from[s]
         /\ \A i \in 1 .. stream[s] - from[s] : Entries(s)[i] = from[s] + i
<1>1. stream[s] \in Nat /\ from[s] \in Nat /\ from[s] < stream[s]
  BY DEF StreamsOK, NewIn
<1> DEFINE n == stream[s] - from[s]
<1>2. n \in Nat
  BY <1>1
<1>3. \A i \in 1 .. n : from[s] + i \in Nat
  BY <1>1, <1>2
<1>4. Entries(s) = [i \in 1 .. n |-> from[s] + i]
  BY DEF Entries
<1> HIDE DEF n
<1>5. [i \in 1 .. n |-> from[s] + i] \in Seq(Nat) /\ Len([i \in 1 .. n |-> from[s] + i]) = n
  BY <1>2, <1>3
<1>6. QED
  BY <1>4, <1>5 DEF n

LEMMA StreamsStep == StreamsOK /\ [Next]_vars => StreamsOK'
<1> SUFFICES ASSUME StreamsOK, [Next]_vars PROVE StreamsOK'
  OBVIOUS
<1> USE DEF redisVars, connVars, queueVars
<1>1. ASSUME NEW s \in Streams, Xadd(s) PROVE StreamsOK'
  BY <1>1 DEF Xadd, StreamsOK
<1>2. CASE XreadCall
  BY <1>2 DEF XreadCall, StreamsOK, Last
<1>3. ASSUME NEW read \in SUBSET Streams, XreadReturns(read) PROVE StreamsOK'
  <2>1. fetched' \in [Streams -> Seq(Nat)]
    <3>1. \A s \in read : Entries(s) \in Seq(Nat)
      BY <1>3, EntriesAre DEF XreadReturns
    <3>2. \A s \in Streams : fetched[s] \in Seq(Nat) /\ (s \in read => fetched[s] \o Entries(s) \in Seq(Nat))
      BY <3>1, ConcatProperties DEF StreamsOK
    <3>3. QED
      BY <1>3, <3>2 DEF XreadReturns
  <2>2. redis_streams' \in [Streams -> Nat \cup {Last}] /\ stream' = stream
    BY <1>3 DEF XreadReturns, SaveIds, StreamsOK
  <2>3. from' \in [Streams -> Nat]
    BY <1>3 DEF XreadReturns
  <2>4. QED
    BY <2>1, <2>2, <2>3 DEF StreamsOK
<1>4. CASE XreadEmpty
  BY <1>4 DEF XreadEmpty, StreamsOK
<1>5. CASE RedisTaskFails
  BY <1>5 DEF RedisTaskFails, StreamsOK
<1>6. CASE Start
  BY <1>6 DEF Start, StreamsOK
<1>7. CASE SendKeepalive
  BY <1>7 DEF SendKeepalive, StreamsOK
<1>8. ASSUME NEW c \in Conns, ClientConnect(c) \/ ClientClose(c) \/ Put(c) \/ PutWaits(c) \/ Get(c)
                               \/ SendReturns(c) \/ SendRaises(c)
      PROVE  StreamsOK'
  BY <1>8 DEF ClientConnect, ClientClose, Put, PutWaits, Get, SendReturns, SendRaises, StreamsOK
<1>9. CASE UNCHANGED vars
  BY <1>9 DEF vars, StreamsOK
<1>10. QED
  BY <1>1, <1>2, <1>3, <1>4, <1>5, <1>6, <1>7, <1>8, <1>9 DEF Next

-----------------------------------------------------------------------------
(* What is read.                                                               *)

\* An id that was saved is that of the last entry that was read, and a read begins behind it.
FetchedInv ==
  \A s \in Streams :
    /\ \A i \in 2 .. Len(fetched[s]) : fetched[s][i] = fetched[s][i - 1] + 1
    /\ fetched[s] # <<>> => redis_streams[s] = fetched[s][Len(fetched[s])]
    /\ reading /\ fetched[s] # <<>> => from[s] = redis_streams[s]

(* Entries behind the last one that was read continue it. *)
LEMMA Continues ==
  ASSUME NEW f \in Seq(Nat), NEW e \in Seq(Nat), NEW n \in Nat, e # <<>>,
         \A i \in 2 .. Len(f) : f[i] = f[i - 1] + 1, \A i \in 1 .. Len(e) : e[i] = n + i,
         f # <<>> => f[Len(f)] = n
  PROVE  /\ \A i \in 2 .. Len(f \o e) : (f \o e)[i] = (f \o e)[i - 1] + 1
         /\ f \o e # <<>> /\ (f \o e)[Len(f \o e)] = n + Len(e)
<1>1. Len(f) \in Nat /\ Len(e) \in Nat \ {0} /\ Len(f \o e) = Len(f) + Len(e) /\ f \o e \in Seq(Nat)
  BY ConcatProperties, EmptySeq
<1>2. \A i \in 1 .. Len(f) + Len(e) : (f \o e)[i] = IF i <= Len(f) THEN f[i] ELSE e[i - Len(f)]
  BY ConcatProperties
<1>3. ASSUME NEW i \in 2 .. Len(f) + Len(e) PROVE (f \o e)[i] = (f \o e)[i - 1] + 1
  <2>1. i \in 1 .. Len(f) + Len(e) /\ i - 1 \in 1 .. Len(f) + Len(e)
    BY <1>1
  <2>2. CASE i <= Len(f)
    BY <1>1, <1>2, <2>1, <2>2
  <2>3. CASE i = Len(f) + 1
    <3>1. (f \o e)[i] = e[1] /\ (f \o e)[i - 1] = f[Len(f)] /\ f # <<>>
      BY <1>1, <1>2, <2>1, <2>3
    <3>2. QED
      BY <1>1, <3>1
  <2>4. CASE i > Len(f) + 1
    <3>1. (f \o e)[i] = e[i - Len(f)] /\ (f \o e)[i - 1] = e[(i - 1) - Len(f)]
      BY <1>1, <1>2, <2>1, <2>4
    <3>2. i - Len(f) \in 1 .. Len(e) /\ (i - 1) - Len(f) \in 1 .. Len(e)
      BY <1>1, <2>4
    <3>3. e[i - Len(f)] = n + (i - Len(f)) /\ e[(i - 1) - Len(f)] = n + ((i - 1) - Len(f))
      BY <3>2
    <3>4. QED
      BY <1>1, <3>1, <3>3
  <2>5. QED
    BY <1>1, <2>2, <2>3, <2>4
<1>4. (f \o e)[Len(f) + Len(e)] = n + Len(e)
  <2>1. (f \o e)[Len(f) + Len(e)] = e[(Len(f) + Len(e)) - Len(f)]
    BY <1>1, <1>2
  <2>2. (Len(f) + Len(e)) - Len(f) = Len(e)
    BY <1>1
  <2>3. QED
    BY <1>1, <2>1, <2>2
<1>5. f \o e # <<>>
  BY <1>1
<1>6. QED
  BY <1>1, <1>3, <1>4, <1>5

LEMMA FetchedSame ==
  FetchedInv /\ UNCHANGED <<fetched, redis_streams, from, reading>> => FetchedInv'
BY DEF FetchedInv

LEMMA FetchedStep == StreamsOK /\ FetchedInv /\ [Next]_vars => FetchedInv'
<1> SUFFICES ASSUME StreamsOK, FetchedInv, [Next]_vars PROVE FetchedInv'
  OBVIOUS
<1> USE DEF redisVars, connVars, queueVars
<1>1. ASSUME NEW s \in Streams, Xadd(s) PROVE FetchedInv'
  BY <1>1, FetchedSame DEF Xadd
<1>2. CASE XreadCall
  <2> SUFFICES ASSUME NEW s \in Streams, fetched[s] # <<>> PROVE from'[s] = redis_streams[s]
    BY <1>2 DEF XreadCall, FetchedInv
  <2>1. redis_streams[s] = fetched[s][Len(fetched[s])] /\ fetched[s] \in Seq(Nat)
    BY DEF FetchedInv, StreamsOK
  <2>2. redis_streams[s] \in Nat
    BY <2>1, EmptySeq, ElementOfSeq
  <2>3. QED
    BY <1>2, <2>2 DEF XreadCall, Last
<1>3. ASSUME NEW read \in SUBSET Streams, XreadReturns(read) PROVE FetchedInv'
  <2> SUFFICES ASSUME NEW s \in Streams
               PROVE  /\ \A i \in 2 .. Len(fetched'[s]) : fetched'[s][i] = fetched'[s][i - 1] + 1
                      /\ fetched'[s] # <<>> => redis_streams'[s] = fetched'[s][Len(fetched'[s])]
    BY <1>3 DEF XreadReturns, FetchedInv
  <2>1. CASE s \notin read
    BY <1>3, <2>1 DEF XreadReturns, SaveIds, FetchedInv
  <2>2. CASE s \in read
    <3>1. fetched'[s] = fetched[s] \o Entries(s) /\ redis_streams'[s] = stream[s]
      BY <1>3, <2>2 DEF XreadReturns, SaveIds
    <3>2. NewIn(s) /\ reading
      BY <1>3, <2>2 DEF XreadReturns
    <3>3. /\ Entries(s) \in Seq(Nat) /\ Len(Entries(s)) = stream[s] - from[s]
          /\ \A i \in 1 .. Len(Entries(s)) : Entries(s)[i] = from[s] + i
      BY <3>2, EntriesAre
    <3>4. stream[s] \in Nat /\ from[s] \in Nat /\ from[s] < stream[s] /\ fetched[s] \in Seq(Nat)
      BY <3>2 DEF StreamsOK, NewIn
    <3>5. Entries(s) # <<>>
      BY <3>3, <3>4
    <3>6. /\ fetched[s] # <<>> => fetched[s][Len(fetched[s])] = from[s]
          /\ \A i \in 2 .. Len(fetched[s]) : fetched[s][i] = fetched[s][i - 1] + 1
      BY <3>2 DEF FetchedInv
    <3>7. /\ \A i \in 2 .. Len(fetched'[s]) : fetched'[s][i] = fetched'[s][i - 1] + 1
          /\ fetched'[s][Len(fetched'[s])] = from[s] + Len(Entries(s))
      <4> DEFINE f == fetched[s]
                 e == Entries(s)
                 n == from[s]
      <4>1. /\ f \in Seq(Nat) /\ e \in Seq(Nat) /\ n \in Nat /\ e # <<>>
            /\ \A i \in 2 .. Len(f) : f[i] = f[i - 1] + 1
            /\ \A i \in 1 .. Len(e) : e[i] = n + i
            /\ f # <<>> => f[Len(f)] = n
        BY <3>3, <3>4, <3>5, <3>6
      <4>2. fetched'[s] = f \o e
        BY <3>1
      <4> HIDE DEF f, e, n
      <4>3. /\ \A i \in 2 .. Len(f \o e) : (f \o e)[i] = (f \o e)[i - 1] + 1
            /\ (f \o e)[Len(f \o e)] = n + Len(e)
        BY <4>1, Continues
      <4>4. QED
        BY <4>2, <4>3 DEF e, n
    <3>8. from[s] + Len(Entries(s)) = stream[s]
      BY <3>3, <3>4
    <3>9. QED
      BY <3>1, <3>7, <3>8
  <2>3. QED
    BY <2>1, <2>2
<1>4. CASE XreadEmpty
  BY <1>4 DEF XreadEmpty, FetchedInv
<1>5. CASE RedisTaskFails
  <2>1. ~reading' /\ \A s \in Streams : fetched'[s] = <<>>
    BY <1>5 DEF RedisTaskFails
  <2>2. QED
    BY <2>1 DEF FetchedInv
<1>6. CASE Start
  BY <1>6, FetchedSame DEF Start
<1>7. CASE SendKeepalive
  BY <1>7, FetchedSame DEF SendKeepalive
<1>8. ASSUME NEW c \in Conns, ClientConnect(c) \/ ClientClose(c) \/ Put(c) \/ PutWaits(c) \/ Get(c)
                               \/ SendReturns(c) \/ SendRaises(c)
      PROVE  FetchedInv'
  BY <1>8, FetchedSame DEF ClientConnect, ClientClose, Put, PutWaits, Get, SendReturns, SendRaises
<1>9. CASE UNCHANGED vars
  BY <1>9, FetchedSame DEF vars
<1>10. QED
  BY <1>1, <1>2, <1>3, <1>4, <1>5, <1>6, <1>7, <1>8, <1>9 DEF Next

(* From the first entry it reads of a stream, a process reads every entry, once and in    *)
(* order, whatever is added while it does not read (main.py 91-105).                       *)
THEOREM NoGapIsRead == Spec => []FetchedWithoutGap
<1>1. Init => StreamsOK /\ FetchedInv
  <2> SUFFICES ASSUME Init PROVE StreamsOK /\ FetchedInv
    OBVIOUS
  <2>1. StreamsOK
    BY DEF Init, StreamsOK
  <2>2. \A s \in Streams : fetched[s] = <<>>
    BY DEF Init
  <2>3. QED
    BY <2>1, <2>2 DEF FetchedInv
<1>2. FetchedInv => FetchedWithoutGap
  BY DEF FetchedInv, FetchedWithoutGap
<1>3. QED
  BY <1>1, <1>2, StreamsStep, FetchedStep, PTL DEF Spec

-----------------------------------------------------------------------------
(* What is under way to a browser, from what was sent to what waits for room.  *)

\* Four parts one after the other, and what the first three are together.
Line(r, f, q, z) == r \o (f \o (q \o z))
Leads(g, r, f, q) == \A z \in Seq(Nat) : Line(r, f, q, z) = g \o z
InFlight(c) == IF sending[c] = Idle THEN <<>> ELSE <<sending[c]>>
Path(c) == Line(received[c], InFlight(c), queue[c], ready[c] \o putters[c])

(* The path of a connection has each of its packets once, in the order they were made    *)
(* while the queue has had room, and every packet it is due.                              *)
PathInv(c) ==
  /\ Once(Path(c)) /\ Below(Path(c), packets + 1)
  /\ c \notin overflowed => Rising(Path(c)) /\ putters[c] = <<>>
  /\ \A m \in due[c] : m # Keepalive /\ Has(Path(c), m)
  /\ \A i \in 1 .. Len(received[c]) : received[c][i] # Keepalive

LEMMA HeadFirst ==
  ASSUME NEW s \in Seq(Nat), s # <<>>
  PROVE  Head(s) \in Nat /\ Tail(s) \in Seq(Nat) /\ s = <<Head(s)>> \o Tail(s)
<1>1. Head(s) \in Nat /\ Tail(s) \in Seq(Nat) /\ Len(s) \in Nat \ {0} /\ Len(Tail(s)) = Len(s) - 1
      /\ \A i \in 1 .. Len(s) - 1 : Tail(s)[i] = s[i + 1]
  BY HeadTailProperties, EmptySeq
<1>2. <<Head(s)>> \in Seq(Nat) /\ Len(<<Head(s)>>) = 1 /\ <<Head(s)>>[1] = s[1]
  BY <1>1
<1>3. Len(<<Head(s)>> \o Tail(s)) = Len(s) /\ <<Head(s)>> \o Tail(s) \in Seq(Nat)
  BY <1>1, <1>2, ConcatProperties
<1>4. \A i \in 1 .. Len(s) : s[i] = (<<Head(s)>> \o Tail(s))[i]
  BY <1>1, <1>2, ConcatProperties
<1>5. QED
  BY <1>1, <1>3, <1>4, SeqEqual

\* The three parts are the same whichever two are joined first.
Joined(a, b, z) == (a \o b) \o z = a \o (b \o z)

LEMMA Associative ==
  ASSUME NEW a \in Seq(Nat), NEW b \in Seq(Nat), NEW z \in Seq(Nat)
  PROVE  Joined(a, b, z)
<1> DEFINE l == (a \o b) \o z
           r == a \o (b \o z)
<1>1. Len(a) \in Nat /\ Len(b) \in Nat /\ Len(z) \in Nat
  OBVIOUS
<1>2. /\ a \o b \in Seq(Nat) /\ Len(a \o b) = Len(a) + Len(b)
      /\ \A i \in 1 .. Len(a) + Len(b) : (a \o b)[i] = IF i <= Len(a) THEN a[i] ELSE b[i - Len(a)]
  BY ConcatProperties
<1>3. /\ b \o z \in Seq(Nat) /\ Len(b \o z) = Len(b) + Len(z)
      /\ \A i \in 1 .. Len(b) + Len(z) : (b \o z)[i] = IF i <= Len(b) THEN b[i] ELSE z[i - Len(b)]
  BY ConcatProperties
<1>4. /\ l \in Seq(Nat) /\ Len(l) = Len(a) + Len(b) + Len(z)
      /\ \A i \in 1 .. Len(a) + Len(b) + Len(z) :
           l[i] = IF i <= Len(a) + Len(b) THEN (a \o b)[i] ELSE z[i - (Len(a) + Len(b))]
  BY <1>2, ConcatProperties
<1>5. /\ r \in Seq(Nat) /\ Len(r) = Len(a) + Len(b) + Len(z)
      /\ \A i \in 1 .. Len(a) + Len(b) + Len(z) :
           r[i] = IF i <= Len(a) THEN a[i] ELSE (b \o z)[i - Len(a)]
  <2>1. /\ r \in Seq(Nat) /\ Len(r) = Len(a) + (Len(b) + Len(z))
        /\ \A i \in 1 .. Len(a) + (Len(b) + Len(z)) :
             r[i] = IF i <= Len(a) THEN a[i] ELSE (b \o z)[i - Len(a)]
    BY <1>3, ConcatProperties
  <2>2. Len(a) + (Len(b) + Len(z)) = Len(a) + Len(b) + Len(z)
    BY <1>1
  <2>3. QED
    BY <2>1, <2>2
<1> HIDE DEF l, r
<1>6. ASSUME NEW i \in 1 .. Len(a) + Len(b) + Len(z) PROVE l[i] = r[i]
  <2>1. CASE i <= Len(a)
    <3>1. i \in 1 .. Len(a) + Len(b) /\ i <= Len(a) + Len(b)
      BY <1>1, <2>1
    <3>2. QED
      BY <1>2, <1>4, <1>5, <2>1, <3>1
  <2>2. CASE i > Len(a) /\ i <= Len(a) + Len(b)
    <3>1. i \in 1 .. Len(a) + Len(b) /\ ~(i <= Len(a)) /\ i - Len(a) \in 1 .. Len(b) + Len(z) /\ i - Len(a) <= Len(b)
      BY <1>1, <2>2
    <3>2. l[i] = b[i - Len(a)] /\ r[i] = b[i - Len(a)]
      BY <1>2, <1>3, <1>4, <1>5, <2>2, <3>1
    <3>3. QED
      BY <3>2
  <2>3. CASE i > Len(a) + Len(b)
    <3>1. /\ ~(i <= Len(a)) /\ ~(i <= Len(a) + Len(b)) /\ i - Len(a) \in 1 .. Len(b) + Len(z) /\ ~(i - Len(a) <= Len(b))
          /\ (i - Len(a)) - Len(b) = i - (Len(a) + Len(b))
      BY <1>1, <2>3
    <3>2. l[i] = z[i - (Len(a) + Len(b))]
      BY <1>4, <3>1
    <3>3. r[i] = z[(i - Len(a)) - Len(b)]
      BY <1>3, <1>5, <3>1
    <3>4. QED
      BY <3>1, <3>2, <3>3
  <2>4. QED
    BY <1>1, <2>1, <2>2, <2>3
<1>7. l = r
  BY <1>4, <1>5, <1>6, SeqEqual
<1>8. QED
  BY <1>7 DEF l, r, Joined

(* The parts of a path regrouped. *)
LEMMA Regrouped ==
  ASSUME NEW r \in Seq(Nat), NEW f \in Seq(Nat), NEW q \in Seq(Nat)
  PROVE  \E g \in Seq(Nat) : Leads(g, r, f, q)
<1> DEFINE h == r \o f
           g == h \o q
<1>1. h \in Seq(Nat) /\ \A w \in Seq(Nat) : Joined(r, f, w)
  BY Associative, ConcatProperties
<1>2. \A w \in Seq(Nat) : h \o w = r \o (f \o w)
  BY <1>1 DEF Joined
<1> HIDE DEF h
<1>3. g \in Seq(Nat) /\ \A z \in Seq(Nat) : Joined(h, q, z)
  BY <1>1, Associative, ConcatProperties
<1>4. \A z \in Seq(Nat) : g \o z = h \o (q \o z)
  BY <1>3 DEF Joined
<1> HIDE DEF g
<1>5. ASSUME NEW z \in Seq(Nat) PROVE Line(r, f, q, z) = g \o z
  <2>1. q \o z \in Seq(Nat)
    BY ConcatProperties
  <2>2. g \o z = r \o (f \o (q \o z))
    BY <1>2, <1>4, <2>1
  <2>3. QED
    BY <2>2 DEF Line
<1>6. QED
  BY <1>3, <1>5 DEF Leads

(* An element that moves from the head of one part to the end of the part before it. *)
LEMMA Moved ==
  ASSUME NEW a \in Seq(Nat), NEW b \in Seq(Nat), b # <<>>, NEW z \in Seq(Nat)
  PROVE  Append(a, Head(b)) \o (Tail(b) \o z) = a \o (b \o z)
<1>1. Head(b) \in Nat /\ Tail(b) \in Seq(Nat) /\ b = <<Head(b)>> \o Tail(b)
  BY HeadFirst
<1> DEFINE h == <<Head(b)>>
           t == Tail(b)
<1>2. h \in Seq(Nat) /\ t \in Seq(Nat) /\ b = h \o t /\ Append(a, Head(b)) = a \o h
  BY <1>1, AppendIsConcat
<1> HIDE DEF h, t
<1>3. t \o z \in Seq(Nat)
  BY <1>2, ConcatProperties
<1>4. Joined(a, h, t \o z) /\ Joined(h, t, z)
  BY <1>2, <1>3, Associative
<1>5. Append(a, Head(b)) \o (t \o z) = a \o (b \o z)
  BY <1>2, <1>4 DEF Joined
<1>6. QED
  BY <1>5 DEF t

LEMMA InsertedAlone ==
  ASSUME NEW v \in Seq(Nat), NEW w \in Seq(Nat), NEW k, NEW e, Inserted(v, w, k, e), Once(w), e # Keepalive
  PROVE  ~Has(v, e)
<1> SUFFICES ASSUME NEW i \in 1 .. Len(v), v[i] = e PROVE FALSE
  BY DEF Has
<1> DEFINE j == IF i < k THEN i ELSE i + 1
<1>1. k \in 1 .. Len(w) /\ j \in 1 .. Len(w) /\ j # k /\ Len(w) \in Nat
  BY InsertedElements DEF Inserted
<1>2. w[j] = e /\ w[k] = e
  BY InsertedElements
<1> HIDE DEF j
<1>3. j < k \/ k < j
  BY <1>1
<1>4. QED
  BY <1>1, <1>2, <1>3 DEF Once

LEMMA BelowAll ==
  ASSUME NEW p \in Seq(Nat), NEW n \in Nat
  PROVE  Below(p, n) <=> \A m \in Nat : Has(p, m) => m < n
BY ElementOfSeq DEF Below, Has

LEMMA PathTypes ==
  ASSUME QueuesOK, NEW c \in Conns
  PROVE  /\ received[c] \in Seq(Nat) /\ InFlight(c) \in Seq(Nat) /\ queue[c] \in Seq(Nat)
         /\ ready[c] \in Seq(Nat) /\ putters[c] \in Seq(Nat)
         /\ ready[c] \o putters[c] \in Seq(Nat) /\ queue[c] \o (ready[c] \o putters[c]) \in Seq(Nat)
         /\ InFlight(c) \o (queue[c] \o (ready[c] \o putters[c])) \in Seq(Nat)
         /\ Path(c) \in Seq(Nat)
<1>1. /\ received[c] \in Seq(Nat) /\ queue[c] \in Seq(Nat)
      /\ ready[c] \in Seq(Nat) /\ putters[c] \in Seq(Nat) /\ sending[c] \in Nat \cup {Idle}
  BY DEF QueuesOK
<1>2. InFlight(c) \in Seq(Nat)
  BY <1>1 DEF InFlight
<1>3. ready[c] \o putters[c] \in Seq(Nat) /\ queue[c] \o (ready[c] \o putters[c]) \in Seq(Nat)
  BY <1>1, ConcatProperties
<1>4. InFlight(c) \o (queue[c] \o (ready[c] \o putters[c])) \in Seq(Nat)
  BY <1>2, <1>3, ConcatProperties
<1>5. Path(c) \in Seq(Nat)
  BY <1>1, <1>4, ConcatProperties DEF Path, Line
<1>6. QED
  BY <1>1, <1>2, <1>3, <1>4, <1>5

LEMMA QueuesStep == QueuesOK /\ [Next]_vars => QueuesOK'
<1> SUFFICES ASSUME QueuesOK, [Next]_vars PROVE QueuesOK'
  OBVIOUS
<1> USE DEF redisVars, connVars, queueVars
<1>1. ASSUME NEW s \in Streams, Xadd(s) PROVE QueuesOK'
  BY <1>1 DEF Xadd, QueuesOK
<1>2. CASE XreadCall
  BY <1>2 DEF XreadCall, QueuesOK
<1>3. ASSUME NEW read \in SUBSET Streams, XreadReturns(read) PROVE QueuesOK'
  <2>1. packets' \in Nat /\ packets' = packets + 1
    BY <1>3 DEF XreadReturns, QueuesOK
  <2>2. ready' \in [Conns -> Seq(Nat)]
    <3>1. \A c \in Conns : ready[c] \in Seq(Nat) /\ Append(ready[c], packets') \in Seq(Nat)
      BY <2>1, AppendProperties DEF QueuesOK
    <3>2. QED
      BY <1>3, <3>1 DEF XreadReturns, Broadcast
  <2>3. due' \in [Conns -> SUBSET Nat]
    BY <1>3, <2>1 DEF XreadReturns, QueuesOK
  <2>4. QED
    BY <1>3, <2>1, <2>2, <2>3 DEF XreadReturns, QueuesOK
<1>4. CASE XreadEmpty
  BY <1>4 DEF XreadEmpty, QueuesOK
<1>5. CASE RedisTaskFails
  BY <1>5, NothingQueued DEF RedisTaskFails, QueuesOK
<1>6. CASE Start
  BY <1>6 DEF Start, QueuesOK
<1>7. CASE SendKeepalive
  <2>1. ready' \in [Conns -> Seq(Nat)]
    <3>1. \A c \in Conns : ready[c] \in Seq(Nat) /\ Append(ready[c], Keepalive) \in Seq(Nat)
      BY AppendProperties DEF QueuesOK, Keepalive
    <3>2. QED
      BY <1>7, <3>1 DEF SendKeepalive
  <2>2. QED
    BY <1>7, <2>1 DEF SendKeepalive, QueuesOK
<1>8. ASSUME NEW c \in Conns, ClientConnect(c) \/ ClientClose(c) PROVE QueuesOK'
  BY <1>8 DEF ClientConnect, ClientClose, QueuesOK
<1>9. ASSUME NEW c \in Conns, Put(c) \/ PutWaits(c) PROVE QueuesOK'
  <2>1. Head(ready[c]) \in Nat /\ Tail(ready[c]) \in Seq(Nat)
    BY <1>9, PathTypes, HeadFirst DEF Put, PutWaits
  <2>2. Append(queue[c], Head(ready[c])) \in Seq(Nat) /\ Append(putters[c], Head(ready[c])) \in Seq(Nat)
    BY <2>1, PathTypes, AppendProperties
  <2>3. QED
    BY <1>9, <2>1, <2>2 DEF Put, PutWaits, QueuesOK
<1>10. ASSUME NEW c \in Conns, Get(c) PROVE QueuesOK'
  <2>1. Head(queue[c]) \in Nat /\ Tail(queue[c]) \in Seq(Nat)
    BY <1>10, PathTypes, HeadFirst DEF Get
  <2>2. putters[c] # <<>> => /\ Tail(putters[c]) \in Seq(Nat)
                             /\ Append(ready[c], Head(putters[c])) \in Seq(Nat)
    BY PathTypes, HeadFirst, AppendProperties
  <2>3. ready' \in [Conns -> Seq(Nat)] /\ putters' \in [Conns -> Seq(Nat)]
    BY <1>10, <2>2 DEF Get, QueuesOK
  <2>4. QED
    BY <1>10, <2>1, <2>3 DEF Get, QueuesOK
<1>11. ASSUME NEW c \in Conns, SendReturns(c) PROVE QueuesOK'
  <2>1. sending[c] \in Nat
    BY <1>11 DEF SendReturns, QueuesOK
  <2>2. Append(received[c], sending[c]) \in Seq(Nat)
    BY <2>1, PathTypes, AppendProperties
  <2>3. QED
    BY <1>11, <2>2 DEF SendReturns, QueuesOK
<1>12. ASSUME NEW c \in Conns, SendRaises(c) PROVE QueuesOK'
  BY <1>12, EmptySeq DEF SendRaises, QueuesOK
<1>13. CASE UNCHANGED vars
  BY <1>13 DEF vars, QueuesOK
<1>14. QED
  BY <1>1, <1>2, <1>3, <1>4, <1>5, <1>6, <1>7, <1>8, <1>9, <1>10, <1>11, <1>12, <1>13 DEF Next

(* One message more on a path: a keepalive anywhere, or a packet at its end. *)
LEMMA OneMore ==
  ASSUME NEW v \in Seq(Nat), NEW w \in Seq(Nat), NEW k, NEW e \in Nat, Inserted(v, w, k, e),
         NEW n \in Nat, Once(v), Below(v, n), e < n, e = Keepalive \/ ~Has(v, e)
  PROVE  /\ Once(w) /\ Below(w, n)
         /\ Has(w, e) /\ \A m : Has(v, m) => Has(w, m)
         /\ Rising(v) /\ (e = Keepalive \/ (k = Len(w) /\ Below(v, e))) => Rising(w)
<1>1. Once(w)
  BY InsertedOnce
<1>2. \A m : Has(w, m) <=> Has(v, m) \/ m = e
  BY InsertedHas
<1>3. Below(w, n)
  BY <1>2, BelowAll
<1>4. Rising(v) /\ (e = Keepalive \/ (k = Len(w) /\ Below(v, e))) => Rising(w)
  BY InsertedRising
<1>5. QED
  BY <1>1, <1>2, <1>3, <1>4

(* A keepalive less. *)
LEMMA OneLess ==
  ASSUME NEW v \in Seq(Nat), NEW w \in Seq(Nat), NEW k, Inserted(v, w, k, Keepalive),
         NEW n \in Nat, Once(w), Below(w, n)
  PROVE  /\ Once(v) /\ Below(v, n) /\ (Rising(w) => Rising(v))
         /\ \A m : m # Keepalive /\ Has(w, m) => Has(v, m)
<1>1. Once(v) /\ (Rising(w) => Rising(v))
  BY RemovedKeeps
<1>2. \A m : Has(w, m) <=> Has(v, m) \/ m = Keepalive
  BY InsertedHas
<1>3. Below(v, n)
  BY <1>2, BelowAll
<1>4. QED
  BY <1>1, <1>2, <1>3

(* The place of a message on a path does not change what holds of the path but the order. *)
LEMMA MovedToTheEnd ==
  ASSUME NEW v \in Seq(Nat), NEW p \in Seq(Nat), NEW k, NEW e \in Nat, Inserted(v, p, k, e),
         NEW n \in Nat, Once(p), Below(p, n)
  PROVE  Append(v, e) \in Seq(Nat) /\ Once(Append(v, e)) /\ Below(Append(v, e), n)
         /\ \A m : Has(p, m) => Has(Append(v, e), m)
<1> DEFINE w == Append(v, e)
<1>1. w \in Seq(Nat) /\ Inserted(v, w, Len(v) + 1, e)
  BY AppendProperties DEF Inserted
<1> HIDE DEF w
<1>2. \A m : Has(p, m) <=> Has(v, m) \/ m = e
  BY InsertedHas
<1>3. \A m : Has(w, m) <=> Has(v, m) \/ m = e
  BY <1>1, InsertedHas
<1>4. Below(w, n)
  BY <1>1, <1>2, <1>3, BelowAll
<1>5. Once(v)
  BY RemovedKeeps
<1>6. e = Keepalive \/ ~Has(v, e)
  BY InsertedAlone
<1>7. Once(w)
  BY <1>1, <1>5, <1>6, InsertedOnce
<1>8. QED
  BY <1>1, <1>2, <1>3, <1>4, <1>7 DEF w

(* A connection whose part of the state does not change. *)
LEMMA PathSame ==
  ASSUME NEW c, PathInv(c), packets' = packets, received'[c] = received[c], sending'[c] = sending[c],
         queue'[c] = queue[c], ready'[c] = ready[c], putters'[c] = putters[c], due'[c] = due[c],
         c \notin overflowed' => c \notin overflowed
  PROVE  PathInv(c)'
<1>1. Path(c)' = Path(c)
  BY DEF Path, InFlight
<1>2. QED
  BY <1>1 DEF PathInv

(* A packet that is not for a connection. *)
LEMMA PathWaits ==
  ASSUME QueuesOK, NEW c \in Conns, PathInv(c), packets' = packets + 1, received'[c] = received[c],
         sending'[c] = sending[c], queue'[c] = queue[c], ready'[c] = ready[c], putters'[c] = putters[c],
         due'[c] = due[c], overflowed' = overflowed
  PROVE  PathInv(c)'
<1>1. Path(c)' = Path(c) /\ Path(c) \in Seq(Nat) /\ packets \in Nat
  BY PathTypes DEF Path, InFlight, QueuesOK
<1>2. Below(Path(c), packets + 1) => Below(Path(c), packets + 1 + 1)
  BY <1>1, ElementOfSeq DEF Below
<1>3. QED
  BY <1>1, <1>2 DEF PathInv

(* A message moves on along the path. *)
LEMMA PathMoves ==
  ASSUME NEW c, PathInv(c), packets' = packets, Path(c)' = Path(c), due'[c] = due[c],
         overflowed' = overflowed, putters[c] = <<>> => putters'[c] = <<>>,
         \A i \in 1 .. Len(received'[c]) : received'[c][i] # Keepalive
  PROVE  PathInv(c)'
BY DEF PathInv

LEMMA PathIsEmpty ==
  ASSUME NEW c, received'[c] = <<>>, sending'[c] = Idle,
         queue'[c] = <<>>, ready'[c] = <<>>, putters'[c] = <<>>, due'[c] = {}
  PROVE  PathInv(c)'
<1>1. Path(c)' = <<>>
  BY DEF Path, InFlight, Line
<1>2. Len(<<>>) = 0
  OBVIOUS
<1>3. QED
  BY <1>1, <1>2 DEF PathInv, Once, Rising, Below

\* w is v with e somewhere, at its end if z is empty.
PutBefore(v, w, z, e) == \E k : Inserted(v, w, k, e) /\ (z = <<>> => k = Len(w))

(* A put task that is made: its message is behind what is ready, before what waits. *)
LEMMA PutIsMade ==
  ASSUME NEW g \in Seq(Nat), NEW y \in Seq(Nat), NEW z \in Seq(Nat), NEW e \in Nat
  PROVE  PutBefore(g \o (y \o z), g \o (Append(y, e) \o z), z, e)
<1> DEFINE b == <<e>>
<1>1. b \in Seq(Nat) /\ Append(y, e) = y \o b
  BY AppendIsConcat
<1> HIDE DEF b
<1>2. g \o y \in Seq(Nat) /\ b \o z \in Seq(Nat) /\ y \o b \in Seq(Nat)
  BY <1>1, ConcatProperties
<1>3. Joined(g, y, z) /\ Joined(y, b, z) /\ Joined(g, y, b \o z)
  BY <1>1, <1>2, Associative
<1>4. /\ g \o (y \o z) = (g \o y) \o z /\ (y \o b) \o z = y \o (b \o z)
      /\ g \o (y \o (b \o z)) = (g \o y) \o (b \o z)
  BY <1>3 DEF Joined
<1>5. Inserted((g \o y) \o z, (g \o y) \o (b \o z), Len(g \o y) + 1, e)
  BY <1>2, InsertedBetween DEF b
<1>6. z = <<>> => Len(g \o y) + 1 = Len((g \o y) \o (b \o z))
  <2>1. Len((g \o y) \o z) = Len(g \o y) + Len(z) /\ Len(g \o y) \in Nat /\ Len(<<>>) = 0
    BY <1>2, ConcatProperties
  <2>2. QED
    BY <1>5, <2>1 DEF Inserted
<1>7. PutBefore((g \o y) \o z, (g \o y) \o (b \o z), z, e)
  BY <1>5, <1>6 DEF PutBefore
<1>8. QED
  BY <1>1, <1>4, <1>7

\* w is p with e moved to the end.
SetAside(p, w, e) == \E v \in Seq(Nat) : \E k : Inserted(v, p, k, e) /\ w = Append(v, e)

(* A put that finds no room: its message goes behind those that wait already. *)
LEMMA PutIsSetAside ==
  ASSUME NEW g \in Seq(Nat), NEW y \in Seq(Nat), y # <<>>, NEW z \in Seq(Nat)
  PROVE  SetAside(g \o (y \o z), g \o (Tail(y) \o Append(z, Head(y))), Head(y))
<1>1. Head(y) \in Nat /\ Tail(y) \in Seq(Nat) /\ y = <<Head(y)>> \o Tail(y)
  BY HeadFirst
<1> DEFINE h == <<Head(y)>>
           t == Tail(y)
<1>2. h \in Seq(Nat) /\ t \in Seq(Nat) /\ y = h \o t /\ Append(z, Head(y)) = z \o h
  BY <1>1, AppendIsConcat
<1> HIDE DEF h, t
<1>3. t \o z \in Seq(Nat) /\ g \o (t \o z) \in Seq(Nat)
  BY <1>2, ConcatProperties
<1>4. Joined(h, t, z) /\ Joined(t, z, h) /\ Joined(g, t \o z, h)
  BY <1>2, <1>3, Associative
<1>5. (h \o t) \o z = h \o (t \o z)
  BY <1>4 DEF Joined
<1>6. Inserted(g \o (t \o z), g \o (h \o (t \o z)), Len(g) + 1, Head(y))
  <2>1. ASSUME NEW w \in Seq(Nat) PROVE Inserted(g \o w, g \o (<<Head(y)>> \o w), Len(g) + 1, Head(y))
    BY <1>1, InsertedBetween
  <2>2. QED
    BY <1>3, <2>1 DEF h
<1>7. (t \o z) \o h = t \o (z \o h) /\ (g \o (t \o z)) \o h = g \o ((t \o z) \o h)
  BY <1>4 DEF Joined
<1>8. Append(g \o (t \o z), Head(y)) = (g \o (t \o z)) \o h
  BY <1>1, <1>3, AppendIsConcat DEF h
<1>9. g \o (t \o Append(z, Head(y))) = Append(g \o (t \o z), Head(y))
  BY <1>2, <1>7, <1>8
<1>10. Inserted(g \o (t \o z), g \o (y \o z), Len(g) + 1, Head(y))
  BY <1>2, <1>5, <1>6
<1>11. QED
  BY <1>3, <1>9, <1>10 DEF t, SetAside

LEMMA LinesWithPuts ==
  ASSUME NEW r \in Seq(Nat), NEW f \in Seq(Nat), NEW q \in Seq(Nat), NEW y \in Seq(Nat), NEW z \in Seq(Nat)
  PROVE  /\ \A e \in Nat : PutBefore(Line(r, f, q, y \o z), Line(r, f, q, Append(y, e) \o z), z, e)
         /\ y # <<>> => SetAside(Line(r, f, q, y \o z), Line(r, f, q, Tail(y) \o Append(z, Head(y))), Head(y))
<1>1. PICK g \in Seq(Nat) : Leads(g, r, f, q)
  BY Regrouped
<1>2. ASSUME NEW e \in Nat
      PROVE  PutBefore(Line(r, f, q, y \o z), Line(r, f, q, Append(y, e) \o z), z, e)
  <2>1. y \o z \in Seq(Nat) /\ Append(y, e) \o z \in Seq(Nat)
    BY AppendProperties, ConcatProperties
  <2>2. Line(r, f, q, y \o z) = g \o (y \o z) /\ Line(r, f, q, Append(y, e) \o z) = g \o (Append(y, e) \o z)
    BY <1>1, <2>1 DEF Leads
  <2>3. PutBefore(g \o (y \o z), g \o (Append(y, e) \o z), z, e)
    BY <1>1, PutIsMade
  <2>4. QED
    BY <2>2, <2>3
<1>3. ASSUME y # <<>>
      PROVE  SetAside(Line(r, f, q, y \o z), Line(r, f, q, Tail(y) \o Append(z, Head(y))), Head(y))
  <2>1. y \o z \in Seq(Nat) /\ Tail(y) \o Append(z, Head(y)) \in Seq(Nat)
    BY <1>3, HeadFirst, AppendProperties, ConcatProperties
  <2>2. /\ Line(r, f, q, y \o z) = g \o (y \o z)
        /\ Line(r, f, q, Tail(y) \o Append(z, Head(y))) = g \o (Tail(y) \o Append(z, Head(y)))
    BY <1>1, <2>1 DEF Leads
  <2>3. SetAside(g \o (y \o z), g \o (Tail(y) \o Append(z, Head(y))), Head(y))
    BY <1>1, <1>3, PutIsSetAside
  <2>4. QED
    BY <2>2, <2>3
<1>4. QED
  BY <1>2, <1>3

(* A message for a browser: a keepalive, or the newest packet. *)
LEMMA MessageIsMade ==
  ASSUME QueuesOK, NEW c \in Conns, PathInv(c), NEW e \in Nat,
         ready'[c] = Append(ready[c], e), received'[c] = received[c], sending'[c] = sending[c],
         queue'[c] = queue[c], putters'[c] = putters[c], overflowed' = overflowed,
         \/ e = Keepalive /\ packets' = packets /\ due'[c] = due[c]
         \/ e = packets + 1 /\ packets' = packets + 1 /\ due'[c] = due[c] \cup {e}
  PROVE  PathInv(c)'
<1>1. Path(c) \in Seq(Nat) /\ packets \in Nat
  BY PathTypes DEF QueuesOK
<1> DEFINE w == Line(received[c], InFlight(c), queue[c], Append(ready[c], e) \o putters[c])
<1>2. Path(c)' = w /\ Path(c) = Line(received[c], InFlight(c), queue[c], ready[c] \o putters[c])
  BY DEF Path, InFlight
<1>3. PutBefore(Line(received[c], InFlight(c), queue[c], ready[c] \o putters[c]), w, putters[c], e)
  BY PathTypes, LinesWithPuts, Zenon
<1>4. w \in Seq(Nat)
  BY PathTypes, AppendProperties, ConcatProperties DEF Line
<1>5. PutBefore(Path(c), w, putters[c], e)
  BY <1>2, <1>3
<1> HIDE DEF w
<1>6. PICK q \in Seq(Nat) : q = Path(c)'
  BY <1>2, <1>4
<1>7. PICK k : Inserted(Path(c), q, k, e) /\ (putters[c] = <<>> => k = Len(q))
  BY <1>2, <1>5, <1>6 DEF PutBefore
<1>8. Once(Path(c)) /\ Below(Path(c), packets + 1) /\ packets' + 1 \in Nat /\ e < packets' + 1
      /\ Below(Path(c), packets' + 1)
  BY <1>1 DEF PathInv, Below, Keepalive
<1>9. e = Keepalive \/ (Below(Path(c), e) /\ ~Has(Path(c), e))
  <2>1. e # Keepalive => e = packets + 1 /\ Below(Path(c), e)
    BY <1>8
  <2>2. Below(Path(c), e) => ~Has(Path(c), e)
    BY <1>1, BelowAll
  <2>3. QED
    BY <2>1, <2>2
<1>10. /\ Once(q) /\ Below(q, packets' + 1) /\ Has(q, e) /\ \A m : Has(Path(c), m) => Has(q, m)
       /\ Rising(Path(c)) /\ (e = Keepalive \/ (k = Len(q) /\ Below(Path(c), e))) => Rising(q)
  BY <1>1, <1>7, <1>8, <1>9, OneMore
<1>11. c \notin overflowed => Rising(q)
  BY <1>7, <1>9, <1>10 DEF PathInv
<1>12. \A m \in due'[c] : m # Keepalive /\ Has(q, m)
  <2>1. e = Keepalive => due'[c] = due[c]
    BY <1>1 DEF Keepalive
  <2>2. e # Keepalive => due'[c] = due[c] \cup {e}
    OBVIOUS
  <2>3. QED
    BY <1>10, <2>1, <2>2 DEF PathInv
<1>13. QED
  BY <1>6, <1>10, <1>11, <1>12 DEF PathInv

(* A message moves to the part before: from the puts to the queue, and so on. *)
LEMMA PutMoves ==
  ASSUME NEW r, NEW f, NEW q \in Seq(Nat), NEW y \in Seq(Nat), y # <<>>, NEW z \in Seq(Nat)
  PROVE  Line(r, f, Append(q, Head(y)), Tail(y) \o z) = Line(r, f, q, y \o z)
<1> DEFINE u == Append(q, Head(y)) \o (Tail(y) \o z)
           v == q \o (y \o z)
<1>1. u = v
  BY Moved
<1>2. Line(r, f, Append(q, Head(y)), Tail(y) \o z) = r \o (f \o u) /\ Line(r, f, q, y \o z) = r \o (f \o v)
  BY DEF Line
<1> HIDE DEF u, v
<1>3. QED
  BY <1>1, <1>2

LEMMA GetMoves ==
  ASSUME NEW r, NEW q \in Seq(Nat), q # <<>>, NEW w \in Seq(Nat)
  PROVE  Line(r, <<Head(q)>>, Tail(q), w) = Line(r, <<>>, q, w)
<1> DEFINE u == <<Head(q)>> \o (Tail(q) \o w)
           v == <<>> \o (q \o w)
           e == <<>>
<1>1. e \in Seq(Nat) /\ Append(e, Head(q)) = <<Head(q)>>
  BY HeadFirst
<1>2. Append(e, Head(q)) \o (Tail(q) \o w) = e \o (q \o w)
  <2> HIDE DEF e
  <2>1. QED
    BY <1>1, Moved
<1>3. u = v
  BY <1>1, <1>2
<1>4. Line(r, <<Head(q)>>, Tail(q), w) = r \o u /\ Line(r, <<>>, q, w) = r \o v
  BY DEF Line
<1> HIDE DEF u, v, e
<1>5. QED
  BY <1>3, <1>4

LEMMA SentMoves ==
  ASSUME NEW r \in Seq(Nat), NEW m \in Nat, NEW q, NEW w, q \o w \in Seq(Nat)
  PROVE  Line(Append(r, m), <<>>, q, w) = Line(r, <<m>>, q, w)
<1> DEFINE b == <<m>>
           t == <<>>
           s == q \o w
           u == Append(r, m) \o (t \o s)
           v == r \o (b \o s)
<1>1. b \in Seq(Nat) /\ b # <<>> /\ Head(b) = m /\ Tail(b) = t
  OBVIOUS
<1>2. u = v
  <2> HIDE DEF b, t, s
  <2>1. Append(r, Head(b)) \o (Tail(b) \o s) = r \o (b \o s)
    BY <1>1, Moved DEF s
  <2>2. QED
    BY <1>1, <2>1
<1>3. Line(Append(r, m), <<>>, q, w) = u /\ Line(r, <<m>>, q, w) = v
  BY DEF Line
<1> HIDE DEF u, v
<1>4. QED
  BY <1>2, <1>3

LEMMA WakeMoves ==
  ASSUME NEW y \in Seq(Nat), NEW z \in Seq(Nat), z # <<>>
  PROVE  Append(y, Head(z)) \o Tail(z) = y \o z
<1>1. Head(z) \in Nat /\ Tail(z) \in Seq(Nat) /\ z = <<Head(z)>> \o Tail(z)
  BY HeadFirst
<1> DEFINE h == <<Head(z)>>
           t == Tail(z)
<1>2. h \in Seq(Nat) /\ t \in Seq(Nat) /\ z = h \o t /\ Append(y, Head(z)) = y \o h
  BY <1>1, AppendIsConcat
<1> HIDE DEF h, t
<1>3. Joined(y, h, t)
  BY <1>2, Associative
<1>4. QED
  BY <1>2, <1>3 DEF t, Joined

LEMMA PutStep == ASSUME QueuesOK, NEW c \in Conns, PathInv(c), Put(c) PROVE PathInv(c)'
<1>1. ready[c] # <<>> /\ queue'[c] = Append(queue[c], Head(ready[c])) /\ ready'[c] = Tail(ready[c])
      /\ UNCHANGED <<packets, putters, sending, received, due, overflowed>>
  BY DEF Put, QueuesOK, redisVars
<1>2. Path(c)' = Line(received[c], InFlight(c), Append(queue[c], Head(ready[c])), Tail(ready[c]) \o putters[c])
  BY <1>1 DEF Path, InFlight
<1>3. Path(c)' = Path(c)
  BY <1>1, <1>2, PathTypes, PutMoves DEF Path
<1>4. QED
  BY <1>1, <1>3, PathMoves DEF PathInv

LEMMA GetStep == ASSUME QueuesOK, NEW c \in Conns, PathInv(c), Get(c) PROVE PathInv(c)'
<1>1. /\ sending[c] = Idle /\ queue[c] # <<>>
      /\ sending'[c] = Head(queue[c]) /\ queue'[c] = Tail(queue[c])
      /\ UNCHANGED <<packets, received, due, overflowed>>
  BY DEF Get, QueuesOK, redisVars
<1>2. ready'[c] \o putters'[c] = ready[c] \o putters[c] /\ (putters[c] = <<>> => putters'[c] = <<>>)
  <2>1. CASE putters[c] = <<>>
    BY <2>1 DEF Get
  <2>2. CASE putters[c] # <<>>
    <3>1. ready'[c] = Append(ready[c], Head(putters[c])) /\ putters'[c] = Tail(putters[c])
      BY <2>2 DEF Get, QueuesOK
    <3>2. Append(ready[c], Head(putters[c])) \o Tail(putters[c]) = ready[c] \o putters[c]
      BY <2>2, PathTypes, WakeMoves
    <3>3. QED
      BY <2>2, <3>1, <3>2
  <2>3. QED
    BY <2>1, <2>2
<1>3. Head(queue[c]) \in Nat /\ queue[c] \in Seq(Nat) /\ ready[c] \o putters[c] \in Seq(Nat)
  BY <1>1, PathTypes, HeadFirst
<1>4. InFlight(c) = <<>> /\ InFlight(c)' = <<Head(queue[c])>>
  BY <1>1, <1>3 DEF InFlight, Idle
<1>5. Path(c)' = Line(received[c], <<Head(queue[c])>>, Tail(queue[c]), ready[c] \o putters[c])
      /\ Path(c) = Line(received[c], <<>>, queue[c], ready[c] \o putters[c])
  BY <1>1, <1>2, <1>4 DEF Path
<1>6. Path(c)' = Path(c)
  BY <1>1, <1>3, <1>5, GetMoves
<1>7. QED
  BY <1>1, <1>2, <1>6, PathMoves DEF PathInv

LEMMA SendReturnsStep == ASSUME QueuesOK, NEW c \in Conns, PathInv(c), SendReturns(c) PROVE PathInv(c)'
<1>1. /\ sending[c] \in Nat /\ sending'[c] = Idle /\ packets \in Nat
      /\ received'[c] = IF sending[c] = Keepalive THEN received[c] ELSE Append(received[c], sending[c])
      /\ UNCHANGED <<packets, ready, putters, queue, due, overflowed>>
  BY DEF SendReturns, QueuesOK, redisVars
<1>2. InFlight(c) = <<sending[c]>> /\ InFlight(c)' = <<>>
  BY <1>1 DEF InFlight, Idle
<1> DEFINE w == ready[c] \o putters[c]
<1>3. Path(c) = Line(received[c], <<sending[c]>>, queue[c], w) /\ Path(c)' = Line(received'[c], <<>>, queue[c], w)
  BY <1>1, <1>2 DEF Path
<1>4. w \in Seq(Nat) /\ queue[c] \o w \in Seq(Nat) /\ received[c] \in Seq(Nat) /\ queue[c] \in Seq(Nat)
      /\ Path(c) \in Seq(Nat)
  BY PathTypes
<1> HIDE DEF w
<1>5. CASE sending[c] # Keepalive
  <2>1. received'[c] = Append(received[c], sending[c])
    BY <1>1, <1>5
  <2>2. Path(c)' = Path(c)
    BY <1>1, <1>3, <1>4, <2>1, SentMoves
  <2>3. \A i \in 1 .. Len(received'[c]) : received'[c][i] # Keepalive
    BY <1>1, <1>4, <1>5, <2>1, AppendProperties DEF PathInv
  <2>4. QED
    BY <1>1, <2>2, <2>3, PathMoves
<1>6. CASE sending[c] = Keepalive
  <2> DEFINE z == queue[c] \o w
             v == received[c] \o z
  <2>1. received'[c] = received[c]
    BY <1>1, <1>6
  <2>2. Path(c)' = v
    <3>1. Path(c)' = received[c] \o (<<>> \o z)
      BY <1>3, <2>1 DEF Line
    <3>2. <<>> \o z = z
      BY <1>4, ConcatEmptySeq
    <3>3. QED
      BY <3>1, <3>2
  <2>3. Path(c) = received[c] \o (<<Keepalive>> \o z)
    BY <1>3, <1>6 DEF Line
  <2>4. z \in Seq(Nat) /\ Keepalive \in Nat
    BY <1>4 DEF Keepalive
  <2> HIDE DEF z
  <2>5. v \in Seq(Nat) /\ Inserted(v, Path(c), Len(received[c]) + 1, Keepalive)
    BY <1>4, <2>3, <2>4, InsertedBetween, ConcatProperties
  <2> HIDE DEF v
  <2>6. packets + 1 \in Nat /\ Once(Path(c)) /\ Below(Path(c), packets + 1)
    BY <1>1 DEF PathInv
  <2>7. /\ Once(v) /\ Below(v, packets + 1) /\ (Rising(Path(c)) => Rising(v))
        /\ \A m : m # Keepalive /\ Has(Path(c), m) => Has(v, m)
    BY <1>4, <2>5, <2>6, OneLess
  <2>8. QED
    BY <1>1, <2>1, <2>2, <2>7 DEF PathInv
<1>7. QED
  BY <1>5, <1>6

LEMMA PutWaitsStep == ASSUME QueuesOK, NEW c \in Conns, PathInv(c), PutWaits(c) PROVE PathInv(c)'
<1>1. /\ ready[c] # <<>> /\ packets \in Nat /\ c \in overflowed'
      /\ putters'[c] = Append(putters[c], Head(ready[c])) /\ ready'[c] = Tail(ready[c])
      /\ UNCHANGED <<packets, queue, sending, received, due>>
  BY DEF PutWaits, QueuesOK, redisVars
<1> DEFINE w == Line(received[c], InFlight(c), queue[c], Tail(ready[c]) \o Append(putters[c], Head(ready[c])))
<1>2. Path(c)' = w
  BY <1>1 DEF Path, InFlight
<1>3. SetAside(Path(c), w, Head(ready[c]))
  BY <1>1, PathTypes, LinesWithPuts DEF Path
<1> HIDE DEF w
<1>4. Head(ready[c]) \in Nat /\ Path(c) \in Seq(Nat)
  BY <1>1, PathTypes, HeadFirst
<1>5. PICK v \in Seq(Nat) : \E k : Inserted(v, Path(c), k, Head(ready[c])) /\ w = Append(v, Head(ready[c]))
  BY <1>3 DEF SetAside
<1>6. packets + 1 \in Nat /\ Once(Path(c)) /\ Below(Path(c), packets + 1)
  BY <1>1 DEF PathInv
<1>7. Once(w) /\ Below(w, packets + 1) /\ \A m : Has(Path(c), m) => Has(w, m)
  BY <1>4, <1>5, <1>6, MovedToTheEnd
<1>8. QED
  BY <1>1, <1>2, <1>7 DEF PathInv

(* Each step keeps the path of every connection. *)
PathsInv == \A c \in Conns : PathInv(c)

LEMMA PathsStep == QueuesOK /\ PathsInv /\ [Next]_vars => PathsInv'
<1> SUFFICES ASSUME QueuesOK, PathsInv, [Next]_vars, NEW c \in Conns PROVE PathInv(c)'
  BY DEF PathsInv
<1>0. PathInv(c)
  BY DEF PathsInv
<1> USE DEF redisVars, connVars, queueVars
<1>1. ASSUME NEW s \in Streams, Xadd(s) PROVE PathInv(c)'
  BY <1>0, <1>1, PathSame DEF Xadd
<1>2. CASE XreadCall
  BY <1>0, <1>2, PathSame DEF XreadCall
<1>3. ASSUME NEW read \in SUBSET Streams, XreadReturns(read) PROVE PathInv(c)'
  <2>1. /\ packets \in Nat /\ packets' = packets + 1
        /\ UNCHANGED <<putters, queue, sending, received, overflowed>>
    BY <1>3 DEF XreadReturns, QueuesOK
  <2>2. CASE c \in ws_connections
    <3>1. ready'[c] = Append(ready[c], packets + 1) /\ due'[c] = due[c] \cup {packets + 1}
      BY <1>3, <2>1, <2>2 DEF XreadReturns, Broadcast
    <3>2. QED
      BY <1>0, <2>1, <3>1, MessageIsMade
  <2>3. CASE c \notin ws_connections
    <3>1. ready'[c] = ready[c] /\ due'[c] = due[c]
      BY <1>3, <2>3 DEF XreadReturns, Broadcast
    <3>2. QED
      BY <1>0, <2>1, <3>1, PathWaits
  <2>4. QED
    BY <2>2, <2>3
<1>4. CASE XreadEmpty
  BY <1>0, <1>4, PathSame DEF XreadEmpty
<1>5. CASE RedisTaskFails
  BY <1>5, PathIsEmpty, NothingQueued DEF RedisTaskFails
<1>6. CASE Start
  BY <1>0, <1>6, PathSame DEF Start
<1>7. CASE SendKeepalive
  <2>1. UNCHANGED <<packets, putters, queue, sending, received, due, overflowed>>
    BY <1>7 DEF SendKeepalive
  <2>2. CASE c \in ws_connections /\ Backlog(c) < MaxBacklog
    <3>1. ready'[c] = Append(ready[c], Keepalive)
      BY <1>7, <2>2 DEF SendKeepalive
    <3>2. QED
      BY <1>0, <2>1, <3>1, MessageIsMade DEF Keepalive
  <2>3. CASE ~(c \in ws_connections /\ Backlog(c) < MaxBacklog)
    <3>1. ready'[c] = ready[c]
      BY <1>7, <2>3 DEF SendKeepalive
    <3>2. QED
      BY <1>0, <2>1, <3>1, PathSame
  <2>4. QED
    BY <2>2, <2>3
<1>8. ASSUME NEW d \in Conns, ClientConnect(d) \/ ClientClose(d) PROVE PathInv(c)'
  BY <1>0, <1>8, PathSame DEF ClientConnect, ClientClose
<1>9. ASSUME NEW d \in Conns, Put(d) \/ PutWaits(d) \/ Get(d) \/ SendReturns(d) PROVE PathInv(c)'
  <2>1. CASE d = c
    BY <1>0, <1>9, <2>1, PutStep, PutWaitsStep, GetStep, SendReturnsStep
  <2>2. CASE d # c
    <3>1. /\ UNCHANGED <<packets, due>> /\ queue'[c] = queue[c] /\ ready'[c] = ready[c]
          /\ received'[c] = received[c] /\ sending'[c] = sending[c] /\ putters'[c] = putters[c]
          /\ c \notin overflowed' => c \notin overflowed
      BY <1>9, <2>2 DEF Put, PutWaits, Get, SendReturns, QueuesOK
    <3>2. QED
      BY <1>0, <3>1, PathSame
  <2>3. QED
    BY <2>1, <2>2
<1>10. ASSUME NEW d \in Conns, SendRaises(d) PROVE PathInv(c)'
  <2>1. CASE d = c
    BY <1>10, <2>1, PathIsEmpty DEF SendRaises, QueuesOK
  <2>2. CASE d # c
    <3>1. /\ UNCHANGED packets /\ due'[c] = due[c] /\ queue'[c] = queue[c] /\ ready'[c] = ready[c]
          /\ received'[c] = received[c] /\ sending'[c] = sending[c] /\ putters'[c] = putters[c]
          /\ c \notin overflowed' => c \notin overflowed
      BY <1>10, <2>2 DEF SendRaises, QueuesOK
    <3>2. QED
      BY <1>0, <3>1, PathSame
  <2>3. QED
    BY <2>1, <2>2
<1>11. CASE UNCHANGED vars
  BY <1>0, <1>11, PathSame DEF vars
<1>12. QED
  BY <1>1, <1>2, <1>3, <1>4, <1>5, <1>6, <1>7, <1>8, <1>9, <1>10, <1>11 DEF Next

LEMMA PathsAlways == Spec => [](QueuesOK /\ PathsInv)
<1>1. Init => QueuesOK /\ PathsInv
  <2> SUFFICES ASSUME Init PROVE QueuesOK /\ PathsInv
    OBVIOUS
  <2>1. QueuesOK
    BY NothingQueued DEF Init, QueuesOK
  <2>2. ASSUME NEW c \in Conns PROVE PathInv(c)
    <3>1. /\ received[c] = <<>> /\ sending[c] = Idle /\ queue[c] = <<>> /\ ready[c] = <<>> /\ putters[c] = <<>>
          /\ due[c] = {}
      BY NothingQueued DEF Init
    <3>2. Path(c) = <<>> /\ Len(<<>>) = 0
      BY <3>1 DEF Path, InFlight, Line
    <3>3. QED
      BY <3>1, <3>2 DEF PathInv, Once, Rising, Below
  <2>3. QED
    BY <2>1, <2>2 DEF PathsInv
<1>2. QED
  BY <1>1, QueuesStep, PathsStep, PTL DEF Spec

(* Queues hold messages, streams ids, and the process follows each stream from an id of its *)
(* own or from its end (main.py 22-30, 91-121).                                             *)
THEOREM TypeCorrect == Spec => [](StreamsOK /\ QueuesOK)
<1>1. Init => StreamsOK
  BY DEF Init, StreamsOK
<1>2. QED
  BY <1>1, StreamsStep, PathsAlways, PTL DEF Spec

(* A browser gets each packet at most once, and in the order they were made as long as its *)
(* queue has always had room (main.py 33-57, 121).                                         *)
THEOREM OrderIsKept == Spec => []InOrderUnlessFull
<1>1. ASSUME QueuesOK, PathsInv, NEW c \in Conns, NEW i \in DOMAIN received[c], NEW j \in DOMAIN received[c], i < j
      PROVE  received[c][i] # received[c][j] /\ (c \notin overflowed => received[c][i] < received[c][j])
  <2> DEFINE w == InFlight(c) \o (queue[c] \o (ready[c] \o putters[c]))
  <2>1. received[c] \in Seq(Nat) /\ w \in Seq(Nat) /\ Path(c) = received[c] \o w
    BY <1>1, PathTypes DEF Path, Line
  <2> HIDE DEF w
  <2>2. PathInv(c)
    BY <1>1 DEF PathsInv
  <2>3. Once(received[c]) /\ (Rising(received[c] \o w) => Rising(received[c]))
    BY <2>1, <2>2, BeginningKeeps DEF PathInv
  <2>4. i \in 1 .. Len(received[c]) /\ j \in 1 .. Len(received[c])
    BY <1>1, <2>1, LenProperties
  <2>5. received[c][i] # Keepalive /\ received[c][j] # Keepalive
    BY <2>2, <2>4 DEF PathInv
  <2>6. received[c][i] # received[c][j]
    BY <1>1, <2>3, <2>4, <2>5 DEF Once
  <2>7. c \notin overflowed => received[c][i] < received[c][j]
    BY <1>1, <2>1, <2>2, <2>3, <2>4, <2>5 DEF Rising, PathInv
  <2>8. QED
    BY <2>6, <2>7
<1>2. QueuesOK /\ PathsInv => InOrderUnlessFull
  BY <1>1 DEF InOrderUnlessFull
<1>3. QED
  BY <1>2, PathsAlways, PTL

LEMMA HasIsInSeq ==
  ASSUME NEW a \in Seq(Nat), NEW b \in Seq(Nat), NEW m
  PROVE  (Has(a \o b, m) => Has(a, m) \/ Has(b, m)) /\ (Has(a, m) => InSeq(m, a))
<1>1. ASSUME Has(a \o b, m) PROVE Has(a, m) \/ Has(b, m)
  <2>1. Len(a) \in Nat /\ Len(b) \in Nat /\ Len(a \o b) = Len(a) + Len(b)
        /\ \A i \in 1 .. Len(a) + Len(b) : (a \o b)[i] = IF i <= Len(a) THEN a[i] ELSE b[i - Len(a)]
    BY ConcatProperties
  <2>2. PICK i \in 1 .. Len(a) + Len(b) : (a \o b)[i] = m
    BY <1>1, <2>1 DEF Has
  <2>3. CASE i <= Len(a)
    BY <2>1, <2>2, <2>3 DEF Has
  <2>4. CASE i > Len(a)
    <3>1. i - Len(a) \in 1 .. Len(b) /\ b[i - Len(a)] = m
      BY <2>1, <2>2, <2>4
    <3>2. QED
      BY <3>1 DEF Has
  <2>5. QED
    BY <2>1, <2>3, <2>4
<1>2. Has(a, m) => InSeq(m, a)
  BY LenProperties DEF Has, InSeq
<1>3. QED
  BY <1>1, <1>2

(* While a browser is connected no packet made since is lost, whether its queue was full   *)
(* or not: it was sent or is under way (main.py 33-57, 121).                               *)
THEOREM NothingIsLost == Spec => []NoPacketLost
<1>1. ASSUME QueuesOK, PathsInv, NEW c \in ws_connections, NEW m \in due[c]
      PROVE  \/ InSeq(m, received[c]) \/ sending[c] = m
             \/ InSeq(m, queue[c]) \/ InSeq(m, ready[c]) \/ InSeq(m, putters[c])
  <2>0. c \in Conns
    BY <1>1 DEF QueuesOK
  <2> DEFINE p == ready[c] \o putters[c]
             q == queue[c] \o p
             f == InFlight(c) \o q
  <2>1. /\ received[c] \in Seq(Nat) /\ InFlight(c) \in Seq(Nat) /\ queue[c] \in Seq(Nat)
        /\ ready[c] \in Seq(Nat) /\ putters[c] \in Seq(Nat) /\ p \in Seq(Nat) /\ q \in Seq(Nat) /\ f \in Seq(Nat)
    BY <1>1, <2>0, PathTypes
  <2>2. Path(c) = received[c] \o f
    BY DEF Path, Line
  <2>3. Has(Path(c), m)
    BY <1>1, <2>0 DEF PathsInv, PathInv
  <2>4. Has(f, m) => Has(InFlight(c), m) \/ Has(q, m)
    <3> HIDE DEF q
    <3>1. QED
      BY <2>1, HasIsInSeq
  <2>5. Has(q, m) => Has(queue[c], m) \/ Has(p, m)
    <3> HIDE DEF p
    <3>1. QED
      BY <2>1, HasIsInSeq
  <2>6. Has(p, m) => Has(ready[c], m) \/ Has(putters[c], m)
    BY <2>1, HasIsInSeq
  <2> HIDE DEF f, q, p
  <2>7. Has(received[c], m) \/ Has(f, m)
    BY <2>1, <2>2, <2>3, HasIsInSeq
  <2>8. Has(InFlight(c), m) => sending[c] = m
    BY DEF Has, InFlight
  <2>9. QED
    BY <2>1, <2>4, <2>5, <2>6, <2>7, <2>8, HasIsInSeq
<1>2. QueuesOK /\ PathsInv => NoPacketLost
  BY <1>1 DEF NoPacketLost
<1>3. QED
  BY <1>2, PathsAlways, PTL

-----------------------------------------------------------------------------
(***************************************************************************)
(* The browser's end (Reconnect).                                          *)
(***************************************************************************)

(* Types of the variables that the proofs need. *)
SocketsOK ==
  /\ client \in {"backend", "table"}
  /\ state \in [Sockets -> States] /\ current \in Sockets \cup {NoSocket}
  /\ opTimers \in Nat

(* close() makes a live socket one that is not, and changes no other. *)
LEMMA ClosedIs ==
  ASSUME NEW st \in [Sockets -> States], NEW d \in Sockets \cup {NoSocket}
  PROVE  /\ Closed(st, d) \in [Sockets -> States]
         /\ \A s \in Sockets : s # d => Closed(st, d)[s] = st[s]
         /\ d \in Sockets => Closed(st, d)[d] \notin Live
         /\ d \in Sockets /\ st[d] \notin Live => Closed(st, d)[d] = st[d]
<1>1. CASE d = NoSocket
  BY <1>1, NullAssumption DEF Closed, NoSocket
<1>2. CASE d # NoSocket
  <2> DEFINE new == CASE st[d] = "connecting" -> "aborting" [] st[d] = "open" -> "closing" [] OTHER -> st[d]
  <2>1. Closed(st, d) = [st EXCEPT ![d] = new] /\ d \in Sockets /\ st[d] \in States
    BY <1>2 DEF Closed
  <2>2. new \in States /\ new \notin Live /\ (st[d] \notin Live => new = st[d])
    <3>1. CASE st[d] = "connecting"
      BY <3>1 DEF States, Live
    <3>2. CASE st[d] = "open"
      BY <3>2 DEF States, Live
    <3>3. CASE st[d] # "connecting" /\ st[d] # "open"
      BY <2>1, <3>3 DEF Live
    <3>4. QED
      BY <3>1, <3>2, <3>3
  <2> HIDE DEF new
  <2>3. QED
    BY <2>1, <2>2
<1>3. QED
  BY <1>1, <1>2

\* No view without a timer has a live connection, and no socket but the current one is live.
LiveInv ==
  /\ client = "backend" => ~leftTimer
  /\ current = NoSocket => \A s \in Sockets : state[s] = "unused"
  /\ \A s \in Sockets : state[s] \in Live => s = current
  /\ ~mounted /\ ~leftTimer => \A s \in Sockets : state[s] \notin Live

\* The connection timer of the current socket runs until it opens, and then its operation timer.
TimerInv ==
  ~leftTimer =>
    IF mounted
    THEN /\ current \in Sockets
         /\ \/ connTimers = {current} /\ opTimers = 0 /\ state[current] # "open"
            \/ connTimers = {} /\ opTimers = 1 /\ state[current] # "connecting"
    ELSE connTimers = {} /\ opTimers = 0

\* A socket that was closed by another's error is replaced when none is being given up.
SpoilInv ==
  /\ spoiled \/ spoiledLast => client = "backend" /\ mounted
  /\ spoiled => state[current] \notin Live
  /\ spoiledLast => \A s \in Sockets : state[s] = "aborting" => s = current
  /\ ~(spoiled /\ spoiledLast)

\* The inductive invariant.
SocketsInv == SocketsOK /\ LiveInv /\ TimerInv /\ SpoilInv

(* A new socket is the only live one, and what a view needs of it is met when no timer but its *)
(* own goes on.                                                                                 *)
LEMMA CreateKeeps ==
  ASSUME SocketsInv, NEW kept, Create(kept), UNCHANGED client, opTimers' \in Nat,
         client = "backend" => ~leftTimer',
         ~mounted' => leftTimer',
         ~leftTimer' => kept = {} /\ opTimers' = 0,
         spoiled => mounted' /\ \A a \in Sockets : state[a] # "aborting"
  PROVE  SocketsInv'
<1>1. PICK s \in Sockets :
        /\ s # current /\ current' = s /\ state' = [Closed(state, current) EXCEPT ![s] = "connecting"]
        /\ connTimers' = kept \cup {s} /\ spoiled' = FALSE /\ spoiledLast' = spoiled
  BY DEF Create, Reusable, TimersKept
<1> DEFINE st == Closed(state, current)
<1>2. st \in [Sockets -> States] /\ \A a \in Sockets : st[a] \notin Live /\ (state[a] \notin Live => st[a] = state[a])
  BY ClosedIs DEF SocketsInv, SocketsOK, LiveInv, NoSocket
<1>3. state' = [st EXCEPT ![s] = "connecting"]
  BY <1>1
<1> HIDE DEF st
<1>4. state'[s] = "connecting" /\ \A a \in Sockets : a # s => state'[a] = st[a]
  BY <1>2, <1>3
<1>5. SocketsOK'
  BY <1>1, <1>2, <1>3 DEF SocketsInv, SocketsOK, States
<1>6. LiveInv'
  BY <1>1, <1>2, <1>4, NullAssumption DEF LiveInv, NoSocket
<1>7. TimerInv'
  BY <1>1, <1>4 DEF TimerInv
<1>8. SpoilInv'
  <2>1. spoiledLast' => \A a \in Sockets : state[a] \notin Live /\ state[a] # "aborting"
    BY <1>1 DEF SocketsInv, LiveInv, SpoilInv
  <2>2. spoiledLast' => client' = "backend" /\ mounted'
    BY <1>1 DEF SocketsInv, SpoilInv
  <2>3. spoiledLast' => \A a \in Sockets : state'[a] = "aborting" => a = current'
    BY <1>1, <1>2, <1>4, <2>1
  <2>4. QED
    BY <1>1, <2>2, <2>3 DEF SpoilInv
<1>9. QED
  BY <1>5, <1>6, <1>7, <1>8 DEF SocketsInv

(* An event of one socket: it, and the current one, may end. *)
LEMMA EventKeeps ==
  ASSUME SocketsInv, UNCHANGED <<client, current, connTimers, opTimers, mounted, leftTimer, spoiledLast>>,
         state' \in [Sockets -> States],
         \A a \in Sockets : state'[a] \in Live => state'[a] = state[a],
         \A a \in Sockets : a # current /\ state'[a] = "aborting" => state[a] = "aborting",
         \A a \in Sockets : state[a] = "unused" => state'[a] = "unused",
         spoiled' => spoiled \/ (client = "backend" /\ mounted /\ ~spoiledLast /\ state'[current] \notin Live)
  PROVE  SocketsInv'
<1>1. SocketsOK'
  BY DEF SocketsInv, SocketsOK
<1>2. LiveInv'
  BY DEF SocketsInv, LiveInv
<1>3. TimerInv'
  BY DEF SocketsInv, TimerInv, Live
<1>4. spoiled' => client = "backend" /\ mounted /\ ~spoiledLast /\ current \in Sockets
  BY DEF SocketsInv, SpoilInv, TimerInv, LiveInv
<1>5. spoiled' => state'[current] \notin Live
  BY <1>4 DEF SocketsInv, SpoilInv
<1>6. SpoilInv'
  BY <1>4, <1>5 DEF SocketsInv, SpoilInv
<1>7. QED
  BY <1>1, <1>2, <1>3, <1>6 DEF SocketsInv

LEMMA TimeoutKeeps ==
  ASSUME SocketsInv, NEW s, ConnTimeout(s) \/ OpTimeout
  PROVE  SocketsInv'
<1>1. \A a \in Sockets : state[a] # "aborting"
  BY DEF ConnTimeout, OpTimeout
<1>2. UNCHANGED <<client, mounted, leftTimer>> /\ opTimers \in Nat
  BY DEF ConnTimeout, OpTimeout, SocketsInv, SocketsOK
<1>3. spoiled => mounted
  BY DEF SocketsInv, SpoilInv
<1>4. client = "backend" => ~leftTimer
  BY DEF SocketsInv, LiveInv
<1>5. CASE ConnTimeout(s)
  <2>1. Create(connTimers \ {s}) /\ s \in connTimers /\ opTimers' = IF client = "table" THEN 0 ELSE opTimers
    BY <1>5 DEF ConnTimeout
  <2>2. ~leftTimer => mounted /\ connTimers \ {s} = {} /\ opTimers = 0
    BY <2>1 DEF SocketsInv, TimerInv
  <2>3. opTimers' \in Nat /\ (~leftTimer => opTimers' = 0)
    BY <1>2, <2>1, <2>2
  <2>4. QED
    BY <1>1, <1>2, <1>3, <1>4, <2>1, <2>2, <2>3, CreateKeeps
<1>6. CASE OpTimeout
  <2>1. Create(connTimers) /\ opTimers > 0 /\ opTimers' = IF client = "table" THEN 0 ELSE opTimers - 1
    BY <1>6 DEF OpTimeout
  <2>2. ~leftTimer => mounted /\ connTimers = {} /\ opTimers = 1
    BY <2>1 DEF SocketsInv, TimerInv
  <2>3. opTimers' \in Nat /\ (~leftTimer => opTimers' = 0)
    BY <1>2, <2>1, <2>2
  <2>4. QED
    BY <1>1, <1>2, <1>3, <1>4, <2>1, <2>2, <2>3, CreateKeeps
<1>7. QED
  BY <1>5, <1>6

(* Each action. *)
LEMMA MountKeeps == SocketsInv /\ Mount => SocketsInv'
<1> SUFFICES ASSUME SocketsInv, Mount PROVE SocketsInv'
  OBVIOUS
<1>1. /\ ~mounted /\ mounted' = TRUE /\ Create(connTimers) /\ UNCHANGED <<client, leftTimer>>
      /\ opTimers' = (IF client = "table" THEN 0 ELSE opTimers) /\ opTimers \in Nat
  BY DEF Mount, SocketsInv, SocketsOK
<1>2. ~spoiled /\ (client = "backend" => ~leftTimer) /\ (~leftTimer => connTimers = {} /\ opTimers = 0)
  BY <1>1 DEF SocketsInv, SpoilInv, LiveInv, TimerInv
<1>3. opTimers' \in Nat /\ (~leftTimer => opTimers' = 0)
  BY <1>1, <1>2
<1>4. QED
  BY <1>1, <1>2, <1>3, CreateKeeps

LEMMA DestroyKeeps == SocketsInv /\ Destroy => SocketsInv'
<1> SUFFICES ASSUME SocketsInv, Destroy PROVE SocketsInv'
  OBVIOUS
<1>1. /\ client = "table" /\ mounted' = FALSE /\ opTimers' = 0 /\ state' = Closed(state, current)
      /\ leftTimer' = (leftTimer \/ connTimers # {})
      /\ UNCHANGED <<client, current, connTimers, spoiled, spoiledLast>>
  BY DEF Destroy, ghosts
<1>2. state' \in [Sockets -> States] /\ \A a \in Sockets : state'[a] \notin Live
  BY <1>1, ClosedIs DEF SocketsInv, SocketsOK, LiveInv, NoSocket
<1>3. current = NoSocket => state' = state
  BY <1>1 DEF Closed
<1>4. ~spoiled' /\ ~spoiledLast'
  BY <1>1 DEF SocketsInv, SpoilInv
<1>5. SocketsOK' /\ LiveInv'
  BY <1>1, <1>2, <1>3 DEF SocketsInv, SocketsOK, LiveInv
<1>6. TimerInv' /\ SpoilInv'
  BY <1>1, <1>4 DEF TimerInv, SpoilInv
<1>7. QED
  BY <1>5, <1>6 DEF SocketsInv

LEMMA OpensKeeps == ASSUME SocketsInv, NEW s \in Sockets, Opens(s) PROVE SocketsInv'
<1>1. /\ s = current /\ state[s] = "connecting" /\ state' = [state EXCEPT ![s] = "open"]
      /\ connTimers' = connTimers \ {s} /\ opTimers' = opTimers + 1 /\ opTimers \in Nat
      /\ UNCHANGED <<client, current, mounted, leftTimer, spoiled, spoiledLast>>
  BY DEF Opens, ghosts, SocketsInv, SocketsOK, LiveInv, Live
<1>2. ~spoiled
  BY <1>1 DEF SocketsInv, SpoilInv, Live
<1>3. SocketsOK' /\ LiveInv'
  BY <1>1 DEF SocketsInv, SocketsOK, LiveInv, States, Live
<1>4. TimerInv'
  <2>1. ~leftTimer => mounted /\ connTimers = {current} /\ opTimers = 0
    BY <1>1 DEF SocketsInv, SocketsOK, LiveInv, TimerInv, Live
  <2>2. state'[current] = "open"
    BY <1>1 DEF SocketsInv, SocketsOK
  <2>3. ~leftTimer' => mounted' /\ connTimers' = {} /\ opTimers' = 1
    BY <1>1, <2>1
  <2>4. QED
    BY <1>1, <2>2, <2>3 DEF TimerInv
<1>5. SpoilInv'
  BY <1>1, <1>2 DEF SocketsInv, SocketsOK, SpoilInv
<1>6. QED
  BY <1>3, <1>4, <1>5 DEF SocketsInv

LEMMA MessageKeeps == ASSUME SocketsInv, NEW s \in Sockets, Message(s) PROVE SocketsInv'
<1>1. /\ s = current /\ state[s] = "open" /\ opTimers \in Nat
      /\ opTimers' = (IF opTimers > 0 THEN opTimers ELSE 1)
      /\ UNCHANGED <<client, state, current, connTimers, mounted, leftTimer, spoiled, spoiledLast>>
  BY DEF Message, ghosts, SocketsInv, SocketsOK, LiveInv, Live
<1>2. ~leftTimer => mounted /\ connTimers = {} /\ opTimers = 1
  BY <1>1 DEF SocketsInv, LiveInv, TimerInv, Live
<1>3. opTimers' \in Nat /\ (~leftTimer => opTimers' = opTimers)
  BY <1>1, <1>2
<1>4. SocketsOK' /\ LiveInv' /\ SpoilInv'
  BY <1>1, <1>3 DEF SocketsInv, SocketsOK, LiveInv, SpoilInv
<1>5. TimerInv'
  BY <1>1, <1>2, <1>3 DEF SocketsInv, TimerInv
<1>6. QED
  BY <1>4, <1>5 DEF SocketsInv

LEMMA CloseKeeps == ASSUME SocketsInv, NEW s \in Sockets, CloseEvent(s) PROVE SocketsInv'
<1>1. /\ state[s] \in {"open", "closing"} /\ state' = [state EXCEPT ![s] = "closed"]
      /\ UNCHANGED <<client, current, connTimers, opTimers, mounted, leftTimer, spoiled, spoiledLast>>
  BY DEF CloseEvent, ghosts
<1>2. /\ state' \in [Sockets -> States]
      /\ \A a \in Sockets : state'[a] \in Live => state'[a] = state[a]
      /\ \A a \in Sockets : state'[a] = "aborting" => state[a] = "aborting"
      /\ \A a \in Sockets : state[a] = "unused" => state'[a] = "unused"
  BY <1>1 DEF SocketsInv, SocketsOK, States, Live
<1>3. QED
  BY <1>1, <1>2, EventKeeps

LEMMA ErrorKeeps == ASSUME SocketsInv, NEW s \in Sockets, Fails(s) \/ Aborted(s) PROVE SocketsInv'
<1> DEFINE failed == [state EXCEPT ![s] = "closed"]
<1>1. /\ state[s] \in Live \cup {"aborting"}
      /\ state' = IF client = "backend" THEN Closed(failed, current) ELSE failed
      /\ spoiled' = (spoiled \/ (client = "backend" /\ s # current /\ state[current] \in Live))
      /\ UNCHANGED <<client, current, connTimers, opTimers, mounted, leftTimer, spoiledLast>>
  BY DEF Fails, Aborted, ErrorEvent
<1>2. failed \in [Sockets -> States] /\ failed[s] = "closed" /\ \A a \in Sockets : a # s => failed[a] = state[a]
  BY DEF SocketsInv, SocketsOK, States
<1> HIDE DEF failed
<1>3. /\ state' \in [Sockets -> States]
      /\ \A a \in Sockets : a # current => state'[a] = failed[a]
      /\ current \in Sockets => state'[current] \notin Live \/ state'[current] = failed[current]
      /\ client = "backend" /\ current \in Sockets => state'[current] \notin Live
      /\ current \in Sockets /\ failed[current] \notin Live => state'[current] = failed[current]
  BY <1>1, <1>2, ClosedIs DEF SocketsInv, SocketsOK
<1>4. state[s] # "unused" /\ current \in Sockets
  BY <1>1 DEF SocketsInv, SocketsOK, LiveInv, Live
<1>5. \A a \in Sockets : state'[a] \in Live => state'[a] = state[a]
  BY <1>2, <1>3 DEF Live
<1>6. \A a \in Sockets : a # current /\ state'[a] = "aborting" => state[a] = "aborting"
  BY <1>2, <1>3
<1>7. \A a \in Sockets : state[a] = "unused" => state'[a] = "unused"
  BY <1>2, <1>3, <1>4 DEF Live
<1>8. spoiled' => spoiled \/ (client = "backend" /\ mounted /\ ~spoiledLast /\ state'[current] \notin Live)
  <2> SUFFICES ASSUME client = "backend", s # current, state[current] \in Live
               PROVE  mounted /\ ~spoiledLast /\ state'[current] \notin Live
    BY <1>1
  <2>1. mounted
    BY <1>4 DEF SocketsInv, LiveInv
  <2>2. state[s] = "aborting"
    BY <1>1 DEF SocketsInv, LiveInv
  <2>3. ~spoiledLast
    BY <2>2 DEF SocketsInv, SpoilInv
  <2>4. QED
    BY <1>3, <1>4, <2>1, <2>3
<1>9. QED
  BY <1>1, <1>3, <1>5, <1>6, <1>7, <1>8, EventKeeps

(* The invariant holds. *)
LEMMA SocketsAlways == SocketSpec => []SocketsInv
<1>1. SocketInit => SocketsInv
  <2> SUFFICES ASSUME SocketInit PROVE SocketsInv
    OBVIOUS
  <2>1. SocketsOK
    BY ClientsAssumption, NullAssumption DEF SocketInit, SocketsOK, States, NoSocket
  <2>2. LiveInv /\ TimerInv /\ SpoilInv
    BY DEF SocketInit, LiveInv, TimerInv, SpoilInv, Live
  <2>3. QED
    BY <2>1, <2>2 DEF SocketsInv
<1>2. SocketsInv /\ [SocketNext]_socketVars => SocketsInv'
  <2> SUFFICES ASSUME SocketsInv, [SocketNext]_socketVars PROVE SocketsInv'
    OBVIOUS
  <2>1. CASE Mount \/ Destroy
    BY <2>1, MountKeeps, DestroyKeeps
  <2>2. CASE OpTimeout
    BY <2>2, TimeoutKeeps
  <2>3. ASSUME NEW s \in Sockets,
               ConnTimeout(s) \/ Opens(s) \/ Message(s) \/ Fails(s) \/ Aborted(s) \/ CloseEvent(s)
        PROVE  SocketsInv'
    BY <2>3, TimeoutKeeps, OpensKeeps, MessageKeeps, ErrorKeeps, CloseKeeps
  <2>4. CASE UNCHANGED socketVars
    BY <2>4 DEF socketVars, ghosts, SocketsInv, SocketsOK, LiveInv, TimerInv, SpoilInv
  <2>5. QED
    BY <2>1, <2>2, <2>3, <2>4 DEF SocketNext
<1>3. QED
  BY <1>1, <1>2, PTL DEF SocketSpec

(* Every socket but the one in the variable is closed or on its way to be, and a destroyed *)
(* view leaves none unless a connection timer outlived it (plugin.js createWebsocket,      *)
(* ControllTableV2.vue createSocket and beforeDestroy).                                    *)
THEOREM OneSocketIsLive == SocketSpec => []OnlyCurrentIsLive
<1>1. SocketsInv => OnlyCurrentIsLive
  BY DEF SocketsInv, LiveInv, OnlyCurrentIsLive
<1>2. QED
  BY <1>1, SocketsAlways, PTL

(* One timer watches the socket of a view, so that one attempt replaces it when it stalls, *)
(* and none runs without a view, unless a view was destroyed while it was connecting       *)
(* (plugin.js connTimeout and timeout, ControllTableV2.vue socketTimeoutObj).              *)
THEOREM OneTimerRuns == SocketSpec => []OneTimer
<1>1. SocketsInv => OneTimer
  <2> SUFFICES ASSUME SocketsInv, ~leftTimer
               PROVE  Cardinality(connTimers) + opTimers = IF mounted THEN 1 ELSE 0
    BY DEF OneTimer
  <2>1. Cardinality({}) = 0 /\ Cardinality({current}) = 1
    BY FS_EmptySet, FS_Singleton
  <2>2. QED
    BY <2>1 DEF SocketsInv, TimerInv
<1>2. QED
  BY <1>1, SocketsAlways, PTL

(* The error of a connection that was given up closes at most every second attempt: the    *)
(* attempt after a closed one begins when no socket is being given up (plugin.js WS.onerror). *)
THEOREM SpoiledAtMostOnce == SocketSpec => []NeverSpoiledTwice
<1>1. SocketsInv => NeverSpoiledTwice
  BY DEF SocketsInv, SpoilInv, NeverSpoiledTwice
<1>2. QED
  BY <1>1, SocketsAlways, PTL

=============================================================================
