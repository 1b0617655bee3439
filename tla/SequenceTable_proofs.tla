------------------------- MODULE SequenceTable_proofs -------------------------
(* Theorems about SequenceTable for any set of programs, and any number of       *)
(* clicks, edits and lost connections.                                           *)
EXTENDS SequenceTable, SequenceTheorems, FiniteSetTheorems, TLAPS

USE ProgramsAssumption

-----------------------------------------------------------------------------
(* Types.                                                                      *)

TypeOK ==
  /\ Sequence \in Tables /\ stored \in Programs
  /\ sendDisabled \in BOOLEAN /\ downloadRequested \in BOOLEAN /\ readbackRequested \in BOOLEAN
  /\ mishap \in BOOLEAN
  /\ toAdapter \in Seq(Messages) /\ toBrowser \in Seq(Replies)

LEMMA WireTypes ==
  /\ \A p \in Tables : [cmd |-> "load", program |-> p] \in Messages /\ Carrying(p) \in Replies
  /\ Download \in Messages /\ NoEntry \in Replies
  /\ \A m \in Messages : m.cmd = "load" => m.program \in Tables
  /\ \A r \in Replies : r.length # 0 => r.program \in Tables
BY DEF Messages, Replies, Download, NoEntry, Carrying

(* Programs, flags and what is on the wire keep their types.                   *)
LEMMA TypesStep == TypeOK /\ [Next]_vars => TypeOK'
<1> SUFFICES ASSUME TypeOK, [Next]_vars PROVE TypeOK'
  OBVIOUS
<1> USE DEF TypeOK, flags, wire, ghosts, bounds
<1>1. CASE HandleSend
  <2>1. toAdapter' \in Seq(Messages)
    <3>1. <<[cmd |-> "load", program |-> Sequence], Download>> \in Seq(Messages)
      BY WireTypes
    <3>2. QED
      BY <1>1, <3>1 DEF HandleSend, Transmit
  <2>2. QED
    BY <1>1, <2>1 DEF HandleSend, Transmit
<1>2. CASE HandleSendRaises
  BY <1>2 DEF HandleSendRaises
<1>3. CASE HandleLoad
  <2>1. toAdapter' \in Seq(Messages)
    <3>1. <<Download>> \in Seq(Messages)
      BY WireTypes
    <3>2. QED
      BY <1>3, <3>1 DEF HandleLoad, RequestDownload, Transmit
  <2>2. QED
    BY <1>3, <2>1 DEF HandleLoad, RequestDownload, Transmit
<1>4. CASE Preload
  <2>1. toAdapter' \in Seq(Messages)
    <3>1. <<Download>> \in Seq(Messages)
      BY WireTypes
    <3>2. QED
      BY <1>4, <3>1 DEF Preload, RequestDownload, Transmit
  <2>2. QED
    BY <1>4, <2>1 DEF Preload, RequestDownload, Transmit
<1>5. CASE PreloadAgain
  <2>1. toAdapter' \in Seq(Messages)
    <3>1. <<Download>> \in Seq(Messages)
      BY WireTypes
    <3>2. QED
      BY <1>5, <3>1 DEF PreloadAgain, RequestDownload, Transmit
  <2>2. QED
    BY <1>5, <2>1 DEF PreloadAgain, RequestDownload, Transmit
<1>6. CASE Edit
  BY <1>6 DEF Edit, Tables
<1>7. CASE AdapterLoad
  <2>1. toAdapter # <<>> /\ toAdapter' = Tail(toAdapter) /\ toBrowser' = Append(toBrowser, LoadReply)
    BY <1>7 DEF AdapterLoad, NextIs, Answer
  <2>2. LoadReply \in Replies
    BY WireTypes DEF LoadReply, Tables
  <2>3. toAdapter' \in Seq(Messages) /\ toBrowser' \in Seq(Replies)
    BY <2>1, <2>2, HeadTailProperties
  <2>4. stored' \in Programs
    BY <1>7 DEF AdapterLoad
  <2>5. QED
    BY <1>7, <2>3, <2>4 DEF AdapterLoad, Answer
<1>8. CASE AdapterDownload
  <2>1. toAdapter # <<>> /\ toAdapter' = Tail(toAdapter) /\ toBrowser' = Append(toBrowser, Carrying(stored))
    BY <1>8 DEF AdapterDownload, NextIs, Answer
  <2>2. Carrying(stored) \in Replies
    BY WireTypes DEF Tables
  <2>3. toAdapter' \in Seq(Messages) /\ toBrowser' \in Seq(Replies)
    BY <2>1, <2>2, HeadTailProperties
  <2>4. QED
    BY <1>8, <2>3 DEF AdapterDownload, Answer
<1>9. CASE AdapterRaises
  BY <1>9 DEF AdapterRaises, Disconnect
<1>10. CASE ConnectionLost
  BY <1>10 DEF ConnectionLost, Disconnect
<1>11. CASE SocketOpens
  BY <1>11 DEF SocketOpens
<1>12. CASE ReplyIgnored
  <2>1. toBrowser # <<>> /\ toBrowser' = Tail(toBrowser)
    BY <1>12 DEF ReplyIgnored, Receive, Incoming
  <2>2. toBrowser' \in Seq(Replies) /\ Head(toBrowser) \in Replies
    BY <2>1, HeadTailProperties
  <2>3. QED
    BY <1>12, <2>2, WireTypes DEF ReplyIgnored, Receive, Incoming
<1>13. CASE ReplyIsDownload
  <2>1. toBrowser # <<>> /\ toBrowser' = Tail(toBrowser)
    BY <1>13 DEF ReplyIsDownload, Receive, Incoming
  <2>2. toBrowser' \in Seq(Replies) /\ Head(toBrowser) \in Replies
    BY <2>1, HeadTailProperties
  <2>3. QED
    BY <1>13, <2>2, WireTypes DEF ReplyIsDownload, Receive, Incoming
<1>14. CASE ReplyIsReadback
  <2>1. toBrowser # <<>> /\ toBrowser' = Tail(toBrowser)
    BY <1>14 DEF ReplyIsReadback, Receive, Incoming
  <2>2. toBrowser' \in Seq(Replies) /\ Head(toBrowser) \in Replies
    BY <2>1, HeadTailProperties
  <2>3. QED
    BY <1>14, <2>2, WireTypes DEF ReplyIsReadback, Receive, Incoming
<1>15. CASE UNCHANGED vars
  BY <1>15 DEF vars
<1>16. QED
  BY <1>1, <1>2, <1>3, <1>4, <1>5, <1>6, <1>7, <1>8, <1>9, <1>10, <1>11, <1>12, <1>13, <1>14,
     <1>15 DEF Next

(* The table holds a program or the blank one, and the wire messages and replies     *)
(* (SequenceTable.vue 529-661, 743-936).                                       *)
THEOREM TypeCorrect == Spec => []TypeOK
<1>1. Init => TypeOK
  <2>1. <<>> \in Seq(Messages) /\ <<>> \in Seq(Replies)
    OBVIOUS
  <2>2. QED
    BY <2>1 DEF Init, TypeOK, Tables
<1>2. QED
  BY <1>1, TypesStep, PTL DEF Spec

-----------------------------------------------------------------------------
(* Counting.                                                                   *)

\* Where a sequence has an element of a set.
Hits(s, A) == {i \in DOMAIN s : s[i] \in A}

LEMMA HitsAreFinite ==
  ASSUME NEW X, NEW s \in Seq(X), NEW A
  PROVE  IsFiniteSet(Hits(s, A)) /\ Cardinality(Hits(s, A)) \in Nat
<1>1. Hits(s, A) \subseteq 1 .. Len(s) /\ Len(s) \in Nat
  BY DEF Hits
<1>2. IsFiniteSet(1 .. Len(s))
  BY <1>1, FS_Interval
<1>3. QED
  BY <1>1, <1>2, FS_Subset, FS_CardinalityType

LEMMA HitsOfAppend ==
  ASSUME NEW X, NEW s \in Seq(X), NEW e \in X, NEW A
  PROVE  Cardinality(Hits(Append(s, e), A)) = Cardinality(Hits(s, A)) + (IF e \in A THEN 1 ELSE 0)
<1>1. Append(s, e) \in Seq(X) /\ Len(Append(s, e)) = Len(s) + 1 /\ Len(s) \in Nat
  OBVIOUS
<1>2. \A i \in 1 .. Len(s) + 1 : Append(s, e)[i] = IF i = Len(s) + 1 THEN e ELSE s[i]
  OBVIOUS
<1>3. Hits(Append(s, e), A) = IF e \in A THEN Hits(s, A) \cup {Len(s) + 1} ELSE Hits(s, A)
  BY <1>1, <1>2 DEF Hits
<1>4. Len(s) + 1 \notin Hits(s, A)
  BY <1>1 DEF Hits
<1>5. IsFiniteSet(Hits(s, A)) /\ Cardinality(Hits(s, A)) \in Nat
  BY HitsAreFinite
<1>6. Cardinality(Hits(s, A) \cup {Len(s) + 1}) = Cardinality(Hits(s, A)) + 1
  BY <1>4, <1>5, FS_AddElement
<1>7. QED
  BY <1>3, <1>5, <1>6

LEMMA HitsOfTail ==
  ASSUME NEW X, NEW s \in Seq(X), s # <<>>, NEW A
  PROVE  Cardinality(Hits(Tail(s), A)) = Cardinality(Hits(s, A)) - (IF Head(s) \in A THEN 1 ELSE 0)
<1>1. Tail(s) \in Seq(X) /\ Len(Tail(s)) = Len(s) - 1 /\ Len(s) \in Nat \ {0}
  BY HeadTailProperties, EmptySeq
<1>2. \A i \in 1 .. Len(s) - 1 : Tail(s)[i] = s[i + 1]
  BY <1>1, HeadTailProperties
<1> DEFINE Later == Hits(s, A) \ {1}
           Shift == [i \in Hits(Tail(s), A) |-> i + 1]
<1>3. \A i : i \in Hits(Tail(s), A) <=> i \in 1 .. Len(s) - 1 /\ s[i + 1] \in A
  BY <1>1, <1>2 DEF Hits
<1>4. \A j : j \in Later <=> j \in 2 .. Len(s) /\ s[j] \in A
  BY <1>1 DEF Hits
<1>5. Shift \in Bijection(Hits(Tail(s), A), Later)
  <2>1. Shift \in [Hits(Tail(s), A) -> Later]
    BY <1>1, <1>3, <1>4
  <2>2. \A a, b \in Hits(Tail(s), A) : Shift[a] = Shift[b] => a = b
    BY <1>3
  <2>3. \A j \in Later : \E i \in Hits(Tail(s), A) : Shift[i] = j
    <3> SUFFICES ASSUME NEW j \in Later PROVE \E i \in Hits(Tail(s), A) : Shift[i] = j
      OBVIOUS
    <3>1. j - 1 \in Hits(Tail(s), A)
      BY <1>1, <1>3, <1>4
    <3>2. Shift[j - 1] = j
      BY <1>1, <1>4, <3>1
    <3>3. QED
      BY <3>1, <3>2
  <2> HIDE DEF Shift, Later
  <2>4. QED
    BY <2>1, <2>2, <2>3 DEF Bijection, Injection, Surjection, IsInjective
<1>6. Cardinality(Later) = Cardinality(Hits(Tail(s), A))
  <2>1. IsFiniteSet(Hits(Tail(s), A))
    BY <1>1, HitsAreFinite
  <2>2. ExistsBijection(Hits(Tail(s), A), Later)
    BY <1>5 DEF ExistsBijection
  <2> HIDE DEF Later
  <2>3. QED
    BY <2>1, <2>2, FS_Bijection
<1>7. 1 \in Hits(s, A) <=> Head(s) \in A
  BY <1>1 DEF Hits
<1>8. IsFiniteSet(Hits(s, A)) /\ Cardinality(Hits(s, A)) \in Nat
  BY HitsAreFinite
<1>9. Cardinality(Later) = Cardinality(Hits(s, A)) - (IF Head(s) \in A THEN 1 ELSE 0)
  <2>1. Cardinality(Hits(s, A) \ {1})
          = IF 1 \in Hits(s, A) THEN Cardinality(Hits(s, A)) - 1 ELSE Cardinality(Hits(s, A))
    BY <1>8, FS_RemoveElement
  <2>2. QED
    BY <1>7, <1>8, <2>1
<1>10. QED
  BY <1>6, <1>9

-----------------------------------------------------------------------------
(* Flags and replies.                                                          *)

\* The messages of a sequence of this type, and the replies, that carry something.
Carriers(t) == {m \in Messages : m.cmd = "download" \/ t = "primary"}
Filled == {r \in Replies : r.length # 0}

Coming == Cardinality(Hits(toAdapter, Carriers(type))) + Cardinality(Hits(toBrowser, Filled))

FlagsInv == ~mishap => FlagsSet <= Coming /\ (sendDisabled => readbackRequested)

LEMMA ComingIs ==
  ASSUME TypeOK
  PROVE  /\ Cardinality(WillCarry) + Cardinality(Carries) = Coming
         /\ Cardinality(Hits(toAdapter, Carriers(type))) \in Nat
         /\ Cardinality(Hits(toBrowser, Filled)) \in Nat
         /\ FlagsSet \in 0 .. 2
<1>1. toAdapter \in Seq(Messages) /\ toBrowser \in Seq(Replies)
  BY DEF TypeOK
<1>2. WillCarry = Hits(toAdapter, Carriers(type)) /\ Carries = Hits(toBrowser, Filled)
  BY <1>1 DEF WillCarry, Carries, Hits, Carriers, Filled
<1>3. FlagsSet \in 0 .. 2
  BY DEF FlagsSet
<1>4. QED
  BY <1>1, <1>2, <1>3, HitsAreFinite DEF Coming

(* A download that is sent will be answered with a program. *)
LEMMA DownloadSent ==
  ASSUME TypeOK, toAdapter' = Append(toAdapter, Download), UNCHANGED <<type, toBrowser>>
  PROVE  Coming' = Coming + 1
<1>1. toAdapter \in Seq(Messages) /\ Download \in Messages /\ Download \in Carriers(type)
  BY WireTypes DEF TypeOK, Carriers, Download
<1>2. Cardinality(Hits(toAdapter', Carriers(type))) = Cardinality(Hits(toAdapter, Carriers(type))) + 1
  BY <1>1, HitsOfAppend
<1>3. Carriers(type)' = Carriers(type)
  BY DEF Carriers
<1>4. QED
  BY <1>2, <1>3, ComingIs DEF Coming

(* A message is answered with something just where it was counted. *)
LEMMA Answered ==
  ASSUME TypeOK, toAdapter # <<>>, NEW reply \in Replies, toAdapter' = Tail(toAdapter),
         toBrowser' = Append(toBrowser, reply), type' = type,
         reply \in Filled <=> Head(toAdapter) \in Carriers(type)
  PROVE  Coming' = Coming
<1>1. toAdapter \in Seq(Messages) /\ toBrowser \in Seq(Replies)
  BY DEF TypeOK
<1>2. Cardinality(Hits(toAdapter', Carriers(type)))
        = Cardinality(Hits(toAdapter, Carriers(type))) - (IF Head(toAdapter) \in Carriers(type) THEN 1 ELSE 0)
  BY <1>1, HitsOfTail
<1>3. Cardinality(Hits(toBrowser', Filled))
        = Cardinality(Hits(toBrowser, Filled)) + (IF reply \in Filled THEN 1 ELSE 0)
  BY <1>1, HitsOfAppend
<1>4. Carriers(type)' = Carriers(type)
  BY DEF Carriers
<1>5. QED
  BY <1>2, <1>3, <1>4, ComingIs DEF Coming

(* A reply is taken. *)
LEMMA Taken ==
  ASSUME TypeOK, toBrowser # <<>>, toBrowser' = Tail(toBrowser), UNCHANGED <<type, toAdapter>>
  PROVE  Coming' = Coming - (IF Head(toBrowser).length # 0 THEN 1 ELSE 0)
<1>1. toBrowser \in Seq(Replies) /\ Head(toBrowser) \in Replies
  BY HeadTailProperties DEF TypeOK
<1>2. Head(toBrowser) \in Filled <=> Head(toBrowser).length # 0
  BY <1>1 DEF Filled
<1>3. Cardinality(Hits(toBrowser', Filled))
        = Cardinality(Hits(toBrowser, Filled)) - (IF Head(toBrowser) \in Filled THEN 1 ELSE 0)
  BY <1>1, HitsOfTail
<1>4. Carriers(type)' = Carriers(type)
  BY DEF Carriers
<1>5. QED
  BY <1>2, <1>3, <1>4, ComingIs DEF Coming

LEMMA ComingSame == UNCHANGED <<type, toAdapter, toBrowser>> => Coming' = Coming
BY DEF Coming, Carriers

LEMMA PrimedComing ==
  ASSUME TypeOK'
  PROVE  Coming' \in Nat
<1>1. toAdapter' \in Seq(Messages) /\ toBrowser' \in Seq(Replies)
  BY DEF TypeOK
<1>2. QED
  BY <1>1, HitsAreFinite DEF Coming

(* Each request that sets a flag sends what will carry; each reply that carries clears *)
(* one.                                                                        *)
LEMMA FlagsStep == TypeOK /\ FlagsInv /\ [Next]_vars => FlagsInv'
<1> SUFFICES ASSUME TypeOK, FlagsInv, [Next]_vars PROVE FlagsInv'
  OBVIOUS
<1> USE DEF flags, wire, ghosts, bounds
<1>1. CASE HandleSend
  <2> SUFFICES ASSUME ~mishap' PROVE FlagsInv'
    BY DEF FlagsInv
  <2> DEFINE load == [cmd |-> "load", program |-> Sequence]
  <2>1. Socket = "open" /\ ~mishap /\ UNCHANGED <<type, toBrowser>> /\ toAdapter' = toAdapter \o <<load, Download>>
    BY <1>1 DEF HandleSend, Transmit
  <2>2. load \in Messages /\ Download \in Messages /\ toAdapter \in Seq(Messages)
    BY WireTypes DEF TypeOK
  <2>3. toAdapter' = Append(Append(toAdapter, load), Download) /\ Append(toAdapter, load) \in Seq(Messages)
    <3> HIDE DEF load
    <3>1. QED
      BY <2>1, <2>2
  <2>4. Coming' >= Coming + 1
    <3>1. Download \in Carriers(type) /\ Carriers(type)' = Carriers(type)
      BY <2>1, <2>2 DEF Carriers, Download
    <3> HIDE DEF load
    <3>2. Cardinality(Hits(toAdapter', Carriers(type)))
            = Cardinality(Hits(Append(toAdapter, load), Carriers(type))) + 1
      <4>1. \A s \in Seq(Messages) :
              Cardinality(Hits(Append(s, Download), Carriers(type))) = Cardinality(Hits(s, Carriers(type))) + 1
        BY <2>2, <3>1, HitsOfAppend
      <4>2. QED
        BY <2>3, <4>1
    <3>3. Cardinality(Hits(Append(toAdapter, load), Carriers(type)))
            = Cardinality(Hits(toAdapter, Carriers(type))) + (IF load \in Carriers(type) THEN 1 ELSE 0)
      BY <2>2, HitsOfAppend
    <3>4. QED
      BY <2>1, <3>1, <3>2, <3>3, ComingIs DEF Coming
  <2>5. FlagsSet' <= FlagsSet + 1 /\ readbackRequested'
    BY <1>1 DEF HandleSend, FlagsSet
  <2>6. Coming \in Nat /\ Coming' \in Nat /\ FlagsSet' \in Int /\ FlagsSet \in Int
    <3>1. Coming \in Nat
      BY ComingIs DEF Coming
    <3>2. Coming' \in Nat
      BY TypesStep, PrimedComing
    <3>3. QED
      BY <3>1, <3>2 DEF FlagsSet
  <2>7. QED
    BY <2>1, <2>4, <2>5, <2>6 DEF FlagsInv
<1>2. CASE HandleSendRaises
  BY <1>2 DEF HandleSendRaises, FlagsInv
<1>3. CASE HandleLoad
  <2> SUFFICES ASSUME ~mishap' PROVE FlagsInv'
    BY DEF FlagsInv
  <2>1. Socket = "open" /\ ~mishap /\ UNCHANGED <<type, toBrowser, sendDisabled, readbackRequested>>
    BY <1>3 DEF HandleLoad, RequestDownload, Transmit
  <2>2. toAdapter' = Append(toAdapter, Download) /\ downloadRequested'
    BY <1>3, <2>1 DEF HandleLoad, RequestDownload, Transmit, TypeOK
  <2>3. Coming' = Coming + 1
    BY <2>1, <2>2, DownloadSent
  <2>4. FlagsSet' <= FlagsSet + 1
    BY <2>1, <2>2 DEF FlagsSet
  <2>5. Coming \in Nat /\ FlagsSet' \in Int /\ FlagsSet \in Int
    BY ComingIs DEF Coming, FlagsSet
  <2>6. QED
    BY <2>1, <2>3, <2>4, <2>5 DEF FlagsInv
<1>4. CASE Preload
  <2> SUFFICES ASSUME ~mishap' PROVE FlagsInv'
    BY DEF FlagsInv
  <2>1. Socket = "open" /\ ~mishap /\ UNCHANGED <<type, toBrowser, sendDisabled, readbackRequested>>
    BY <1>4 DEF Preload, RequestDownload, Transmit
  <2>2. toAdapter' = Append(toAdapter, Download) /\ downloadRequested'
    BY <1>4, <2>1 DEF Preload, RequestDownload, Transmit, TypeOK
  <2>3. Coming' = Coming + 1
    BY <2>1, <2>2, DownloadSent
  <2>4. FlagsSet' <= FlagsSet + 1
    BY <2>1, <2>2 DEF FlagsSet
  <2>5. Coming \in Nat /\ FlagsSet' \in Int /\ FlagsSet \in Int
    BY ComingIs DEF Coming, FlagsSet
  <2>6. QED
    BY <2>1, <2>3, <2>4, <2>5 DEF FlagsInv
<1>5. CASE PreloadAgain
  <2> SUFFICES ASSUME ~mishap' PROVE FlagsInv'
    BY DEF FlagsInv
  <2>1. CASE Socket # "open"
    <3>1. UNCHANGED <<type, toAdapter, toBrowser, flags, mishap>>
      BY <1>5, <2>1 DEF PreloadAgain
    <3>2. QED
      BY <3>1, ComingSame DEF FlagsInv, FlagsSet
  <2>2. CASE Socket = "open"
    <3>1. Socket = "open" /\ ~mishap /\ UNCHANGED <<type, toBrowser, sendDisabled, readbackRequested>>
      BY <1>5, <2>2 DEF PreloadAgain, RequestDownload, Transmit
    <3>2. toAdapter' = Append(toAdapter, Download) /\ downloadRequested'
      BY <1>5, <2>2, <3>1 DEF PreloadAgain, RequestDownload, Transmit, TypeOK
    <3>3. Coming' = Coming + 1
      BY <3>1, <3>2, DownloadSent
    <3>4. FlagsSet' <= FlagsSet + 1
      BY <3>1, <3>2 DEF FlagsSet
    <3>5. Coming \in Nat /\ FlagsSet' \in Int /\ FlagsSet \in Int
      BY ComingIs DEF Coming, FlagsSet
    <3>6. QED
      BY <3>1, <3>3, <3>4, <3>5 DEF FlagsInv
  <2>3. QED
    BY <2>1, <2>2
<1>6. CASE Edit
  <2>1. UNCHANGED <<type, toAdapter, toBrowser, flags, mishap>>
    BY <1>6 DEF Edit
  <2>2. QED
    BY <2>1, ComingSame DEF FlagsInv, FlagsSet
<1>7. CASE AdapterLoad
  <2>1. /\ toAdapter # <<>> /\ toAdapter' = Tail(toAdapter) /\ toBrowser' = Append(toBrowser, LoadReply)
        /\ Head(toAdapter).cmd = "load" /\ UNCHANGED <<type, flags, mishap>>
    BY <1>7 DEF AdapterLoad, NextIs, Answer
  <2>2. LoadReply \in Replies /\ (LoadReply \in Filled <=> type = "primary")
    <3>1. Carrying(Blank) \in Replies /\ NoEntry \in Replies
      BY WireTypes DEF Tables
    <3>2. QED
      BY <3>1 DEF LoadReply, Filled, Carrying, NoEntry
  <2>3. Head(toAdapter) \in Carriers(type) <=> type = "primary"
    BY <2>1, HeadTailProperties DEF TypeOK, Carriers
  <2>4. Coming' = Coming
    BY <2>1, <2>2, <2>3, Answered
  <2>5. QED
    BY <2>1, <2>4 DEF FlagsInv, FlagsSet
<1>8. CASE AdapterDownload
  <2>1. /\ toAdapter # <<>> /\ toAdapter' = Tail(toAdapter) /\ toBrowser' = Append(toBrowser, Carrying(stored))
        /\ Head(toAdapter).cmd = "download" /\ UNCHANGED <<type, flags, mishap>>
    BY <1>8 DEF AdapterDownload, NextIs, Answer
  <2>2. Carrying(stored) \in Replies /\ Carrying(stored) \in Filled
    <3>1. Carrying(stored) \in Replies
      BY WireTypes DEF TypeOK, Tables
    <3>2. QED
      BY <3>1 DEF Filled, Carrying
  <2>3. Head(toAdapter) \in Carriers(type)
    BY <2>1, HeadTailProperties DEF TypeOK, Carriers
  <2>4. Coming' = Coming
    BY <2>1, <2>2, <2>3, Answered
  <2>5. QED
    BY <2>1, <2>4 DEF FlagsInv, FlagsSet
<1>9. CASE AdapterRaises
  BY <1>9 DEF AdapterRaises, Disconnect, FlagsInv
<1>10. CASE ConnectionLost
  BY <1>10 DEF ConnectionLost, Disconnect, FlagsInv
<1>11. CASE SocketOpens
  <2>1. UNCHANGED <<type, toAdapter, toBrowser, flags, mishap>>
    BY <1>11 DEF SocketOpens
  <2>2. QED
    BY <2>1, ComingSame DEF FlagsInv, FlagsSet
<1>12. CASE ReplyIgnored
  <2>1. toBrowser # <<>> /\ toBrowser' = Tail(toBrowser) /\ UNCHANGED <<type, toAdapter, mishap>>
    BY <1>12 DEF ReplyIgnored, Receive, Incoming
  <2>2. Coming' = Coming - (IF Incoming.length # 0 THEN 1 ELSE 0) /\ Coming \in Nat
    BY <2>1, Taken, ComingIs DEF Incoming, Coming
  <2>3. CASE Incoming.length = 0
    BY <1>12, <2>1, <2>2, <2>3 DEF ReplyIgnored, FlagsInv, FlagsSet
  <2>4. CASE Incoming.length # 0
    <3>1. FlagsSet' = 0 /\ FlagsSet = 0 /\ UNCHANGED flags
      BY <1>12, <2>4 DEF ReplyIgnored, FlagsSet
    <3>2. Coming' \in Nat
      BY <2>1, ComingIs, TypesStep, PrimedComing
    <3>3. QED
      BY <2>1, <3>1, <3>2 DEF FlagsInv
  <2>5. QED
    BY <2>3, <2>4
<1>13. CASE ReplyIsDownload
  <2>1. toBrowser # <<>> /\ toBrowser' = Tail(toBrowser) /\ UNCHANGED <<type, toAdapter, mishap>>
    BY <1>13 DEF ReplyIsDownload, Receive, Incoming
  <2>2. Coming' = Coming - (IF Incoming.length # 0 THEN 1 ELSE 0) /\ Coming \in Nat
    BY <2>1, Taken, ComingIs DEF Incoming, Coming
  <2>3. Incoming.length # 0 /\ FlagsSet' = FlagsSet - 1 /\ UNCHANGED <<sendDisabled, readbackRequested>>
    BY <1>13 DEF ReplyIsDownload, FlagsSet
  <2>4. FlagsSet \in Int
    BY DEF FlagsSet
  <2>5. QED
    BY <2>1, <2>2, <2>3, <2>4 DEF FlagsInv
<1>14. CASE ReplyIsReadback
  <2>1. toBrowser # <<>> /\ toBrowser' = Tail(toBrowser) /\ UNCHANGED <<type, toAdapter, mishap>>
    BY <1>14 DEF ReplyIsReadback, Receive, Incoming
  <2>2. Coming' = Coming - (IF Incoming.length # 0 THEN 1 ELSE 0) /\ Coming \in Nat
    BY <2>1, Taken, ComingIs DEF Incoming, Coming
  <2>3. Incoming.length # 0 /\ FlagsSet' = FlagsSet - 1 /\ ~sendDisabled'
    BY <1>14 DEF ReplyIsReadback, FlagsSet
  <2>4. FlagsSet \in Int
    BY DEF FlagsSet
  <2>5. QED
    BY <2>1, <2>2, <2>3, <2>4 DEF FlagsInv
<1>15. CASE UNCHANGED vars
  <2>1. UNCHANGED <<type, toAdapter, toBrowser, flags, mishap>>
    BY <1>15 DEF vars
  <2>2. QED
    BY <2>1, ComingSame DEF FlagsInv, FlagsSet
<1>16. QED
  BY <1>1, <1>2, <1>3, <1>4, <1>5, <1>6, <1>7, <1>8, <1>9, <1>10, <1>11, <1>12, <1>13, <1>14,
     <1>15 DEF Next

(* While nothing gets lost, each flag is matched by a reply that will clear it, and the     *)
(* disabled button by the readback flag (SequenceTable.vue 529-661, 743-936, 984-998).     *)
THEOREM FlagsAreMatched == Spec => []FlagsHaveReplies
<1>1. Init => FlagsInv
  <2> SUFFICES ASSUME Init PROVE FlagsInv
    OBVIOUS
  <2>1. FlagsSet = 0 /\ ~sendDisabled
    BY DEF Init, FlagsSet
  <2>2. toAdapter \in Seq(Messages) /\ toBrowser \in Seq(Replies)
    BY DEF Init
  <2>3. Coming \in Nat
    BY <2>2, HitsAreFinite DEF Coming
  <2>4. QED
    BY <2>1, <2>3 DEF FlagsInv
<1>2. TypeOK /\ FlagsInv => FlagsHaveReplies
  BY ComingIs DEF FlagsInv, FlagsHaveReplies
<1>3. QED
  BY <1>1, <1>2, FlagsStep, TypeCorrect, PTL DEF Spec

-----------------------------------------------------------------------------
(* The verdict.                                                                *)

Load(p) == [cmd |-> "load", program |-> p]

\* The stages of an undisturbed Send of a redline or purge sequence: the load and the download
\* are on their way to the adapter, their replies to the browser, or nothing is.
LoadPending ==
  /\ toBrowser = <<>>
  /\ toAdapter = <<Load(sentProgram), Download>>

DownloadPending ==
  /\ toAdapter = <<Download>>
  /\ toBrowser \in {<<>>, <<NoEntry>>}

ReadbackPending ==
  /\ toAdapter = <<>>
  /\ toBrowser \in {<<NoEntry, Carrying(stored)>>, <<Carrying(stored)>>}

NothingPending == toAdapter = <<>> /\ toBrowser = <<>>

VerdictInv ==
  undisturbed /\ type # "primary" =>
    /\ Sequence = sentProgram /\ ~downloadRequested
    /\ verdict # "none" => NothingPending /\ (verdict = "verified" <=> stored = sentProgram)
    /\ LoadPending \/ DownloadPending \/ ReadbackPending \/ NothingPending
    /\ ~NothingPending => readbackRequested

LEMMA VerdictSame ==
  ASSUME VerdictInv,
         UNCHANGED <<undisturbed, type, Sequence, sentProgram, downloadRequested, readbackRequested, verdict,
                     stored, toAdapter, toBrowser>>
  PROVE  VerdictInv'
BY DEF VerdictInv, LoadPending, DownloadPending, ReadbackPending, NothingPending, Load, Carrying

(* An undisturbed Send goes from stage to stage.                               *)
LEMMA VerdictStep == TypeOK /\ VerdictInv /\ [Next]_vars => VerdictInv'
<1> SUFFICES ASSUME TypeOK, VerdictInv, [Next]_vars PROVE VerdictInv'
  OBVIOUS
<1> USE DEF flags, wire, ghosts, bounds
<1>1. CASE HandleSend
  <2> SUFFICES ASSUME undisturbed', type # "primary" PROVE VerdictInv'
    BY <1>1 DEF VerdictInv, HandleSend
  <2>1. toAdapter = <<>> /\ toBrowser = <<>> /\ ~downloadRequested
    BY <1>1 DEF HandleSend, Awaited
  <2>2. Sequence' = sentProgram' /\ ~downloadRequested' /\ verdict' = "none" /\ readbackRequested'
    BY <1>1, <2>1 DEF HandleSend
  <2>3. toBrowser' = <<>>
    BY <1>1, <2>1 DEF HandleSend, Transmit
  <2>4. toAdapter' \in {<<>>, <<Load(Sequence), Download>>} /\ sentProgram' = Sequence
    BY <1>1, <2>1 DEF HandleSend, Transmit, Load
  <2>5. Load(Sequence) = Load(sentProgram')
    BY <2>4
  <2>6. LoadPending' \/ NothingPending'
    BY <2>3, <2>4, <2>5 DEF LoadPending, NothingPending, Load
  <2>7. QED
    BY <2>2, <2>6 DEF VerdictInv
<1>2. CASE HandleSendRaises
  <2>1. undisturbed' = FALSE
    BY <1>2 DEF HandleSendRaises
  <2>2. QED
    BY <2>1 DEF VerdictInv
<1>3. CASE HandleLoad
  <2>1. undisturbed' = FALSE
    BY <1>3 DEF HandleLoad, RequestDownload, Transmit
  <2>2. QED
    BY <2>1 DEF VerdictInv
<1>4. CASE Preload
  <2>1. undisturbed' = FALSE
    BY <1>4 DEF Preload, RequestDownload, Transmit
  <2>2. QED
    BY <2>1 DEF VerdictInv
<1>5. CASE PreloadAgain
  <2>1. CASE Socket = "open"
    <3>1. undisturbed' = FALSE
      BY <1>5, <2>1 DEF PreloadAgain, RequestDownload
    <3>2. QED
      BY <3>1 DEF VerdictInv
  <2>2. CASE Socket # "open"
    <3>1. UNCHANGED <<undisturbed, type, Sequence, sentProgram, downloadRequested, readbackRequested, verdict,
                      stored, toAdapter, toBrowser>>
      BY <1>5, <2>2 DEF PreloadAgain
    <3>2. QED
      BY <3>1, VerdictSame
  <2>3. QED
    BY <2>1, <2>2
<1>6. CASE Edit
  <2>1. undisturbed' = FALSE
    BY <1>6 DEF Edit
  <2>2. QED
    BY <2>1 DEF VerdictInv
<1>7. CASE AdapterLoad
  <2> SUFFICES ASSUME undisturbed, type # "primary" PROVE VerdictInv'
    BY <1>7 DEF VerdictInv, AdapterLoad, Answer
  <2>1. /\ UNCHANGED <<type, Sequence, downloadRequested, readbackRequested, verdict, sentProgram, undisturbed>>
        /\ toAdapter # <<>> /\ Head(toAdapter).cmd = "load" /\ toAdapter' = Tail(toAdapter)
        /\ toBrowser' = Append(toBrowser, NoEntry)
    BY <1>7 DEF AdapterLoad, NextIs, Answer, LoadReply
  <2>2. LoadPending
    <3>1. Download.cmd # "load" /\ Head(<<Download>>) = Download
      BY DEF Download
    <3>2. QED
      BY <2>1, <3>1 DEF VerdictInv, DownloadPending, ReadbackPending, NothingPending
  <2>3. toAdapter' = <<Download>> /\ toBrowser' = <<NoEntry>>
    BY <2>1, <2>2 DEF LoadPending
  <2>4. verdict = "none" /\ readbackRequested
    BY <2>2 DEF VerdictInv, LoadPending, NothingPending
  <2>5. DownloadPending' /\ ~NothingPending'
    BY <2>3 DEF DownloadPending, NothingPending
  <2>6. QED
    BY <2>1, <2>4, <2>5 DEF VerdictInv
<1>8. CASE AdapterDownload
  <2> SUFFICES ASSUME undisturbed, type # "primary" PROVE VerdictInv'
    BY <1>8 DEF VerdictInv, AdapterDownload, Answer
  <2>1. /\ UNCHANGED <<type, Sequence, downloadRequested, readbackRequested, verdict, sentProgram, undisturbed, stored>>
        /\ toAdapter # <<>> /\ Head(toAdapter).cmd = "download" /\ toAdapter' = Tail(toAdapter)
        /\ toBrowser' = Append(toBrowser, Carrying(stored))
    BY <1>8 DEF AdapterDownload, NextIs, Answer
  <2>2. DownloadPending
    <3>1. Load(sentProgram).cmd # "download" /\ Head(<<Load(sentProgram), Download>>) = Load(sentProgram)
      BY DEF Load
    <3>2. QED
      BY <2>1, <3>1 DEF VerdictInv, LoadPending, ReadbackPending, NothingPending
  <2>3. toAdapter' = <<>> /\ toBrowser' \in {<<Carrying(stored)>>, <<NoEntry, Carrying(stored)>>}
    <3>1. toAdapter' = <<>>
      BY <2>1, <2>2 DEF DownloadPending
    <3>2. CASE toBrowser = <<>>
      BY <2>1, <3>1, <3>2
    <3>3. CASE toBrowser = <<NoEntry>>
      <4>1. ASSUME NEW x \in Replies, NEW y \in Replies PROVE Append(<<x>>, y) = <<x, y>>
        <5>1. <<x>> \in Seq(Replies) /\ Len(<<x>>) = 1
          OBVIOUS
        <5>2. Append(<<x>>, y) \in Seq(Replies) /\ Len(Append(<<x>>, y)) = 2
          BY <5>1
        <5>3. <<x, y>> \in Seq(Replies) /\ Len(<<x, y>>) = 2
          OBVIOUS
        <5>4. \A i \in 1 .. 2 : Append(<<x>>, y)[i] = <<x, y>>[i]
          BY <5>1
        <5>5. QED
          BY <5>2, <5>3, <5>4, SeqEqual
      <4>2. toBrowser' = <<NoEntry, Carrying(stored)>>
        BY <2>1, <3>3, <4>1, WireTypes DEF TypeOK, Tables
      <4>3. QED
        BY <3>1, <4>2
    <3>4. QED
      BY <2>2, <3>1, <3>2, <3>3 DEF DownloadPending
  <2>4. verdict = "none" /\ readbackRequested
    BY <2>2 DEF VerdictInv, DownloadPending, NothingPending
  <2>5. Carrying(stored)' = Carrying(stored)
    BY <2>1 DEF Carrying
  <2>6. ReadbackPending' /\ ~NothingPending'
    BY <2>3, <2>5 DEF ReadbackPending, NothingPending
  <2>7. QED
    BY <2>1, <2>4, <2>6 DEF VerdictInv
<1>9. CASE AdapterRaises
  <2>1. undisturbed' = FALSE
    BY <1>9 DEF AdapterRaises, Disconnect
  <2>2. QED
    BY <2>1 DEF VerdictInv
<1>10. CASE ConnectionLost
  <2>1. undisturbed' = FALSE
    BY <1>10 DEF ConnectionLost, Disconnect
  <2>2. QED
    BY <2>1 DEF VerdictInv
<1>11. CASE SocketOpens
  <2>1. UNCHANGED <<undisturbed, type, Sequence, sentProgram, downloadRequested, readbackRequested, verdict,
                    stored, toAdapter, toBrowser>>
    BY <1>11 DEF SocketOpens
  <2>2. QED
    BY <2>1, VerdictSame
<1>12. CASE ReplyIgnored
  <2> SUFFICES ASSUME undisturbed, type # "primary" PROVE VerdictInv'
    BY <1>12 DEF VerdictInv, ReplyIgnored, Receive
  <2>1. /\ UNCHANGED <<type, Sequence, downloadRequested, readbackRequested, verdict, sentProgram, undisturbed, stored>>
        /\ toBrowser # <<>> /\ toBrowser' = Tail(toBrowser) /\ toAdapter' = toAdapter
    BY <1>12 DEF ReplyIgnored, Receive
  <2>2. ~NothingPending /\ readbackRequested /\ verdict = "none"
    BY <2>1 DEF VerdictInv, NothingPending
  <2>3. Head(toBrowser).length = 0
    BY <1>12, <2>2 DEF ReplyIgnored, Incoming
  <2>4. Carrying(stored).length # 0 /\ Head(<<Carrying(stored)>>) = Carrying(stored)
    BY DEF Carrying
  <2>5. \/ toAdapter = <<Download>> /\ toBrowser = <<NoEntry>>
        \/ toAdapter = <<>> /\ toBrowser = <<NoEntry, Carrying(stored)>>
    BY <2>1, <2>2, <2>3, <2>4 DEF VerdictInv, LoadPending, DownloadPending, ReadbackPending
  <2>6. Carrying(stored)' = Carrying(stored)
    BY <2>1 DEF Carrying
  <2>7. DownloadPending' \/ ReadbackPending'
    <3>1. CASE toAdapter = <<Download>> /\ toBrowser = <<NoEntry>>
      BY <2>1, <3>1 DEF DownloadPending
    <3>2. CASE toAdapter = <<>> /\ toBrowser = <<NoEntry, Carrying(stored)>>
      BY <2>1, <2>6, <3>2 DEF ReadbackPending
    <3>3. QED
      BY <2>5, <3>1, <3>2
  <2>8. QED
    BY <2>1, <2>2, <2>7 DEF VerdictInv
<1>13. CASE ReplyIsDownload
  <2>1. downloadRequested /\ UNCHANGED <<undisturbed, type>>
    BY <1>13 DEF ReplyIsDownload, Receive
  <2>2. QED
    BY <2>1 DEF VerdictInv
<1>14. CASE ReplyIsReadback
  <2> SUFFICES ASSUME undisturbed, type # "primary" PROVE VerdictInv'
    BY <1>14 DEF VerdictInv, ReplyIsReadback, Receive
  <2>1. /\ UNCHANGED <<type, Sequence, downloadRequested, sentProgram, undisturbed, stored>>
        /\ toBrowser # <<>> /\ toBrowser' = Tail(toBrowser) /\ toAdapter' = toAdapter
        /\ Head(toBrowser).length # 0
        /\ verdict' = IF Head(toBrowser).program = Sequence THEN "verified" ELSE "mismatch"
    BY <1>14 DEF ReplyIsReadback, Receive, Incoming
  <2>2. Head(<<NoEntry>>).length = 0 /\ Head(<<NoEntry, Carrying(stored)>>).length = 0
    BY DEF NoEntry
  <2>3. toAdapter = <<>> /\ toBrowser = <<Carrying(stored)>>
    BY <2>1, <2>2 DEF VerdictInv, LoadPending, DownloadPending, ReadbackPending, NothingPending
  <2>4. NothingPending'
    BY <2>1, <2>3 DEF NothingPending
  <2>5. Head(toBrowser).program = stored
    BY <2>3 DEF Carrying
  <2>6. Sequence = sentProgram /\ ~downloadRequested
    BY DEF VerdictInv
  <2>7. verdict' = "verified" <=> stored' = sentProgram'
    BY <2>1, <2>5, <2>6
  <2>8. QED
    BY <2>1, <2>4, <2>6, <2>7 DEF VerdictInv
<1>15. CASE UNCHANGED vars
  <2>1. UNCHANGED <<undisturbed, type, Sequence, sentProgram, downloadRequested, readbackRequested, verdict,
                    stored, toAdapter, toBrowser>>
    BY <1>15 DEF vars
  <2>2. QED
    BY <2>1, VerdictSame
<1>16. QED
  BY <1>1, <1>2, <1>3, <1>4, <1>5, <1>6, <1>7, <1>8, <1>9, <1>10, <1>11, <1>12, <1>13, <1>14,
     <1>15 DEF Next

(* A Send of a redline or purge sequence that nothing disturbs gets the verdict that the     *)
(* MCS's program deserves (SequenceTable.vue 925-930).                                    *)
THEOREM VerdictIsDeserved == Spec => []VerdictIsTrue
<1>1. Init => VerdictInv
  BY DEF Init, VerdictInv
<1>2. VerdictInv => VerdictIsTrue
  BY DEF VerdictInv, VerdictIsTrue
<1>3. QED
  BY <1>1, <1>2, VerdictStep, TypeCorrect, PTL DEF Spec

=============================================================================
