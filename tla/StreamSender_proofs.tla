------------------------- MODULE StreamSender_proofs -------------------------
(***************************************************************************)
(* For every set of collectors, number of charts, size of the buffer and   *)
(* bound: the ring of CircularBuffer is a queue; the types, and the three  *)
(* safety properties of StreamSender.                                      *)
(***************************************************************************)
EXTENDS StreamSender, SequenceTheorems, TLAPS

-----------------------------------------------------------------------------
(***************************************************************************)
(* The ring: for every size, content and set of bytes, it is a queue. What *)
(* is added comes after what is there, what is removed is its beginning,   *)
(* and a growth changes nothing of it, wherever the indices are.           *)
(***************************************************************************)

\* The fields of a ring.
LEMMA Fields ==
  ASSUME NEW B, NEW r, IsRing(r, B)
  PROVE  /\ MaxSize \in Nat /\ r.size \in Nat /\ 1 <= r.size /\ r.size <= MaxSize
         /\ r.read \in 0 .. r.size - 1 /\ r.write \in 0 .. r.size - 1
         /\ r.data \in [0 .. r.size - 1 -> B \cup {None}]
BY MaxSizeAssumption DEF IsRing, RingsOf

\* A cell's distance from an index leads to the cell, and to one cell only.
LEMMA Around ==
  ASSUME NEW r, r.size \in Nat, NEW from \in 0 .. r.size - 1, NEW i \in 0 .. r.size - 1
  PROVE  /\ Distance(r, from, i) \in 0 .. r.size - 1
         /\ Wrapped(r, from + Distance(r, from, i)) = i
         /\ Wrapped(r, from + i) \in 0 .. r.size - 1
         /\ Distance(r, from, Wrapped(r, from + i)) = i
BY DEF Distance, Wrapped

LEMMA UsedIsLess ==
  ASSUME NEW B, NEW r, IsRing(r, B)
  PROVE  Used(r) \in 0 .. r.size - 1 /\ Wrapped(r, r.read + Used(r)) = r.write
<1>1. r.size \in Nat /\ r.read \in 0 .. r.size - 1 /\ r.write \in 0 .. r.size - 1
  BY Fields
<1> QED
  BY <1>1 DEF Used, Distance, Wrapped

\* A cell of the content is as far from the write index as from the read index, less what
\* is used; all other cells are free.
LEMMA Positions ==
  ASSUME NEW r, r.size \in Nat, r.read \in 0 .. r.size - 1, r.write \in 0 .. r.size - 1,
         NEW k \in 0 .. r.size - 1
  PROVE  Distance(r, r.write, Wrapped(r, r.read + k)) =
           IF k < Used(r) THEN r.size - Used(r) + k ELSE k - Used(r)
BY DEF Used, Distance, Wrapped

\* What is used when an index has moved.
LEMMA UsedAfter ==
  ASSUME NEW r, r.size \in Nat, r.read \in 0 .. r.size - 1, r.write \in 0 .. r.size - 1,
         NEW q, q.size = r.size, NEW n \in Nat
  PROVE  /\ /\ Used(r) + n < r.size
            /\ q.read = r.read /\ q.write = Wrapped(r, r.write + n)
            => Used(q) = Used(r) + n
         /\ n <= Used(r) /\ q.read = Wrapped(r, r.read + n) /\ q.write = r.write
            => Used(q) = Used(r) - n
BY DEF Used, Distance, Wrapped

\* The cell that is k cells after the read index.
Cell(r, k) == r.data[Wrapped(r, r.read + k)]

\* The content is a sequence of the cells from the read index on.
LEMMA ContentCells ==
  ASSUME NEW B, NEW r, IsRing(r, B)
  PROVE  /\ Content(r) \in Seq(B \cup {None})
         /\ Len(Content(r)) = Used(r)
         /\ \A k \in 0 .. Used(r) - 1 : Content(r)[k + 1] = Cell(r, k)
<1>1. /\ r.size \in Nat /\ r.read \in 0 .. r.size - 1
      /\ r.data \in [0 .. r.size - 1 -> B \cup {None}]
      /\ Used(r) \in 0 .. r.size - 1
  BY Fields, UsedIsLess
<1>2. \A k \in 0 .. Used(r) - 1 : Cell(r, k) \in B \cup {None}
  <2>1. \A k \in 0 .. Used(r) - 1 : Wrapped(r, r.read + k) \in 0 .. r.size - 1
    BY <1>1 DEF Wrapped
  <2> QED
    BY <1>1, <2>1 DEF Cell
<1>3. \A k \in 1 .. Used(r) : /\ k - 1 \in 0 .. Used(r) - 1
                              /\ r.read + k - 1 = r.read + (k - 1)
  BY <1>1
<1>4. Content(r) = [k \in 1 .. Used(r) |-> Cell(r, k - 1)]
  BY <1>3 DEF Content, Cell
<1>5. \A k \in 0 .. Used(r) - 1 : k + 1 \in 1 .. Used(r) /\ (k + 1) - 1 = k
  BY <1>1
<1> HIDE DEF Cell
<1>6. \A k \in 1 .. Used(r) : Cell(r, k - 1) \in B \cup {None}
  BY <1>2, <1>3
<1>7. Content(r) \in Seq(B \cup {None})
  BY <1>1, <1>4, <1>6
<1>8. Len(Content(r)) = Used(r)
  BY <1>1, <1>4
<1>9. \A k \in 0 .. Used(r) - 1 : Content(r)[k + 1] = Cell(r, k)
  BY <1>4, <1>5
<1> QED
  BY <1>7, <1>8, <1>9

\* Two rings with the same cells at the same distances have the same content.
LEMMA SameCells ==
  ASSUME NEW B, NEW r, NEW s \in Seq(B \cup {None}), IsRing(r, B), Len(s) = Used(r),
         \A k \in 0 .. Used(r) - 1 : Cell(r, k) = s[k + 1]
  PROVE  Content(r) = s
<1>1. Used(r) \in Nat
  BY UsedIsLess, Fields
<1>2. ASSUME NEW k \in 1 .. Used(r)
      PROVE  Content(r)[k] = s[k]
  <2>1. k - 1 \in 0 .. Used(r) - 1 /\ (k - 1) + 1 = k
    BY <1>1
  <2> QED
    BY <2>1, ContentCells
<1> QED
  BY <1>1, <1>2, ContentCells, SeqEqual

\* cbuffer_new gives an empty ring.
THEOREM NewIsEmpty ==
  ASSUME NEW B, NEW initial \in 1 .. MaxSize
  PROVE  IsRing(NewRing(initial), B) /\ Content(NewRing(initial)) = <<>>
<1>1. IsRing(NewRing(initial), B) /\ Used(NewRing(initial)) = 0
  BY MaxSizeAssumption DEF IsRing, RingsOf, NewRing, Used, Distance
<1> QED
  BY <1>1, ContentCells, EmptySeq

\* cbuffer_add_unsafe: what is added comes after the content, nothing of which is overwritten.
THEOREM AddedAtTheEnd ==
  ASSUME NEW B, NEW r, IsRing(r, B), NEW d \in Seq(B), Fits(r, Len(d))
  PROVE  /\ IsRing(Appended(r, d), B)
         /\ Appended(r, d).size = r.size /\ Appended(r, d).read = r.read
         /\ Used(Appended(r, d)) = Used(r) + Len(d)
         /\ Content(Appended(r, d)) = Content(r) \o d
<1> DEFINE q == Appended(r, d)
           cells == [i \in 0 .. r.size - 1 |->
                       IF Distance(r, r.write, i) < Len(d) THEN d[Distance(r, r.write, i) + 1]
                       ELSE r.data[i]]
           next == Wrapped(r, r.write + Len(d))
<1>1. /\ MaxSize \in Nat /\ r.size \in Nat /\ 1 <= r.size /\ r.size <= MaxSize
      /\ r.read \in 0 .. r.size - 1 /\ r.write \in 0 .. r.size - 1
      /\ r.data \in [0 .. r.size - 1 -> B \cup {None}]
  BY Fields
<1>2. /\ Len(d) \in Nat /\ \A i \in 1 .. Len(d) : d[i] \in B
      /\ Used(r) \in Nat /\ Used(r) + Len(d) < r.size
  BY <1>1, UsedIsLess, LenProperties, ElementOfSeq DEF Fits
<1>3. next \in 0 .. r.size - 1
  BY <1>1, <1>2 DEF Wrapped
<1>4. cells \in [0 .. r.size - 1 -> B \cup {None}]
  <2> SUFFICES ASSUME NEW i \in 0 .. r.size - 1
               PROVE  cells[i] \in B \cup {None}
    OBVIOUS
  <2>1. Distance(r, r.write, i) \in Nat
    BY <1>1, Around
  <2>2. Distance(r, r.write, i) < Len(d) => Distance(r, r.write, i) + 1 \in 1 .. Len(d)
    BY <2>1, <1>2
  <2> QED
    BY <1>1, <1>2, <2>2
<1>q. /\ IsRing(q, B) /\ q.data = cells
      /\ q.size = r.size /\ q.read = r.read /\ q.write = next
  <2> HIDE DEF cells, next
  <2>1. q = [r EXCEPT !.data = cells, !.write = next]
    BY DEF Appended, cells, next
  <2> HIDE DEF q
  <2> QED
    BY <2>1, <1>3, <1>4 DEF IsRing, RingsOf
<1> HIDE DEF q, cells, next
<1>5. Used(q) = Used(r) + Len(d)
  BY <1>1, <1>2, <1>q, UsedAfter DEF next
<1>6. \A k \in 0 .. Used(q) - 1 :
        Cell(q, k) = IF k < Used(r) THEN Cell(r, k) ELSE d[k - Used(r) + 1]
  <2> TAKE k \in 0 .. Used(q) - 1
  <2> DEFINE i == Wrapped(r, r.read + k)
  <2>1. k \in 0 .. r.size - 1
    BY <1>1, <1>2, <1>5
  <2>2. i \in 0 .. r.size - 1
    BY <1>1, <2>1, Around
  <2>3. Distance(r, r.write, i) = IF k < Used(r) THEN r.size - Used(r) + k ELSE k - Used(r)
    BY <1>1, <2>1, Positions
  <2>4. Distance(r, r.write, i) < Len(d) <=> ~(k < Used(r))
    BY <1>1, <1>2, <1>5, <2>1, <2>3
  <2>5. Cell(q, k) = cells[i]
    BY <1>q DEF Cell, Wrapped
  <2>6. cells[i] = IF k < Used(r) THEN r.data[i] ELSE d[k - Used(r) + 1]
    BY <2>2, <2>3, <2>4 DEF cells
  <2> QED
    BY <2>5, <2>6 DEF Cell
<1>7. Content(q) = Content(r) \o d
  <2>1. d \in Seq(B \cup {None})
    BY SeqMonotonic
  <2>r. /\ Content(r) \in Seq(B \cup {None}) /\ Len(Content(r)) = Used(r)
        /\ \A k \in 0 .. Used(r) - 1 : Content(r)[k + 1] = Cell(r, k)
    BY ContentCells
  <2>2. /\ Content(r) \o d \in Seq(B \cup {None})
        /\ Len(Content(r) \o d) = Used(q)
    BY <2>r, <2>1, <1>5
  <2>3. \A k \in 0 .. Used(q) - 1 :
          (Content(r) \o d)[k + 1] = IF k < Used(r) THEN Cell(r, k) ELSE d[k - Used(r) + 1]
    <3> TAKE k \in 0 .. Used(q) - 1
    <3>1. k \in Nat /\ k + 1 \in 1 .. Used(r) + Len(d) /\ k + 1 - Used(r) = k - Used(r) + 1
      BY <1>2, <1>5
    <3>2. (Content(r) \o d)[k + 1] = IF k + 1 <= Used(r) THEN Content(r)[k + 1]
                                     ELSE d[k + 1 - Used(r)]
      BY <2>1, <2>r, <3>1, ConcatProperties
    <3>3. k < Used(r) => k + 1 <= Used(r) /\ k \in 0 .. Used(r) - 1
      BY <3>1, <1>2
    <3>4. ~(k < Used(r)) => ~(k + 1 <= Used(r))
      BY <3>1, <1>2
    <3> QED
      BY <2>r, <3>1, <3>2, <3>3, <3>4
  <2> QED
    BY <1>6, <1>q, <2>2, <2>3, SameCells
<1> QED
  BY <1>q, <1>5, <1>7 DEF q

\* cbuffer_remove_unsafe: the rest of the content is left.
THEOREM RemovedFromTheFront ==
  ASSUME NEW B, NEW r, IsRing(r, B), NEW n \in 0 .. Used(r)
  PROVE  /\ IsRing(Removed(r, n), B)
         /\ Used(Removed(r, n)) = Used(r) - n
         /\ Content(Removed(r, n)) = SubSeq(Content(r), n + 1, Used(r))
<1> DEFINE q == Removed(r, n)
           cells == [i \in 0 .. r.size - 1 |->
                       IF Distance(r, r.read, i) < n THEN None ELSE r.data[i]]
           next == Wrapped(r, r.read + n)
<1>1. /\ MaxSize \in Nat /\ r.size \in Nat /\ 1 <= r.size /\ r.size <= MaxSize
      /\ r.read \in 0 .. r.size - 1 /\ r.write \in 0 .. r.size - 1
      /\ r.data \in [0 .. r.size - 1 -> B \cup {None}]
  BY Fields
<1>2. n \in Nat /\ Used(r) \in Nat /\ n <= Used(r) /\ Used(r) < r.size
  BY <1>1, UsedIsLess
<1>3. next \in 0 .. r.size - 1
  BY <1>1, <1>2 DEF Wrapped
<1>4. cells \in [0 .. r.size - 1 -> B \cup {None}]
  BY <1>1
<1>q. /\ IsRing(q, B) /\ q.data = cells
      /\ q.size = r.size /\ q.read = next /\ q.write = r.write
  <2> HIDE DEF cells, next
  <2>1. q = [r EXCEPT !.data = cells, !.read = next]
    BY DEF Removed, cells, next
  <2> HIDE DEF q
  <2> QED
    BY <2>1, <1>3, <1>4 DEF IsRing, RingsOf
<1> HIDE DEF q, cells, next
<1>5. Used(q) = Used(r) - n
  BY <1>1, <1>2, <1>q, UsedAfter DEF next
<1>6. \A k \in 0 .. Used(q) - 1 : n + k \in 0 .. Used(r) - 1 /\ Cell(q, k) = Cell(r, n + k)
  <2> TAKE k \in 0 .. Used(q) - 1
  <2> DEFINE i == Wrapped(r, r.read + (n + k))
  <2>1. /\ k \in Nat /\ n + k \in 0 .. Used(r) - 1 /\ n + k \in 0 .. r.size - 1
        /\ ~(n + k < n)
    BY <1>1, <1>2, <1>5
  <2>2. i \in 0 .. r.size - 1 /\ Distance(r, r.read, i) = n + k
    BY <1>1, <2>1, Around
  <2>3. Wrapped(q, q.read + k) = i
    <3>1. /\ r.size \in Nat /\ r.read \in 0 .. r.size - 1
          /\ q.size = r.size /\ q.read = Wrapped(r, r.read + n)
      BY <1>1, <1>q DEF next
    <3> QED
      BY <3>1, <1>2, <2>1 DEF Wrapped
  <2>4. cells[i] = r.data[i]
    BY <2>1, <2>2 DEF cells
  <2> QED
    BY <1>q, <2>1, <2>3, <2>4 DEF Cell
<1>7. /\ SubSeq(Content(r), n + 1, Used(r)) \in Seq(B \cup {None})
      /\ Len(SubSeq(Content(r), n + 1, Used(r))) = Used(q)
      /\ \A k \in 1 .. Used(q) :
           SubSeq(Content(r), n + 1, Used(r))[k] = Content(r)[n + 1 + k - 1]
  <2>1. \A k \in n + 1 .. Used(r) : Content(r)[k] \in B \cup {None}
    <3>1. \A k \in n + 1 .. Used(r) : k \in 1 .. Used(r)
      BY <1>2
    <3>2. Content(r) \in Seq(B \cup {None}) /\ Len(Content(r)) = Used(r)
      BY ContentCells
    <3> QED
      BY <3>1, <3>2, ElementOfSeq
  <2>2. /\ n + 1 \in Int /\ Used(r) \in Int /\ Used(r) - (n + 1) + 1 = Used(q)
        /\ n + 1 <= Used(r) + 1
    BY <1>2, <1>5
  <2> QED
    BY <2>1, <2>2, SubSeqProperties
<1>8. \A k \in 0 .. Used(q) - 1 :
        SubSeq(Content(r), n + 1, Used(r))[k + 1] = Cell(r, n + k)
  <2> TAKE k \in 0 .. Used(q) - 1
  <2>1. k + 1 \in 1 .. Used(q) /\ n + 1 + (k + 1) - 1 = (n + k) + 1
    BY <1>2, <1>5
  <2> QED
    BY <2>1, <1>6, <1>7, ContentCells
<1>9. Content(q) = SubSeq(Content(r), n + 1, Used(r))
  BY <1>q, <1>6, <1>7, <1>8, SameCells
<1> QED
  BY <1>q, <1>5, <1>9 DEF q

\* cbuffer_realloc_unsafe: the content stays, also of a ring that has wrapped.
THEOREM GrowthKeepsContent ==
  ASSUME NEW B, NEW r, IsRing(r, B), CanGrow(r)
  PROVE  /\ IsRing(Reallocated(r), B)
         /\ r.size < Reallocated(r).size /\ Reallocated(r).read = 0
         /\ Used(Reallocated(r)) = Used(r)
         /\ Content(Reallocated(r)) = Content(r)
<1> DEFINE q == Reallocated(r)
           size == IF 2 * r.size > MaxSize THEN MaxSize ELSE 2 * r.size
           cells == [i \in 0 .. size - 1 |->
                       IF i < Used(r) THEN r.data[Wrapped(r, r.read + i)] ELSE None]
<1>1. /\ MaxSize \in Nat /\ r.size \in Nat /\ 1 <= r.size /\ r.size < MaxSize
      /\ r.read \in 0 .. r.size - 1 /\ r.write \in 0 .. r.size - 1
      /\ r.data \in [0 .. r.size - 1 -> B \cup {None}]
  BY Fields DEF CanGrow
<1>2. Used(r) \in Nat /\ Used(r) < r.size
  BY <1>1, UsedIsLess
<1>3. size \in Nat /\ r.size < size /\ size <= MaxSize
  BY <1>1
<1> HIDE DEF size
<1>4. \A i \in 0 .. Used(r) - 1 : Cell(r, i) \in B \cup {None}
  <2>1. \A i \in 0 .. Used(r) - 1 : Wrapped(r, r.read + i) \in 0 .. r.size - 1
    BY <1>1, <1>2 DEF Wrapped
  <2> QED
    BY <1>1, <2>1 DEF Cell
<1>5. cells \in [0 .. size - 1 -> B \cup {None}]
  <2>1. \A i \in 0 .. size - 1 : i < Used(r) => i \in 0 .. Used(r) - 1
    BY <1>2, <1>3
  <2> QED
    BY <2>1, <1>4 DEF Cell
<1>q. /\ q.data = cells /\ q.size = size /\ q.read = 0 /\ q.write = Used(r) /\ IsRing(q, B)
  <2>1. q = [data |-> cells, size |-> size, read |-> 0, write |-> Used(r)]
    BY DEF Reallocated, size
  <2> HIDE DEF q, cells
  <2>2. 0 \in 0 .. size - 1 /\ Used(r) \in 0 .. size - 1 /\ size \in 1 .. MaxSize
    BY <1>1, <1>2, <1>3
  <2> QED
    BY <2>1, <2>2, <1>5 DEF IsRing, RingsOf
<1> HIDE DEF q, cells
<1>6. Used(q) = Used(r)
  BY <1>2, <1>q DEF Used, Distance
<1>7. \A k \in 0 .. Used(r) - 1 : Cell(q, k) = Cell(r, k)
  <2> TAKE k \in 0 .. Used(r) - 1
  <2>1. k \in 0 .. size - 1 /\ k < Used(r)
    BY <1>1, <1>2, <1>3
  <2>2. Wrapped(q, 0 + k) = k
    BY <2>1, <1>3, <1>q DEF Wrapped
  <2> QED
    BY <1>q, <2>1, <2>2 DEF Cell, cells
<1>8. Content(q) = Content(r)
  BY <1>q, <1>6, <1>7, ContentCells, SameCells
<1> QED
  BY <1>q, <1>3, <1>6, <1>8 DEF q

\* cbuffer_next_unsafe: a beginning of the content, empty only if that is.
THEOREM ChunkIsBeginning ==
  ASSUME NEW B, NEW r, IsRing(r, B)
  PROVE  NextChunk(r) \in 0 .. Used(r) /\ (NextChunk(r) = 0 <=> Used(r) = 0)
<1>1. /\ r.size \in Nat /\ r.read \in 0 .. r.size - 1 /\ r.write \in 0 .. r.size - 1
  BY Fields
<1> QED
  BY <1>1 DEF NextChunk, Used, Distance

-----------------------------------------------------------------------------
(* Where the threads are.                                                  *)

\* A collector works on its own charts, and the sender on those there are.
Places ==
  /\ \A t \in Collectors :
       /\ at[t] \in CollectorPlaces
       /\ at[t] \in Locked \cup {"lock"} => chart[t] \in Charts /\ CollectorOf[chart[t]] = t
  /\ at[Sender] \in SenderPlaces \ {"values"} /\ purpose[Sender] = "push"
  /\ at[Sender] \in Locked \cup {"lock", "reset", "resetDims"} => chart[Sender] \in Charts

\* The constants, and the places as strings.
LEMMA Constants ==
  /\ NumCharts \in Nat \ {0} /\ Initial \in 1 .. MaxSize /\ MaxSize \in Nat
  /\ MaxFailures \in Nat /\ MaxChanges \in Nat
  /\ CollectorOf \in [Charts -> Collectors] /\ Sender \notin Collectors
  /\ None \notin Collectors \cup {Sender} /\ None \notin Lines
  /\ \A p \in Charts \X Versions : None # p
BY ConstantsAssumption, NoneAssumption, MaxSizeAssumption DEF Charts

\* What is built consists of lines.
LEMMA MessageLines ==
  ASSUME NEW c \in Charts, NEW v \in Versions
  PROVE  Definition(c, v) \in Seq(Lines) /\ Values(c, v) \in Seq(Lines)
BY DEF Definition, Values, Line, Lines

\* Every operation on the ring gives a ring.
LEMMA Rings ==
  ASSUME IsRing(ring, Lines), NEW d \in Seq(Lines)
  PROVE  /\ Fits(ring, Len(d)) => IsRing(Appended(ring, d), Lines)
         /\ CanGrow(ring) => IsRing(Reallocated(ring), Lines)
         /\ \A n \in 0 .. Used(ring) : IsRing(Removed(ring, n), Lines)
         /\ Used(ring) \in 0 .. Used(ring) /\ NextChunk(ring) \in 0 .. Used(ring)
<1>1. Used(ring) \in Nat /\ NextChunk(ring) \in 0 .. Used(ring)
  BY UsedIsLess, Fields, ChunkIsBeginning
<1>2. Fits(ring, Len(d)) => IsRing(Appended(ring, d), Lines)
  BY AddedAtTheEnd
<1>3. CanGrow(ring) => IsRing(Reallocated(ring), Lines)
  BY GrowthKeepsContent
<1>4. \A n \in 0 .. Used(ring) : IsRing(Removed(ring, n), Lines)
  BY RemovedFromTheFront
<1> QED
  BY <1>1, <1>2, <1>3, <1>4

\* The reset of the indices, also in a race with a commit.
LEMMA ResetRings ==
  ASSUME NEW r, IsRing(r, Lines), NEW q, NEW w \in 0 .. r.size - 1,
         q = [r EXCEPT !.read = 0, !.write = w]
  PROVE  IsRing(q, Lines) /\ q.read = 0
<1>1. r.size \in Nat /\ 0 \in 0 .. r.size - 1
  BY Fields
<1> QED
  BY <1>1 DEF IsRing, RingsOf

LEMMA ZeroedRing ==
  ASSUME IsRing(ring, Lines)
  PROVE  IsRing([Removed(ring, Used(ring)) EXCEPT !.read = 0, !.write = 0], Lines)
<1> DEFINE r == Removed(ring, Used(ring))
<1>1. IsRing(r, Lines)
  BY RemovedFromTheFront, UsedIsLess, Fields
<1> HIDE DEF r
<1>2. 0 \in 0 .. r.size - 1
  BY <1>1, Fields
<1>3. IsRing([r EXCEPT !.read = 0, !.write = 0], Lines)
  BY <1>1, <1>2, ResetRings
<1> QED
  BY <1>3 DEF r

LEMMA RacedRings ==
  ASSUME IsRing(ring, Lines), build \in Seq(Lines), Fits(ring, Len(build)),
         NEW w \in {0, Appended(ring, build).write, Len(build)},
         ring' = [Appended(ring, build) EXCEPT !.read = 0, !.write = w]
  PROVE  IsRing(ring', Lines) /\ ring'.read = 0
<1> DEFINE r == Appended(ring, build)
<1>1. IsRing(r, Lines) /\ r.size = ring.size
  BY AddedAtTheEnd
<1>2. Len(build) \in 0 .. ring.size - 1
  BY UsedIsLess, Fields, LenProperties DEF Fits
<1> HIDE DEF r
<1>3. w \in 0 .. r.size - 1
  BY <1>1, <1>2, Fields DEF r
<1> QED
  BY <1>1, <1>3, ResetRings DEF r

-----------------------------------------------------------------------------
(* Types and places.                                                       *)

Placed == Types /\ Places

LEMMA PlacedInit == Init => Placed
<1> SUFFICES ASSUME Init PROVE Placed
  OBVIOUS
<1>1. IsRing(ring, Lines)
  BY Constants, NewIsEmpty DEF Init
<1>2. build \in Seq(Lines) /\ definitions \in {"restart", "continue", "done"}
  BY DEF Init
<1>3. 0 \in 0 .. NumCharts + 1 /\ 0 \in Versions /\ 0 \in 0 .. MaxFailures
  BY Constants DEF Versions
<1>4. /\ at \in [Threads -> CollectorPlaces \cup SenderPlaces]
      /\ \A t \in Threads : at[t] \in Locked <=> mutex = t
  BY Constants DEF Init, CollectorPlaces, SenderPlaces, Threads, Locked
<1>5. Places
  BY Constants DEF Init, Places, CollectorPlaces, SenderPlaces, Threads, Locked
<1> QED
  BY <1>1, <1>2, <1>3, <1>4, <1>5 DEF Init, Placed, Types

LEMMA PlacedStep == Placed /\ [Next]_vars => Placed'
<1> SUFFICES ASSUME Placed, [Next]_vars PROVE Placed'
  OBVIOUS
<1> USE Constants DEF Placed, Types, Places, Threads, CollectorPlaces, SenderPlaces, Locked,
      conn, lockVars, exposure, ghosts, Goto
<1>1. ASSUME NEW t \in Collectors, Collect(t) PROVE Placed'
  <2>1. PICK c \in Charts : CollectorOf[c] = t /\ chart' = [chart EXCEPT ![t] = c]
    BY <1>1 DEF Collect
  <2>2. PICK place \in {"lock", "spawn", "idle"} : at' = [at EXCEPT ![t] = place]
    BY <1>1 DEF Collect, NotReady
  <2>3. at[t] = "idle" /\ mutex' = mutex /\ c \in 0 .. NumCharts + 1
    BY <1>1 DEF Collect, Charts
  <2>4. /\ at' \in [Threads -> CollectorPlaces \cup SenderPlaces]
        /\ \A u \in Threads : at'[u] \in Locked <=> mutex' = u
        /\ chart' \in [Threads -> 0 .. NumCharts + 1]
    BY <2>1, <2>2, <2>3
  <2>5. Places'
    BY <1>1, <2>1, <2>2, <2>3 DEF Collect
  <2>6. stale' \subseteq Collectors /\ UNCHANGED <<excused, mutex, build, ring, overflow, conn, definitions, exposure, failures>>
    BY <1>1 DEF Collect, NotReady
  <2>7. purpose' \in [Threads -> {"collect", "push"}]
    BY <1>1 DEF Collect
  <2> QED
    BY <2>4, <2>5, <2>6, <2>7
<1>2. ASSUME NEW t \in Collectors, Change(t) PROVE Placed'
  <2>1. PICK c \in Charts :
          /\ CollectorOf[c] = t /\ version[c] < MaxChanges
          /\ version' = [version EXCEPT ![c] = @ + 1] /\ flag' = [flag EXCEPT ![c] = FALSE]
          /\ \/ /\ at' = [at EXCEPT ![t] = "lock"] /\ chart' = [chart EXCEPT ![t] = c]
                /\ purpose' = [purpose EXCEPT ![t] = "push"] /\ UNCHANGED dims
             \/ dims' = [dims EXCEPT ![c] = FALSE] /\ UNCHANGED <<at, chart, purpose>>
    BY <1>2 DEF Change
  <2>2. /\ at[t] = "idle" /\ c \in 0 .. NumCharts + 1
        /\ UNCHANGED <<mutex, build, ring, overflow, conn, definitions, ghosts, failures>>
    BY <1>2 DEF Change, Charts
  <2>3. version' \in [Charts -> Versions]
    BY <2>1 DEF Versions
  <2>4. CASE UNCHANGED <<at, chart, purpose>> /\ dims' = [dims EXCEPT ![c] = FALSE]
    BY <2>1, <2>2, <2>3, <2>4
  <2>5. CASE /\ at' = [at EXCEPT ![t] = "lock"] /\ chart' = [chart EXCEPT ![t] = c]
             /\ purpose' = [purpose EXCEPT ![t] = "push"] /\ UNCHANGED dims
    <3>1. /\ at' \in [Threads -> CollectorPlaces \cup SenderPlaces]
          /\ \A u \in Threads : at'[u] \in Locked <=> mutex' = u
          /\ chart' \in [Threads -> 0 .. NumCharts + 1]
          /\ purpose' \in [Threads -> {"collect", "push"}]
      BY <2>2, <2>5
    <3>2. Places'
      BY <2>1, <2>2, <2>5
    <3> QED
      BY <2>1, <2>2, <2>3, <2>5, <3>1, <3>2
  <2> QED
    BY <2>1, <2>4, <2>5
<1>3. ASSUME NEW t \in Collectors, Spawn(t) PROVE Placed'
  <2>1. /\ at' \in [Threads -> CollectorPlaces \cup SenderPlaces]
        /\ \A u \in Threads : at'[u] \in Locked <=> mutex' = u
    BY <1>3 DEF Spawn
  <2>2. Places'
    BY ZenonT(30), <1>3 DEF Spawn
  <2>3. /\ chart' \in [Threads -> 0 .. NumCharts + 1] /\ purpose' \in [Threads -> {"collect", "push"}]
        /\ version' \in [Charts -> Versions] /\ flag' \in [Charts -> BOOLEAN]
        /\ dims' \in [Charts -> BOOLEAN]
    BY <1>3 DEF Spawn
  <2>4. IsRing(ring', Lines) /\ build' \in Seq(Lines)
    BY <1>3 DEF Spawn
  <2>5. /\ mutex' \in Threads \cup {None} /\ overflow' \in BOOLEAN
        /\ connected' \in BOOLEAN /\ collecting' \in BOOLEAN /\ socket' \in BOOLEAN
        /\ definitions' \in {"restart", "continue", "done"}
        /\ stale' \subseteq Collectors /\ excused' \subseteq Excuses \X Charts
        /\ failures' \in 0 .. MaxFailures
    BY <1>3 DEF Spawn
  <2> QED
    BY <2>1, <2>2, <2>3, <2>4, <2>5
<1>4. ASSUME NEW t \in Threads, Lock(t) PROVE Placed'
  <2>1. mutex' = t /\ build' = <<>> /\ mutex = None /\ at[t] = "lock"
    BY <1>4 DEF Lock
  <2>2. /\ flag' = flag \/ flag' = [flag EXCEPT ![chart[t]] = TRUE]
        /\ \/ at' = [at EXCEPT ![t] = "dims"]
           \/ at' = [at EXCEPT ![t] = "values"] /\ purpose[t] = "collect"
    BY <1>4 DEF Lock
  <2>3. \A u \in Threads : u # None /\ at[u] \notin Locked
    BY <2>1
  <2>4. CASE at' = [at EXCEPT ![t] = "dims"]
    <3>1. flag' \in [Charts -> BOOLEAN]
      BY <2>2
    <3> QED
      BY <1>4, <2>1, <2>3, <2>4, <3>1 DEF Lock
  <2>5. CASE at' = [at EXCEPT ![t] = "values"] /\ purpose[t] = "collect"
    BY <1>4, <2>1, <2>2, <2>3, <2>5 DEF Lock
  <2> QED
    BY <2>2, <2>4, <2>5
<1>5. ASSUME NEW t \in Threads, Define(t) PROVE Placed'
  <2>1. Definition(chart[t], version[chart[t]]) \in Seq(Lines)
    BY <1>5, MessageLines DEF Define
  <2> QED
    BY <1>5, <2>1 DEF Define
<1>6. ASSUME NEW t \in Collectors, SendValues(t) PROVE Placed'
  <2>1. Values(chart[t], version[chart[t]]) \in Seq(Lines)
    BY <1>6, MessageLines DEF SendValues
  <2> QED
    BY <1>6, <2>1 DEF SendValues
<1>7. ASSUME NEW t \in Collectors, Cancel(t) PROVE Placed'
  <2>1. /\ at[t] = "values" /\ mutex = t /\ mutex' = None /\ build' = <<>>
        /\ at' = [at EXCEPT ![t] = "idle"] /\ definitions' = definitions
        /\ stale' = stale \ {t} /\ chart[t] \in Charts
    BY <1>7 DEF Cancel, Unlocked
  <2>2. flag' \in [Charts -> BOOLEAN]
    <3>1. flag' = flag \/ flag' = [flag EXCEPT ![chart[t]] = FALSE]
      BY <1>7 DEF Cancel
    <3> QED
      BY ZenonT(30), <3>1
  <2>3. excused' \subseteq Excuses \X Charts
    BY <1>7, <2>1 DEF Cancel, Excuse, Excuses
  <2>4. /\ at' \in [Threads -> CollectorPlaces \cup SenderPlaces]
        /\ \A u \in Threads : at'[u] \in Locked <=> mutex' = u
    BY <2>1
  <2>5. Places'
    BY <1>7, <2>1 DEF Cancel
  <2> QED
    BY <1>7, <2>1, <2>2, <2>3, <2>4, <2>5 DEF Cancel
<1>8. ASSUME NEW t \in Threads, Commit(t) PROVE Placed'
  BY <1>8, Rings DEF Commit, Stray, Excuse, Excuses, Unlocked
<1>9. ASSUME NEW t \in Threads, Grow(t) PROVE Placed'
  BY <1>9, Rings DEF Grow
<1>10. ASSUME NEW t \in Threads, Refuse(t) PROVE Placed'
  BY <1>10 DEF Refuse, Excuse, Excuses, Unlocked
<1>11. ASSUME NEW t \in Collectors, ZeroRaced(t) PROVE Placed'
  <2>1. /\ at[Sender] = "zero" /\ at[t] = "commit" /\ t # Sender
        /\ UNCHANGED <<chart, purpose, overflow, conn, definitions, exposure, failures>>
    BY <1>11 DEF ZeroRaced
  <2>2. CASE /\ Fits(ring, Len(build))
             /\ \E w \in {0, Appended(ring, build).write, Len(build)} :
                  ring' = [Appended(ring, build) EXCEPT !.read = 0, !.write = w]
             /\ Stray(t) /\ mutex' = None /\ build' = <<>> /\ stale' = stale \ {t}
             /\ at' = [at EXCEPT ![Sender] = "connect", ![t] = "idle"]
    <3>1. /\ at' \in [Threads -> CollectorPlaces \cup SenderPlaces]
          /\ \A u \in Threads : at'[u] \in Locked <=> mutex' = u
      BY <2>1, <2>2
    <3>2. Places'
      BY <2>1, <2>2
    <3>3. excused' \subseteq Excuses \X Charts /\ build' \in Seq(Lines)
      BY <2>1, <2>2 DEF Stray, Excuse, Excuses
    <3>4. IsRing(ring', Lines)
      BY <2>2, RacedRings
    <3>5. stale' \subseteq Collectors /\ mutex' \in Threads \cup {None}
      BY <2>2
    <3> QED
      BY <2>1, <3>1, <3>2, <3>3, <3>4, <3>5
  <2>3. CASE /\ ~Fits(ring, Len(build)) /\ CanGrow(ring) /\ ring' = Reallocated(ring)
             /\ at' = [at EXCEPT ![Sender] = "connect"] /\ UNCHANGED <<lockVars, ghosts>>
    <3>1. IsRing(ring', Lines)
      BY <2>3, Rings
    <3>2. /\ at' \in [Threads -> CollectorPlaces \cup SenderPlaces]
          /\ \A u \in Threads : at'[u] \in Locked <=> mutex' = u
      BY <2>1, <2>3
    <3>3. Places'
      BY <2>1, <2>3
    <3> QED
      BY <2>1, <2>3, <3>1, <3>2, <3>3
  <2> QED
    BY <1>11, <2>2, <2>3 DEF ZeroRaced
<1>12. CASE Top
  <2>1. /\ at' \in [Threads -> CollectorPlaces \cup SenderPlaces]
        /\ \A u \in Threads : at'[u] \in Locked <=> mutex' = u
    BY <1>12 DEF Top
  <2>2. Places'
    BY <1>12 DEF Top
  <2>3. /\ chart' \in [Threads -> 0 .. NumCharts + 1] /\ purpose' \in [Threads -> {"collect", "push"}]
        /\ version' \in [Charts -> Versions] /\ flag' \in [Charts -> BOOLEAN]
        /\ dims' \in [Charts -> BOOLEAN]
    BY <1>12 DEF Top
  <2>4. IsRing(ring', Lines) /\ build' \in Seq(Lines)
    BY <1>12 DEF Top
  <2>5. /\ mutex' \in Threads \cup {None} /\ overflow' \in BOOLEAN
        /\ connected' \in BOOLEAN /\ collecting' \in BOOLEAN /\ socket' \in BOOLEAN
        /\ definitions' \in {"restart", "continue", "done"}
        /\ stale' \subseteq Collectors /\ excused' \subseteq Excuses \X Charts
        /\ failures' \in 0 .. MaxFailures
    BY <1>12 DEF Top
  <2> QED
    BY <2>1, <2>2, <2>3, <2>4, <2>5
<1>13. CASE Zero
  <2>1. IsRing(ring', Lines)
    BY <1>13, ZeroedRing DEF Zero
  <2>2. /\ at' \in [Threads -> CollectorPlaces \cup SenderPlaces]
        /\ \A u \in Threads : at'[u] \in Locked <=> mutex' = u
    BY <1>13 DEF Zero
  <2>3. Places'
    BY <1>13 DEF Zero
  <2> QED
    BY <1>13, <2>1, <2>2, <2>3 DEF Zero
<1>14. CASE Connected
  BY <1>14 DEF Connected
<1>15. CASE NotConnected
  BY <1>15 DEF NotConnected
<1>16. CASE Flush
  <2>1. /\ at[Sender] = "flush" /\ at' = [at EXCEPT ![Sender] = "reset"]
        /\ chart' = [chart EXCEPT ![Sender] = 1] /\ 1 \in Charts /\ 1 \in 0 .. NumCharts + 1
    BY <1>16 DEF Flush, Charts
  <2>2. Places' /\ chart' \in [Threads -> 0 .. NumCharts + 1]
    BY <1>16, <2>1 DEF Flush
  <2>3. /\ at' \in [Threads -> CollectorPlaces \cup SenderPlaces]
        /\ \A u \in Threads : at'[u] \in Locked <=> mutex' = u
    BY <1>16, <2>1 DEF Flush
  <2>4. IsRing(ring', Lines)
    BY <1>16, Rings DEF Flush
  <2> QED
    BY <1>16, <2>2, <2>3, <2>4 DEF Flush
<1>17. CASE ResetFlag
  BY <1>17 DEF ResetFlag
<1>18. CASE ResetDims
  <2>1. /\ at[Sender] = "resetDims" /\ chart[Sender] \in Charts
        /\ chart' = [chart EXCEPT ![Sender] = chart[Sender] + 1]
        /\ chart[Sender] + 1 \in 0 .. NumCharts + 1
        /\ chart[Sender] # NumCharts => chart[Sender] + 1 \in Charts
    BY <1>18 DEF ResetDims, Charts
  <2>2. CASE chart[Sender] = NumCharts
    <3>1. at' = [at EXCEPT ![Sender] = "ready"]
      BY <1>18, <2>2 DEF ResetDims
    <3> QED
      BY <1>18, <2>1, <3>1 DEF ResetDims
  <2>3. CASE chart[Sender] # NumCharts
    <3>1. at' = [at EXCEPT ![Sender] = "reset"]
      BY <1>18, <2>3 DEF ResetDims
    <3> QED
      BY <1>18, <2>1, <2>3, <3>1 DEF ResetDims
  <2> QED
    BY <2>2, <2>3
<1>19. CASE TellCollectors
  BY <1>19 DEF TellCollectors
<1>20. CASE Queue
  BY <1>20 DEF Queue
<1>21. CASE Walk
  <2>1. at[Sender] = "walk" /\ chart[Sender] \in 0 .. NumCharts + 1
    BY <1>21 DEF Walk
  <2>2. CASE chart[Sender] >= NumCharts
    BY <1>21, <2>2 DEF Walk
  <2>3. CASE ~(chart[Sender] >= NumCharts)
    <3>1. /\ chart[Sender] + 1 \in Charts /\ chart[Sender] + 1 \in 0 .. NumCharts + 1
          /\ chart' = [chart EXCEPT ![Sender] = chart[Sender] + 1]
      BY <1>21, <2>1, <2>3 DEF Walk, Charts
    <3>2. at' = at \/ at' = [at EXCEPT ![Sender] = "lock"]
      BY <1>21, <2>3 DEF Walk
    <3> QED
      BY <1>21, <2>1, <2>3, <3>1, <3>2 DEF Walk
  <2> QED
    BY <2>2, <2>3
<1>22. CASE Look
  BY <1>22 DEF Look
<1>23. CASE PollReturns
  BY <1>23 DEF PollReturns
<1>24. CASE Send
  BY <1>24, Rings DEF Send
<1>25. CASE Disconnect
  <2>1. failures' \in 0 .. MaxFailures
    BY <1>25 DEF Disconnect
  <2>2. /\ at' \in [Threads -> CollectorPlaces \cup SenderPlaces]
        /\ \A u \in Threads : at'[u] \in Locked <=> mutex' = u
    BY <1>25 DEF Disconnect, CloseSocket
  <2>3. Places'
    BY <1>25 DEF Disconnect, CloseSocket
  <2>4. stale' \subseteq Collectors
    BY <1>25 DEF Disconnect, CloseSocket
  <2> QED
    BY <1>25, <2>1, <2>2, <2>3, <2>4 DEF Disconnect, CloseSocket
<1>26. CASE Check
  BY ZenonT(30), <1>26 DEF Check, CloseSocket
<1>27. CASE Stop
  <2>1. failures' \in 0 .. MaxFailures
    BY <1>27 DEF Stop
  <2>2. /\ at' \in [Threads -> CollectorPlaces \cup SenderPlaces]
        /\ \A u \in Threads : at'[u] \in Locked <=> mutex' = u
    BY <1>27 DEF Stop, CloseSocket
  <2>3. Places'
    BY <1>27 DEF Stop, CloseSocket
  <2>4. stale' \subseteq Collectors
    BY <1>27 DEF Stop, CloseSocket
  <2> QED
    BY <1>27, <2>1, <2>2, <2>3, <2>4 DEF Stop, CloseSocket
<1>28. CASE UNCHANGED vars
  BY <1>28 DEF vars
<1> QED
  BY <1>1, <1>2, <1>3, <1>4, <1>5, <1>6, <1>7, <1>8, <1>9, <1>10, <1>11, <1>12, <1>13,
     <1>14, <1>15, <1>16, <1>17, <1>18, <1>19, <1>20, <1>21, <1>22, <1>23, <1>24, <1>25,
     <1>26, <1>27, <1>28
     DEF Next, CollectorStep, LockedStep, SenderStep, SenderLocks, Threads

-----------------------------------------------------------------------------
(* What holds of the connection.                                           *)

\* The places of the sender while it has a socket, before and after the charts are reset.
Resetting == {"flush", "reset", "resetDims", "ready"}
Talking == {"defs", "walk", "lock", "look", "wait", "send"} \cup Locked

\* A collector that passed the check for a connection still has it, or is stale.
Sockets ==
  /\ socket => at[Sender] \notin {"off", "zero", "connect"}
  /\ at[Sender] \in Resetting \cup Talking => socket
  /\ connected => socket /\ at[Sender] \notin Resetting
  /\ at[Sender] \in {"connect", "flush"} => ring.read = 0
  /\ at[Sender] = "flush" => parent = NewParent
  /\ \A t \in Collectors :
       at[t] \in Locked \cup {"lock"} /\ purpose[t] = "collect" /\ t \notin stale => connected

\* What the thread with the mutex has built; the sender's definition may be of an old version.
Built ==
  /\ \A t \in Threads : mutex = t /\ at[t] = "dims" => build = <<>>
  /\ \A t \in Collectors : mutex = t =>
       LET c == chart[t]
           v == version[c] IN
       /\ at[t] = "values" => build \in {<<>>, Definition(c, v)}
       /\ at[t] = "commit" =>
            build \in {Values(c, v), Definition(c, v), Definition(c, v) \o Values(c, v)}
  /\ mutex = Sender /\ at[Sender] = "commit" =>
       \E v \in Versions : build = Definition(chart[Sender], v)

LEMMA SocketsInit == Init => Sockets
BY Constants DEF Init, Sockets, Locked, Resetting, Talking, Threads

LEMMA SocketsStep == Placed /\ Sockets /\ [Next]_vars => Sockets'
<1> SUFFICES ASSUME Placed, Sockets, [Next]_vars PROVE Sockets'
  OBVIOUS
<1>a. /\ at \in [Threads -> CollectorPlaces \cup SenderPlaces]
      /\ purpose \in [Threads -> {"collect", "push"}] /\ purpose[Sender] = "push"
      /\ \A t \in Threads : at[t] \in Locked <=> mutex = t
      /\ \A t \in Collectors : at[t] \in CollectorPlaces
      /\ at[Sender] \in SenderPlaces \ {"values"}
      /\ Sender \notin Collectors /\ None \notin Threads
  BY Constants DEF Placed, Types, Places, Threads
<1> USE <1>a DEF Sockets, Threads, CollectorPlaces, SenderPlaces, Locked, Resetting, Talking,
      conn, lockVars, exposure, ghosts, Goto
<1>1. ASSUME NEW t \in Collectors, Collect(t) PROVE Sockets'
  BY <1>1 DEF Collect, NotReady
<1>2. ASSUME NEW t \in Collectors, Change(t) PROVE Sockets'
  BY <1>2 DEF Change, Versions
<1>3. ASSUME NEW t \in Collectors, Spawn(t) PROVE Sockets'
  BY <1>3 DEF Spawn
<1>4. ASSUME NEW t \in Threads, Lock(t) PROVE Sockets'
  BY <1>4 DEF Lock
<1>5. ASSUME NEW t \in Threads, Define(t) PROVE Sockets'
  BY <1>5 DEF Define
<1>6. ASSUME NEW t \in Collectors, SendValues(t) PROVE Sockets'
  BY <1>6 DEF SendValues
<1>7. ASSUME NEW t \in Collectors, Cancel(t) PROVE Sockets'
  BY <1>7 DEF Cancel, Excuse, Excuses, Unlocked
<1>8. ASSUME NEW t \in Threads, Commit(t) PROVE Sockets'
  <2>1. ring'.read = ring.read
    BY <1>8, AddedAtTheEnd DEF Commit, Placed, Types
  <2> QED
    BY <1>8, <2>1 DEF Commit, Stray, Excuse, Unlocked
<1>9. ASSUME NEW t \in Threads, Grow(t) PROVE Sockets'
  <2>1. ring'.read = 0
    BY <1>9, GrowthKeepsContent DEF Grow, Placed, Types
  <2> QED
    BY <1>9, <2>1 DEF Grow
<1>10. ASSUME NEW t \in Threads, Refuse(t) PROVE Sockets'
  BY <1>10 DEF Refuse, Excuse, Excuses, Unlocked
<1>11. ASSUME NEW t \in Collectors, ZeroRaced(t) PROVE Sockets'
  <2>1. /\ at[Sender] = "zero" /\ at[t] = "commit" /\ t # Sender
        /\ UNCHANGED <<purpose, conn>>
    BY <1>11 DEF ZeroRaced
  <2>2. ring'.read = 0
    <3>1. IsRing(ring, Lines) /\ build \in Seq(Lines)
      BY DEF Placed, Types
    <3>2. \/ CanGrow(ring) /\ ring' = Reallocated(ring)
          \/ /\ Fits(ring, Len(build))
             /\ \E w \in {0, Appended(ring, build).write, Len(build)} :
                  ring' = [Appended(ring, build) EXCEPT !.read = 0, !.write = w]
      BY <1>11 DEF ZeroRaced
    <3>3. CASE CanGrow(ring) /\ ring' = Reallocated(ring)
      BY <3>1, <3>3, GrowthKeepsContent
    <3>4. ASSUME NEW w \in {0, Appended(ring, build).write, Len(build)}, Fits(ring, Len(build)),
                 ring' = [Appended(ring, build) EXCEPT !.read = 0, !.write = w]
          PROVE  ring'.read = 0
      BY <3>1, <3>4, RacedRings
    <3> QED
      BY <3>2, <3>3, <3>4
  <2>3. \/ at' = [at EXCEPT ![Sender] = "connect"] /\ UNCHANGED stale
        \/ at' = [at EXCEPT ![Sender] = "connect", ![t] = "idle"] /\ stale' = stale \ {t}
    BY <1>11 DEF ZeroRaced
  <2> QED
    BY <2>1, <2>2, <2>3
<1>12. CASE Top
  BY <1>12 DEF Top
<1>13. CASE Zero
  BY <1>13 DEF Zero
<1>14. CASE Connected
  BY <1>14 DEF Connected
<1>15. CASE NotConnected
  BY <1>15 DEF NotConnected
<1>16. CASE Flush
  BY <1>16 DEF Flush
<1>17. CASE ResetFlag
  BY <1>17 DEF ResetFlag
<1>18. CASE ResetDims
  BY <1>18 DEF ResetDims
<1>19. CASE TellCollectors
  BY <1>19 DEF TellCollectors
<1>20. CASE Queue
  BY <1>20 DEF Queue
<1>21. CASE Walk
  BY <1>21 DEF Walk
<1>22. CASE Look
  BY <1>22 DEF Look
<1>23. CASE PollReturns
  BY <1>23 DEF PollReturns
<1>24. CASE Send
  BY <1>24 DEF Send
<1>25. CASE Disconnect
  BY <1>25 DEF Disconnect, CloseSocket
<1>26. CASE Check
  BY <1>26 DEF Check, CloseSocket
<1>27. CASE Stop
  BY <1>27 DEF Stop, CloseSocket
<1>28. CASE UNCHANGED vars
  BY <1>28 DEF vars
<1> QED
  BY <1>1, <1>2, <1>3, <1>4, <1>5, <1>6, <1>7, <1>8, <1>9, <1>10, <1>11, <1>12, <1>13,
     <1>14, <1>15, <1>16, <1>17, <1>18, <1>19, <1>20, <1>21, <1>22, <1>23, <1>24, <1>25,
     <1>26, <1>27, <1>28
     DEF Next, CollectorStep, LockedStep, SenderStep, SenderLocks, Threads

LEMMA BuiltInit == Init => Built
BY Constants DEF Init, Built, Threads

LEMMA BuiltStep == Placed /\ Built /\ [Next]_vars => Built'
<1> SUFFICES ASSUME Placed, Built, [Next]_vars PROVE Built'
  OBVIOUS
<1>a. /\ at \in [Threads -> CollectorPlaces \cup SenderPlaces]
      /\ version \in [Charts -> Versions] /\ chart \in [Threads -> 0 .. NumCharts + 1]
      /\ \A t \in Threads : at[t] \in Locked <=> mutex = t
      /\ \A t \in Collectors : at[t] \in CollectorPlaces
      /\ \A t \in Collectors :
           at[t] \in Locked \cup {"lock"} => chart[t] \in Charts /\ CollectorOf[chart[t]] = t
      /\ at[Sender] \in SenderPlaces \ {"values"} /\ purpose[Sender] = "push"
      /\ at[Sender] \in Locked \cup {"lock"} => chart[Sender] \in Charts
      /\ Sender \notin Collectors /\ None \notin Threads
  BY Constants DEF Placed, Types, Places, Threads
<1> USE <1>a DEF Built, Threads, Locked, conn, lockVars, exposure, ghosts, Goto
<1>1. ASSUME NEW t \in Collectors, Collect(t) PROVE Built'
  BY SMTT(30), <1>1 DEF Collect, NotReady
<1>2. ASSUME NEW t \in Collectors, Change(t) PROVE Built'
  <2>1. PICK c \in Charts : /\ CollectorOf[c] = t
                           /\ version' = [version EXCEPT ![c] = version[c] + 1]
    BY <1>2 DEF Change
  <2>2. /\ at[t] = "idle" /\ mutex # t /\ mutex' = mutex /\ build' = build
        /\ \A u \in Threads : u # t => at'[u] = at[u] /\ chart'[u] = chart[u]
    BY <1>2 DEF Change
  <2>3. \A u \in Collectors : u # t /\ mutex = u =>
          chart'[u] = chart[u] /\ version'[chart[u]] = version[chart[u]]
    BY <2>1, <2>2
  <2> QED
    BY <2>2, <2>3
<1>3. ASSUME NEW t \in Collectors, Spawn(t) PROVE Built'
  BY <1>3 DEF Spawn
<1>4. ASSUME NEW t \in Threads, Lock(t) PROVE Built'
  BY <1>4 DEF Lock
<1>5. ASSUME NEW t \in Threads, Define(t) PROVE Built'
  <2> DEFINE c == chart[t]
             v == version[c]
  <2>1. /\ mutex = t /\ mutex' = t /\ at[t] = "dims" /\ c \in Charts /\ v \in Versions
        /\ chart' = chart /\ version' = version /\ build = <<>>
        /\ build' = build \o Definition(c, v)
    BY <1>5 DEF Define
  <2>2. build' = Definition(c, v)
    BY <2>1, MessageLines
  <2>3. /\ \A u \in Threads : u # t => mutex' # u
        /\ at' = [at EXCEPT ![t] = IF purpose[t] = "collect" THEN "values" ELSE "commit"]
    BY <1>5, <2>1 DEF Define
  <2> HIDE DEF c, v
  <2>4. CASE t = Sender
    <3>1. at'[t] = "commit"
      BY <2>3, <2>4
    <3> QED
      BY <2>1, <2>2, <2>3, <2>4, <3>1 DEF c, v
  <2>5. CASE t \in Collectors
    <3>1. at'[t] \in {"values", "commit"}
      BY <2>3
    <3> QED
      BY <2>1, <2>2, <2>3, <2>5, <3>1 DEF c, v
  <2> QED
    BY <2>4, <2>5
<1>6. ASSUME NEW t \in Collectors, SendValues(t) PROVE Built'
  <2> DEFINE c == chart[t]
             v == version[c]
  <2>1. /\ mutex = t /\ mutex' = t /\ c \in Charts /\ v \in Versions
        /\ chart' = chart /\ version' = version /\ build \in {<<>>, Definition(c, v)}
        /\ build' = build \o Values(c, v) /\ at'[t] = "commit"
    BY <1>6 DEF SendValues
  <2>2. <<>> \o Values(c, v) = Values(c, v)
    BY <2>1, MessageLines
  <2>3. build' \in {Values(c, v), Definition(c, v) \o Values(c, v)}
    BY <2>1, <2>2
  <2> QED
    BY <1>6, <2>1, <2>3
<1>7. ASSUME NEW t \in Collectors, Cancel(t) PROVE Built'
  BY <1>7 DEF Cancel, Excuse, Excuses, Unlocked
<1>8. ASSUME NEW t \in Threads, Commit(t) PROVE Built'
  BY <1>8 DEF Commit, Stray, Excuse, Excuses, Unlocked
<1>9. ASSUME NEW t \in Threads, Grow(t) PROVE Built'
  BY <1>9 DEF Grow
<1>10. ASSUME NEW t \in Threads, Refuse(t) PROVE Built'
  BY <1>10 DEF Refuse, Excuse, Excuses, Unlocked
<1>11. ASSUME NEW t \in Collectors, ZeroRaced(t) PROVE Built'
  <2>1. at[Sender] = "zero" /\ at[t] = "commit" /\ mutex = t /\ t # Sender
    BY <1>11 DEF ZeroRaced
  <2>2. CASE mutex' = None
    BY <2>2
  <2>3. CASE at' = [at EXCEPT ![Sender] = "connect"] /\ UNCHANGED <<lockVars, version, chart>>
    BY <2>1, <2>3
  <2> QED
    BY <1>11, <2>2, <2>3 DEF ZeroRaced
<1>12. CASE Top
  BY <1>12 DEF Top
<1>13. CASE Zero
  BY <1>13 DEF Zero
<1>14. CASE Connected
  BY <1>14 DEF Connected
<1>15. CASE NotConnected
  BY <1>15 DEF NotConnected
<1>16. CASE Flush
  BY <1>16 DEF Flush
<1>17. CASE ResetFlag
  BY <1>17 DEF ResetFlag
<1>18. CASE ResetDims
  BY <1>18 DEF ResetDims
<1>19. CASE TellCollectors
  BY <1>19 DEF TellCollectors
<1>20. CASE Queue
  BY <1>20 DEF Queue
<1>21. CASE Walk
  BY SMTT(30), <1>21 DEF Walk
<1>22. CASE Look
  BY <1>22 DEF Look
<1>23. CASE PollReturns
  BY <1>23 DEF PollReturns
<1>24. CASE Send
  BY <1>24 DEF Send
<1>25. CASE Disconnect
  BY <1>25 DEF Disconnect, CloseSocket
<1>26. CASE Check
  BY <1>26 DEF Check, CloseSocket
<1>27. CASE Stop
  BY <1>27 DEF Stop, CloseSocket
<1>28. CASE UNCHANGED vars
  BY <1>28 DEF vars
<1> QED
  BY <1>1, <1>2, <1>3, <1>4, <1>5, <1>6, <1>7, <1>8, <1>9, <1>10, <1>11, <1>12, <1>13,
     <1>14, <1>15, <1>16, <1>17, <1>18, <1>19, <1>20, <1>21, <1>22, <1>23, <1>24, <1>25,
     <1>26, <1>27, <1>28
     DEF Next, CollectorStep, LockedStep, SenderStep, SenderLocks, Threads

-----------------------------------------------------------------------------
(* A stream: what the parent read, defined and half, and what the buffer holds. *)

Starts(half, s, k, c, v) == IF k = 0 THEN half = <<c, v>> ELSE s[k] = Line("CHART", c, v)

Whole(half, s) ==
  \A k \in 0 .. Len(s), c \in Charts, v \in Versions :
    Starts(half, s, k, c, v) <=> k < Len(s) /\ s[k + 1] = Line("DIMENSION", c, v)

\* A definition was read, or is begun in the first n lines.
Sent(p, s, n, c, v) == <<c, v>> \in p.defined \/ \E k \in 0 .. n : Starts(p.half, s, k, c, v)

Lost(c) == \E reason \in Excuses : <<reason, c>> \in excused

Ordered(p, s) ==
  \A k \in 1 .. Len(s) :
    s[k].line = "SET" => Sent(p, s, k - 1, s[k].chart, s[k].version) \/ Lost(s[k].chart)

StreamOK ==
  /\ parent \in [defined : SUBSET (Charts \X Versions), half : (Charts \X Versions) \cup {None}]
  /\ Streaming => Content(ring) \in Seq(Lines) /\ Whole(parent.half, Content(ring))

IsReset(c) ==
  /\ at[Sender] = "reset" => c < chart[Sender]
  /\ at[Sender] = "resetDims" => c <= chart[Sender]

BeingDefined(c) ==
  \E t \in Threads :
    /\ mutex = t /\ chart[t] = c
    /\ at[t] = "dims" \/ (build # <<>> /\ build[1] = Line("CHART", c, version[c]))

\* Of a chart that is marked, the current definition is sent, built or lost.
Exposed ==
  Streaming => \A c \in Charts :
    /\ <<"refused", c>> \in excused => overflow
    /\ IsReset(c) /\ flag[c] =>
         \/ Sent(parent, Content(ring), Used(ring), c, version[c])
         \/ BeingDefined(c)
         \/ <<"cancelled", c>> \in excused \/ <<"refused", c>> \in excused

\* Before a group that is built without a definition, the definition was sent.
Groups ==
  Streaming =>
    /\ Ordered(parent, Content(ring))
    /\ \A t \in Collectors :
         LET c == chart[t]
             v == version[c] IN
         /\ at[t] \in {"values", "commit"} /\ build \in {<<>>, Values(c, v)} /\ t \notin stale
         => Sent(parent, Content(ring), Used(ring), c, v) \/ Lost(c)

LEMMA LineEqual ==
  ASSUME NEW l, NEW m, NEW c, NEW d, NEW v, NEW w, Line(l, c, v) = Line(m, d, w)
  PROVE  l = m /\ c = d /\ v = w
<1>1. Line(l, c, v).line = l /\ Line(l, c, v).chart = c /\ Line(l, c, v).version = v
  BY DEF Line
<1>2. Line(m, d, w).line = m /\ Line(m, d, w).chart = d /\ Line(m, d, w).version = w
  BY DEF Line
<1> QED
  BY <1>1, <1>2

LEMMA LineFields ==
  ASSUME NEW x \in Lines
  PROVE  /\ x.chart \in Charts /\ x.version \in Versions
         /\ x.line \in {"CHART", "DIMENSION", "SET"} /\ x = Line(x.line, x.chart, x.version)
BY DEF Lines, Line

LEMMA MessageLengths ==
  ASSUME NEW c \in Charts, NEW v \in Versions
  PROVE  LET d == Definition(c, v)
             w == Values(c, v)
         IN /\ d \in Seq(Lines) /\ Len(d) = 2
            /\ d[1] = Line("CHART", c, v) /\ d[2] = Line("DIMENSION", c, v)
            /\ w \in Seq(Lines) /\ Len(w) = 1 /\ w[1] = Line("SET", c, v)
            /\ d \o w \in Seq(Lines) /\ Len(d \o w) = 3
            /\ (d \o w)[1] = d[1] /\ (d \o w)[2] = d[2] /\ (d \o w)[3] = w[1]
            /\ d \notin {<<>>, w} /\ d \o w \notin {<<>>, w} /\ w # <<>>
            /\ <<>> \o w = w
<1> DEFINE d == Definition(c, v)
           w == Values(c, v)
<1>1. /\ d \in Seq(Lines) /\ Len(d) = 2
      /\ d[1] = Line("CHART", c, v) /\ d[2] = Line("DIMENSION", c, v)
      /\ w \in Seq(Lines) /\ Len(w) = 1 /\ w[1] = Line("SET", c, v)
  BY MessageLines DEF Definition, Values
<1> HIDE DEF d, w
<1>2. /\ d \o w \in Seq(Lines) /\ Len(d \o w) = 3
      /\ (d \o w)[1] = d[1] /\ (d \o w)[2] = d[2] /\ (d \o w)[3] = w[1]
  <2>1. /\ d \o w \in Seq(Lines) /\ Len(d \o w) = Len(d) + Len(w)
        /\ \A i \in 1 .. Len(d) + Len(w) : (d \o w)[i] = IF i <= Len(d) THEN d[i] ELSE w[i - Len(d)]
    BY <1>1, ConcatProperties
  <2> QED
    BY <1>1, <2>1
<1>3. Len(<<>>) = 0 /\ 2 # 0 /\ 2 # 1 /\ 3 # 0 /\ 3 # 1 /\ 1 # 0
  OBVIOUS
<1>5. d \notin {<<>>, w} /\ d \o w \notin {<<>>, w} /\ w # <<>>
  BY <1>1, <1>2, <1>3, Zenon
<1>6. <<>> \o w = w
  BY <1>1
<1> QED
  BY <1>1, <1>2, <1>5, <1>6 DEF d, w

\* What is added changes nothing before it.
LEMMA AppendStarts ==
  ASSUME NEW h, NEW s \in Seq(Lines), NEW d \in Seq(Lines), NEW c, NEW v,
         NEW k \in 0 .. Len(s) + Len(d)
  PROVE  Starts(h, s \o d, k, c, v) <=>
           IF k <= Len(s) THEN Starts(h, s, k, c, v) ELSE d[k - Len(s)] = Line("CHART", c, v)
<1>1. k # 0 => (s \o d)[k] = IF k <= Len(s) THEN s[k] ELSE d[k - Len(s)]
  BY ConcatProperties, LenProperties
<1> QED
  BY <1>1, LenProperties DEF Starts

LEMMA AppendWhole ==
  ASSUME NEW h, NEW s \in Seq(Lines), NEW d \in Seq(Lines), Whole(h, s), Whole(None, d)
  PROVE  s \o d \in Seq(Lines) /\ Whole(h, s \o d)
<1>1. /\ s \o d \in Seq(Lines) /\ Len(s \o d) = Len(s) + Len(d)
      /\ Len(s) \in Nat /\ Len(d) \in Nat
      /\ \A k \in 1 .. Len(s) + Len(d) : (s \o d)[k] = IF k <= Len(s) THEN s[k] ELSE d[k - Len(s)]
  BY ConcatProperties, LenProperties
<1>2. SUFFICES ASSUME NEW k \in 0 .. Len(s) + Len(d), NEW c \in Charts, NEW v \in Versions
               PROVE  Starts(h, s \o d, k, c, v) <=>
                        k < Len(s) + Len(d) /\ (s \o d)[k + 1] = Line("DIMENSION", c, v)
  BY <1>1 DEF Whole
<1>3. CASE k < Len(s)
  BY <1>1, <1>3, AppendStarts DEF Whole
<1>4. CASE k = Len(s)
  <2>1. ~Starts(h, s, k, c, v)
    BY <1>1, <1>4 DEF Whole
  <2>2. Len(d) > 0 => d[1] # Line("DIMENSION", c, v)
    <3>1. ~Starts(None, d, 0, c, v)
      BY Constants DEF Starts
    <3> QED
      BY <1>1, <3>1 DEF Whole
  <2> QED
    BY <1>1, <1>4, <2>1, <2>2, AppendStarts
<1>5. CASE k > Len(s)
  <2>1. k - Len(s) \in 1 .. Len(d) /\ k - Len(s) + 1 = k + 1 - Len(s)
    BY <1>1, <1>5
  <2>2. d[k - Len(s)] = Line("CHART", c, v) <=>
          k - Len(s) < Len(d) /\ d[k - Len(s) + 1] = Line("DIMENSION", c, v)
    <3>1. k - Len(s) \in 0 .. Len(d) /\ k - Len(s) # 0
      BY <2>1, <1>1
    <3>2. Starts(None, d, k - Len(s), c, v) <=>
            k - Len(s) < Len(d) /\ d[k - Len(s) + 1] = Line("DIMENSION", c, v)
      BY <3>1 DEF Whole
    <3> QED
      BY <3>1, <3>2 DEF Starts
  <2> QED
    BY <1>1, <1>5, <2>1, <2>2, AppendStarts
<1> QED
  BY <1>1, <1>3, <1>4, <1>5

LEMMA MessagesWhole ==
  ASSUME NEW c \in Charts, NEW v \in Versions
  PROVE  /\ Whole(None, <<>>) /\ Whole(None, Definition(c, v)) /\ Whole(None, Values(c, v))
         /\ Whole(None, Definition(c, v) \o Values(c, v))
<1>1. /\ Definition(c, v) \in Seq(Lines) /\ Len(Definition(c, v)) = 2
      /\ Definition(c, v)[1] = Line("CHART", c, v) /\ Definition(c, v)[2] = Line("DIMENSION", c, v)
  BY MessageLines DEF Definition
<1>2. /\ Values(c, v) \in Seq(Lines) /\ Len(Values(c, v)) = 1
      /\ Values(c, v)[1] = Line("SET", c, v)
  BY MessageLines DEF Values
<1>3. Whole(None, <<>>)
  BY Constants DEF Whole, Starts
<1>4. Whole(None, Definition(c, v))
  <2> SUFFICES ASSUME NEW k \in 0 .. 2, NEW d \in Charts, NEW w \in Versions
               PROVE  Starts(None, Definition(c, v), k, d, w) <=>
                        k < 2 /\ Definition(c, v)[k + 1] = Line("DIMENSION", d, w)
    BY <1>1 DEF Whole
  <2>1. CASE k = 0
    BY <1>1, <2>1, Constants, LineEqual DEF Starts
  <2>2. CASE k = 1
    <3>1. Line("CHART", c, v) = Line("CHART", d, w) <=> c = d /\ v = w
      BY LineEqual
    <3>2. Line("DIMENSION", c, v) = Line("DIMENSION", d, w) <=> c = d /\ v = w
      BY LineEqual
    <3> QED
      BY <1>1, <2>2, <3>1, <3>2 DEF Starts
  <2>3. CASE k = 2
    BY <1>1, <2>3, LineEqual DEF Starts
  <2> QED
    BY <2>1, <2>2, <2>3
<1>5. Whole(None, Values(c, v))
  <2> SUFFICES ASSUME NEW k \in 0 .. 1, NEW d \in Charts, NEW w \in Versions
               PROVE  Starts(None, Values(c, v), k, d, w) <=>
                        k < 1 /\ Values(c, v)[k + 1] = Line("DIMENSION", d, w)
    BY <1>2 DEF Whole
  <2>1. CASE k = 0
    BY <1>2, <2>1, Constants, LineEqual DEF Starts
  <2>2. CASE k = 1
    BY <1>2, <2>2, LineEqual DEF Starts
  <2> QED
    BY <2>1, <2>2
<1> QED
  BY <1>1, <1>2, <1>3, <1>4, <1>5, AppendWhole

\* A part of the stream is read: what it begins or defines is then known, and the rest is
\* a stream for what the parent knows now.
LEMMA Read ==
  ASSUME parent \in [defined : SUBSET (Charts \X Versions), half : (Charts \X Versions) \cup {None}],
         NEW s \in Seq(Lines), NEW n \in 1 .. Len(s), Whole(parent.half, s)
  PROVE  LET q == Received(SubSeq(s, 1, n))
             rest == SubSeq(s, n + 1, Len(s)) IN
         /\ q \in [defined : SUBSET (Charts \X Versions), half : (Charts \X Versions) \cup {None}]
         /\ rest \in Seq(Lines) /\ Len(rest) = Len(s) - n
         /\ \A k \in 1 .. Len(rest) : rest[k] = s[n + k]
         /\ Whole(q.half, rest)
         /\ \A c \in Charts, v \in Versions, m \in n .. Len(s) :
              Sent(parent, s, m, c, v) => Sent(q, rest, m - n, c, v)
<1> DEFINE sent == SubSeq(s, 1, n)
           q == Received(sent)
           rest == SubSeq(s, n + 1, Len(s))
<1>1. n \in Nat /\ Len(s) \in Nat /\ 1 <= n /\ n <= Len(s) /\ \A k \in 1 .. Len(s) : s[k] \in Lines
  BY LenProperties, ElementOfSeq
<1>2. Len(sent) = n /\ \A k \in 1 .. n : sent[k] = s[k]
  <2>1. \A k \in 1 .. n : s[k] \in Lines /\ 1 + k - 1 = k
    BY <1>1
  <2>2. 1 \in Int /\ n \in Int /\ n - 1 + 1 = n /\ 1 <= n + 1
    BY <1>1
  <2> QED
    BY <2>1, <2>2, SubSeqProperties
<1>3. rest \in Seq(Lines) /\ Len(rest) = Len(s) - n /\ \A k \in 1 .. Len(rest) : rest[k] = s[n + k]
  <2>1. \A k \in n + 1 .. Len(s) : s[k] \in Lines
    BY <1>1
  <2>2. n + 1 \in Int /\ Len(s) \in Int 
    BY <1>1
  <2>3. /\ rest \in Seq(Lines) /\ Len(rest) = IF n + 1 <= Len(s) THEN Len(s) - (n + 1) + 1 ELSE 0
        /\ \A k \in 1 .. Len(s) - (n + 1) + 1 : rest[k] = s[n + 1 + k - 1]
    BY <2>1, <2>2, SubSeqProperties
  <2> HIDE DEF rest
  <2> QED
    BY <1>1, <2>2, <2>3
<1>4. DOMAIN sent = 1 .. n
  BY <1>1, <1>2, LenProperties, SubSeqProperties
<1> HIDE DEF sent, rest
<1>5. /\ \A c, v : <<c, v>> \in q.defined <=>
                     \/ <<c, v>> \in parent.defined
                     \/ \E i \in 1 .. n : /\ s[i].line = "DIMENSION"
                                          /\ s[i].chart = c /\ s[i].version = v
      /\ q.half = IF s[n].line = "CHART" THEN <<s[n].chart, s[n].version>> ELSE None
  <2>1. q.half = IF s[n].line = "CHART" THEN <<s[n].chart, s[n].version>> ELSE None
    BY <1>1, <1>2 DEF Received
  <2>2. q.defined = parent.defined \cup
          {<<s[i].chart, s[i].version>> : i \in {j \in 1 .. n : s[j].line = "DIMENSION"}}
    BY <1>1, <1>2, <1>4 DEF Received
  <2> HIDE DEF q
  <2> QED
    BY <2>1, <2>2
<1>6. q \in [defined : SUBSET (Charts \X Versions), half : (Charts \X Versions) \cup {None}]
  BY <1>1, <1>2, <1>4, LineFields DEF Received
<1> HIDE DEF q
<1>7. ASSUME NEW k \in 0 .. Len(rest), NEW c \in Charts, NEW v \in Versions
      PROVE  Starts(q.half, rest, k, c, v) <=> Starts(parent.half, s, n + k, c, v)
  <2>1. CASE k = 0
    <3>1. s[n] \in Lines
      BY <1>1
    <3>2. q.half = <<c, v>> <=> s[n] = Line("CHART", c, v)
      <4>1. s[n] = Line("CHART", c, v) => s[n].line = "CHART" /\ s[n].chart = c /\ s[n].version = v
        BY DEF Line
      <4>2. s[n].line = "CHART" /\ s[n].chart = c /\ s[n].version = v => s[n] = Line("CHART", c, v)
        BY <3>1, LineFields
      <4>3. None # <<c, v>>
        BY Constants
      <4> QED
        BY <1>5, <4>1, <4>2, <4>3
    <3> QED
      BY <1>1, <2>1, <3>2 DEF Starts
  <2>2. CASE k # 0
    BY <1>1, <1>3, <2>2 DEF Starts
  <2> QED
    BY <2>1, <2>2
<1>8. Whole(q.half, rest)
  <2> SUFFICES ASSUME NEW k \in 0 .. Len(rest), NEW c \in Charts, NEW v \in Versions
               PROVE  Starts(q.half, rest, k, c, v) <=>
                        k < Len(rest) /\ rest[k + 1] = Line("DIMENSION", c, v)
    BY DEF Whole
  <2>1. /\ n + k \in 0 .. Len(s)
        /\ n + k < Len(s) <=> k < Len(rest)
        /\ k < Len(rest) => k + 1 \in 1 .. Len(rest) /\ n + (k + 1) = n + k + 1
    BY <1>1, <1>3
  <2>2. Starts(parent.half, s, n + k, c, v) <=>
          n + k < Len(s) /\ s[n + k + 1] = Line("DIMENSION", c, v)
    BY <2>1 DEF Whole
  <2> QED
    BY <1>3, <1>7, <2>1, <2>2
<1>9. ASSUME NEW c \in Charts, NEW v \in Versions, NEW m \in n .. Len(s),
             Sent(parent, s, m, c, v)
      PROVE  Sent(q, rest, m - n, c, v)
  <2>1. CASE <<c, v>> \in parent.defined
    BY <1>5, <2>1 DEF Sent
  <2>2. ASSUME NEW k \in 0 .. m, Starts(parent.half, s, k, c, v) PROVE Sent(q, rest, m - n, c, v)
    <3>1. CASE k < n
      <4>1. k < Len(s) /\ s[k + 1] = Line("DIMENSION", c, v) /\ k + 1 \in 1 .. n
        BY <1>1, <2>2, <3>1 DEF Whole
      <4>2. s[k + 1].line = "DIMENSION" /\ s[k + 1].chart = c /\ s[k + 1].version = v
        BY <4>1 DEF Line
      <4> QED
        BY <1>5, <4>1, <4>2 DEF Sent
    <3>2. CASE k >= n
      <4>1. k - n \in 0 .. Len(rest) /\ k - n \in 0 .. m - n /\ n + (k - n) = k
        BY <1>1, <1>3, <3>2
      <4> QED
        BY <1>7, <2>2, <4>1 DEF Sent
    <3> QED
      BY <1>1, <3>1, <3>2
  <2> QED
    BY <1>9, <2>1, <2>2 DEF Sent
<1> QED
  BY <1>3, <1>6, <1>8, <1>9 DEF q, sent, rest

LEMMA SentAppend ==
  ASSUME NEW p, NEW s \in Seq(Lines), NEW d \in Seq(Lines), NEW c, NEW v,
         NEW n \in 0 .. Len(s), NEW m \in n .. Len(s) + Len(d), Sent(p, s, n, c, v)
  PROVE  Sent(p, s \o d, m, c, v)
<1>1. Len(s) \in Nat /\ Len(d) \in Nat
  BY LenProperties
<1>2. \A k \in 0 .. n : k \in 0 .. Len(s) + Len(d) /\ k <= Len(s) /\ k \in 0 .. m
  BY <1>1
<1> QED
  BY <1>2, AppendStarts DEF Sent

\* What the buffer holds, and what a commit, a growth, a flush and a send make of it.
LEMMA Holds ==
  ASSUME IsRing(ring, Lines)
  PROVE  Used(ring) \in Nat /\ Len(Content(ring)) = Used(ring)
<1>1. ring.size \in Nat /\ Used(ring) \in 0 .. ring.size - 1
  BY Fields, UsedIsLess
<1>2. Len(Content(ring)) = Used(ring)
  BY ContentCells
<1> QED
  BY <1>1, <1>2

LEMMA CommitHolds ==
  ASSUME Types, NEW t \in Threads, Commit(t)
  PROVE  Content(ring') = Content(ring) \o build /\ Used(ring') = Used(ring) + Len(build)
BY AddedAtTheEnd DEF Types, Commit

LEMMA GrowHolds ==
  ASSUME Types, NEW t \in Threads, Grow(t)
  PROVE  Content(ring') = Content(ring) /\ Used(ring') = Used(ring)
BY GrowthKeepsContent DEF Types, Grow

LEMMA FlushHolds ==
  ASSUME Types, Sockets, Flush
  PROVE  Content(ring') = <<>> /\ Used(ring') = 0
<1>1. IsRing(ring, Lines) /\ ring.read = 0 /\ ring' = Removed(ring, NextChunk(ring))
  BY DEF Types, Sockets, Flush
<1>2. NextChunk(ring) = Used(ring) /\ Used(ring) \in 0 .. Used(ring)
  <2>1. ring.write \in Nat
    BY <1>1, Fields
  <2>2. NextChunk(ring) = Used(ring)
    BY <1>1, <2>1 DEF NextChunk, Used, Distance
  <2> QED
    BY <1>1, <2>2, Holds
<1>3. Used(ring') = Used(ring) - Used(ring) /\ IsRing(ring', Lines)
  BY <1>1, <1>2, RemovedFromTheFront
<1>4. Used(ring') = 0
  BY <1>1, <1>3, Holds
<1> QED
  BY <1>3, <1>4, ContentCells, EmptySeq

LEMMA SendHolds ==
  ASSUME Types, Send
  PROVE  \E n \in 1 .. Used(ring) :
           /\ Content(ring') = SubSeq(Content(ring), n + 1, Used(ring))
           /\ Used(ring') = Used(ring) - n
           /\ parent' = Received(SubSeq(Content(ring), 1, n))
<1>1. IsRing(ring, Lines) /\ NextChunk(ring) \in 0 .. Used(ring) /\ Used(ring) \in Nat
  BY ChunkIsBeginning, Holds DEF Types
<1>2. PICK n \in 1 .. NextChunk(ring) : /\ ring' = Removed(ring, n)
                                        /\ parent' = Received(SubSeq(Content(ring), 1, n))
  BY DEF Send
<1>3. n \in 0 .. Used(ring) /\ n \in 1 .. Used(ring)
  BY <1>1
<1> QED
  BY <1>1, <1>2, <1>3, RemovedFromTheFront

\* What is built is a stream of its own.
LEMMA BuiltWhole ==
  ASSUME Placed, Built, NEW t \in Threads, mutex = t, at[t] = "commit"
  PROVE  build \in Seq(Lines) /\ Whole(None, build)
<1>1. build \in Seq(Lines)
  BY DEF Placed, Types
<1>2. CASE t = Sender
  <2>1. chart[t] \in Charts /\ \E v \in Versions : build = Definition(chart[t], v)
    BY <1>2 DEF Placed, Places, Locked, Built
  <2> QED
    BY <1>1, <2>1, MessagesWhole
<1>3. CASE t \in Collectors
  <2>1. /\ chart[t] \in Charts /\ version[chart[t]] \in Versions
        /\ build \in {Values(chart[t], version[chart[t]]), Definition(chart[t], version[chart[t]]),
                      Definition(chart[t], version[chart[t]]) \o Values(chart[t], version[chart[t]])}
    BY <1>3 DEF Placed, Types, Places, Locked, Built
  <2> QED
    BY <1>1, <2>1, MessagesWhole
<1> QED
  BY <1>2, <1>3 DEF Threads

\* What is sent for this connection stays sent.
Continues ==
  \A c \in Charts, v \in Versions :
    Sent(parent, Content(ring), Used(ring), c, v)
      => Sent(parent', Content(ring'), Used(ring'), c, v)

Goes == StreamOK' /\ (Streaming /\ Streaming' => Continues)

LEMMA StreamInit == Init => StreamOK
BY DEF Init, StreamOK, NewParent, Streaming

LEMMA StreamStep ==
  ASSUME Placed, Sockets, Built, StreamOK, [Next]_vars
  PROVE  Goes
<1>a. /\ Types /\ IsRing(ring, Lines)
      /\ at \in [Threads -> CollectorPlaces \cup SenderPlaces]
      /\ \A t \in Threads : at[t] \in Locked <=> mutex = t
      /\ \A t \in Collectors : at[t] \in CollectorPlaces
      /\ Sender \notin Collectors /\ Sender \in Threads
  BY Constants DEF Placed, Types, Places, Threads
<1> USE <1>a DEF Threads, Locked, conn, lockVars, exposure, ghosts, Goto
<1>1. ASSUME NEW t \in Collectors, Collect(t) PROVE Goes
  <2>1. UNCHANGED <<ring, parent>> /\ (Streaming' => Streaming)
    BY <1>1, Constants DEF Collect, NotReady, Streaming
  <2> QED
    BY <2>1 DEF Goes, StreamOK, Continues
<1>2. ASSUME NEW t \in Collectors, Change(t) PROVE Goes
  <2>1. UNCHANGED <<ring, parent>> /\ (Streaming' => Streaming)
    BY <1>2, Constants DEF Change, Streaming
  <2> QED
    BY <2>1 DEF Goes, StreamOK, Continues
<1>3. ASSUME NEW t \in Collectors, Spawn(t) PROVE Goes
  <2>1. UNCHANGED <<ring, parent>> /\ (Streaming' => Streaming)
    BY <1>3, Constants DEF Spawn, Streaming, Sockets
  <2> QED
    BY <2>1 DEF Goes, StreamOK, Continues
<1>4. ASSUME NEW t \in Threads, Lock(t) PROVE Goes
  <2>1. UNCHANGED <<ring, parent>> /\ (Streaming' => Streaming)
    BY <1>4, Constants DEF Lock, Streaming
  <2> QED
    BY <2>1 DEF Goes, StreamOK, Continues
<1>5. ASSUME NEW t \in Threads, Define(t) PROVE Goes
  <2>1. UNCHANGED <<ring, parent>> /\ (Streaming' => Streaming)
    BY <1>5, Constants DEF Define, Streaming
  <2> QED
    BY <2>1 DEF Goes, StreamOK, Continues
<1>6. ASSUME NEW t \in Collectors, SendValues(t) PROVE Goes
  <2>1. UNCHANGED <<ring, parent>> /\ (Streaming' => Streaming)
    BY <1>6, Constants DEF SendValues, Streaming
  <2> QED
    BY <2>1 DEF Goes, StreamOK, Continues
<1>7. ASSUME NEW t \in Collectors, Cancel(t) PROVE Goes
  <2>1. UNCHANGED <<ring, parent>> /\ (Streaming' => Streaming)
    BY <1>7, Constants DEF Cancel, Unlocked, Streaming
  <2> QED
    BY <2>1 DEF Goes, StreamOK, Continues
<1>8. ASSUME NEW t \in Threads, Commit(t) PROVE Goes
  <2>1. /\ mutex = t /\ at[t] = "commit" /\ parent' = parent /\ socket' = socket
        /\ Streaming' => Streaming
    BY <1>8, Constants DEF Commit, Unlocked, Streaming, Threads
  <2>2. Content(ring') = Content(ring) \o build /\ Used(ring') = Used(ring) + Len(build)
    BY <1>8, CommitHolds
  <2>3. build \in Seq(Lines) /\ Whole(None, build) /\ Len(build) \in Nat
    BY <2>1, BuiltWhole, LenProperties
  <2>4. StreamOK'
    BY <2>1, <2>2, <2>3, AppendWhole DEF StreamOK
  <2>5. ASSUME Streaming, NEW c \in Charts, NEW v \in Versions,
               Sent(parent, Content(ring), Used(ring), c, v)
        PROVE  Sent(parent, Content(ring'), Used(ring'), c, v)
    <3>1. /\ Content(ring) \in Seq(Lines) /\ Used(ring) \in 0 .. Len(Content(ring))
          /\ Used(ring') \in Used(ring) .. Len(Content(ring)) + Len(build)
      BY <2>2, <2>3, <2>5, Holds DEF StreamOK
    <3> QED
      BY <2>2, <2>3, <2>5, <3>1, SentAppend
  <2> QED
    BY <2>1, <2>4, <2>5 DEF Goes, Continues
<1>9. ASSUME NEW t \in Threads, Grow(t) PROVE Goes
  <2>1. parent' = parent /\ socket' = socket /\ (Streaming' => Streaming)
    BY <1>9 DEF Grow, Streaming, conn
  <2>2. Content(ring') = Content(ring) /\ Used(ring') = Used(ring)
    BY <1>9, GrowHolds
  <2> QED
    BY <2>1, <2>2 DEF Goes, StreamOK, Continues
<1>10. ASSUME NEW t \in Threads, Refuse(t) PROVE Goes
  <2>1. UNCHANGED <<ring, parent>> /\ (Streaming' => Streaming)
    BY <1>10, Constants DEF Refuse, Unlocked, Streaming
  <2> QED
    BY <2>1 DEF Goes, StreamOK, Continues
<1>11. ASSUME NEW t \in Collectors, ZeroRaced(t) PROVE Goes
  <2>1. parent' = parent /\ ~Streaming'
    BY <1>11 DEF ZeroRaced, Sockets, Streaming, conn
  <2> QED
    BY <2>1 DEF Goes, StreamOK
<1>12. CASE Top
  <2>1. UNCHANGED <<ring, parent>> /\ (Streaming' => Streaming)
    BY <1>12, Constants DEF Top, Streaming
  <2> QED
    BY <2>1 DEF Goes, StreamOK, Continues
<1>13. CASE Zero
  <2>1. parent' = parent /\ ~Streaming'
    BY <1>13 DEF Zero, Sockets, Streaming, conn
  <2> QED
    BY <2>1 DEF Goes, StreamOK
<1>14. CASE Connected
  <2>1. at'[Sender] = "flush" /\ parent' = NewParent
    BY <1>14 DEF Connected, Goto, Threads
  <2>2. ~Streaming'
    BY <2>1 DEF Streaming
  <2> QED
    BY <2>1, <2>2 DEF Goes, StreamOK, NewParent
<1>15. CASE NotConnected
  <2>1. UNCHANGED <<ring, parent>> /\ (Streaming' => Streaming)
    BY <1>15, Constants DEF NotConnected, Streaming
  <2> QED
    BY <2>1 DEF Goes, StreamOK, Continues
<1>16. CASE Flush
  <2>1. parent = NewParent /\ parent' = parent /\ ~Streaming
    BY <1>16 DEF Flush, Sockets, Streaming, conn
  <2>2. Content(ring') = <<>> /\ Used(ring') = 0
    BY <1>16, FlushHolds
  <2>3. Whole(parent'.half, <<>>)
    <3>1. parent'.half = None
      BY <2>1 DEF NewParent
    <3>2. 1 \in Charts /\ 0 \in Versions
      BY Constants DEF Charts, Versions
    <3> QED
      BY <3>1, <3>2, MessagesWhole
  <2> QED
    BY <2>1, <2>2, <2>3 DEF Goes, StreamOK
<1>17. CASE ResetFlag
  <2>1. UNCHANGED <<ring, parent>> /\ (Streaming' => Streaming)
    BY <1>17, Constants DEF ResetFlag, Streaming
  <2> QED
    BY <2>1 DEF Goes, StreamOK, Continues
<1>18. CASE ResetDims
  <2>1. UNCHANGED <<ring, parent>> /\ (Streaming' => Streaming)
    BY <1>18, Constants DEF ResetDims, Streaming
  <2> QED
    BY <2>1 DEF Goes, StreamOK, Continues
<1>19. CASE TellCollectors
  <2>1. UNCHANGED <<ring, parent>> /\ (Streaming' => Streaming)
    BY <1>19, Constants DEF TellCollectors, Streaming
  <2> QED
    BY <2>1 DEF Goes, StreamOK, Continues
<1>20. CASE Queue
  <2>1. UNCHANGED <<ring, parent>> /\ (Streaming' => Streaming)
    BY <1>20, Constants DEF Queue, Streaming
  <2> QED
    BY <2>1 DEF Goes, StreamOK, Continues
<1>21. CASE Walk
  <2>1. UNCHANGED <<ring, parent>> /\ (Streaming' => Streaming)
    BY <1>21, Constants DEF Walk, Streaming
  <2> QED
    BY <2>1 DEF Goes, StreamOK, Continues
<1>22. CASE Look
  <2>1. UNCHANGED <<ring, parent>> /\ (Streaming' => Streaming)
    BY <1>22, Constants DEF Look, Streaming
  <2> QED
    BY <2>1 DEF Goes, StreamOK, Continues
<1>23. CASE PollReturns
  <2>1. UNCHANGED <<ring, parent>> /\ (Streaming' => Streaming)
    BY <1>23, Constants DEF PollReturns, Streaming
  <2> QED
    BY <2>1 DEF Goes, StreamOK, Continues
<1>24. CASE Send
  <2>1. socket = socket' /\ at[Sender] = "send" /\ Streaming
    BY <1>24 DEF Send, Sockets, Streaming, Talking
  <2>2. PICK n \in 1 .. Used(ring) :
          /\ Content(ring') = SubSeq(Content(ring), n + 1, Used(ring))
          /\ Used(ring') = Used(ring) - n
          /\ parent' = Received(SubSeq(Content(ring), 1, n))
    BY <1>24, SendHolds
  <2> DEFINE s == Content(ring)
  <2>3. /\ s \in Seq(Lines) /\ Whole(parent.half, s) /\ Used(ring) = Len(s) /\ Len(s) \in Nat
        /\ parent \in [defined : SUBSET (Charts \X Versions), half : (Charts \X Versions) \cup {None}]
    BY <2>1, Holds DEF StreamOK
  <2>4. n \in 1 .. Len(s) /\ Len(s) \in n .. Len(s)
    BY <2>3
  <2> HIDE DEF s
  <2>5. /\ parent' \in [defined : SUBSET (Charts \X Versions), half : (Charts \X Versions) \cup {None}]
        /\ Content(ring') \in Seq(Lines) /\ Whole(parent'.half, Content(ring'))
        /\ \A c \in Charts, v \in Versions :
             Sent(parent, s, Used(ring), c, v) => Sent(parent', Content(ring'), Used(ring'), c, v)
    BY <2>2, <2>3, <2>4, Read DEF s
  <2> QED
    BY <2>5 DEF Goes, StreamOK, Continues, s
<1>25. CASE Disconnect
  <2>1. UNCHANGED <<ring, parent>> /\ (Streaming' => Streaming)
    BY <1>25, Constants DEF Disconnect, CloseSocket, Streaming
  <2> QED
    BY <2>1 DEF Goes, StreamOK, Continues
<1>26. CASE Check
  <2>1. UNCHANGED <<ring, parent>> /\ (Streaming' => Streaming)
    BY <1>26, Constants DEF Check, CloseSocket, Streaming
  <2> QED
    BY <2>1 DEF Goes, StreamOK, Continues
<1>27. CASE Stop
  <2>1. UNCHANGED <<ring, parent>> /\ (Streaming' => Streaming)
    BY <1>27, Constants DEF Stop, CloseSocket, Streaming
  <2> QED
    BY <2>1 DEF Goes, StreamOK, Continues
<1>28. CASE UNCHANGED vars
  <2>1. UNCHANGED <<ring, parent>> /\ (Streaming' => Streaming)
    BY <1>28, Constants DEF vars, Streaming
  <2> QED
    BY <2>1 DEF Goes, StreamOK, Continues
<1> QED
  BY <1>1, <1>2, <1>3, <1>4, <1>5, <1>6, <1>7, <1>8, <1>9, <1>10, <1>11, <1>12, <1>13,
     <1>14, <1>15, <1>16, <1>17, <1>18, <1>19, <1>20, <1>21, <1>22, <1>23, <1>24, <1>25,
     <1>26, <1>27, <1>28
     DEF Next, CollectorStep, LockedStep, SenderStep, SenderLocks, Threads

-----------------------------------------------------------------------------
(* Charts that are marked as exposed.                                      *)

\* A step without influence on what is marked, built or lost.
Quiet ==
  /\ Streaming' => Streaming
  /\ excused' = excused /\ overflow' = overflow
  /\ \A c \in Charts :
       /\ IsReset(c)' /\ flag'[c] => IsReset(c) /\ flag[c]
       /\ flag'[c] => version'[c] = version[c]
       /\ flag'[c] /\ BeingDefined(c) => BeingDefined(c)'

LEMMA QuietExposed == Exposed /\ Goes /\ Quiet /\ version \in [Charts -> Versions] => Exposed'
<1> SUFFICES ASSUME Exposed, Goes, Quiet, version \in [Charts -> Versions], Streaming',
                    NEW c \in Charts
             PROVE  /\ <<"refused", c>> \in excused' => overflow'
                    /\ IsReset(c)' /\ flag'[c] =>
                         \/ Sent(parent', Content(ring'), Used(ring'), c, version'[c])
                         \/ BeingDefined(c)'
                         \/ <<"cancelled", c>> \in excused' \/ <<"refused", c>> \in excused'
  BY DEF Exposed
<1>1. <<"refused", c>> \in excused' => overflow'
  BY DEF Quiet, Exposed
<1>2. ASSUME IsReset(c)', flag'[c]
      PROVE  \/ Sent(parent', Content(ring'), Used(ring'), c, version'[c])
             \/ BeingDefined(c)'
             \/ <<"cancelled", c>> \in excused' \/ <<"refused", c>> \in excused'
  <2>1. /\ IsReset(c) /\ flag[c] /\ version'[c] = version[c] /\ version[c] \in Versions
        /\ Streaming /\ excused' = excused /\ (BeingDefined(c) => BeingDefined(c)')
    BY <1>2 DEF Quiet
  <2>2. Sent(parent, Content(ring), Used(ring), c, version[c])
          => Sent(parent', Content(ring'), Used(ring'), c, version'[c])
    BY <2>1 DEF Goes, Continues
  <2> QED
    BY <2>1, <2>2 DEF Exposed
<1> QED
  BY <1>1, <1>2

LEMMA ExposedInit == Init => Exposed
BY DEF Init, Exposed, Streaming

LEMMA ExposedStep ==
  ASSUME Placed, Sockets, Built, StreamOK, Goes, Exposed, [Next]_vars
  PROVE  Exposed'
<1>a. /\ Types
      /\ at \in [Threads -> CollectorPlaces \cup SenderPlaces]
      /\ chart \in [Threads -> 0 .. NumCharts + 1]
      /\ version \in [Charts -> Versions] /\ flag \in [Charts -> BOOLEAN]
      /\ \A t \in Threads : at[t] \in Locked <=> mutex = t
      /\ \A t \in Threads : at[t] \in Locked \cup {"lock"} => chart[t] \in Charts
      /\ \A t \in Collectors : at[t] \in CollectorPlaces
      /\ at[Sender] \in SenderPlaces
      /\ Sender \notin Collectors /\ Sender \in Threads
  BY Constants DEF Placed, Types, Places, Threads
<1> USE <1>a DEF Threads, Locked, conn, lockVars, exposure, ghosts, Goto
<1>1. ASSUME NEW t \in Collectors, Collect(t) PROVE Exposed'
  <2>1. Quiet
    BY <1>1, Constants DEF Collect, NotReady, Quiet, IsReset, BeingDefined, Streaming
  <2> QED
    BY <2>1, QuietExposed
<1>2. ASSUME NEW t \in Collectors, Change(t) PROVE Exposed'
  <2>1. Quiet
    BY <1>2, Constants DEF Change, Quiet, IsReset, BeingDefined, Streaming
  <2> QED
    BY <2>1, QuietExposed
<1>3. ASSUME NEW t \in Collectors, Spawn(t) PROVE Exposed'
  <2>1. Quiet
    BY <1>3, Constants DEF Spawn, Sockets, Quiet, IsReset, BeingDefined, Streaming
  <2> QED
    BY <2>1, QuietExposed
<1>4. ASSUME NEW t \in Threads, Lock(t) PROVE Exposed'
  <2>1. /\ mutex = None /\ mutex' = t /\ t # None /\ at[t] = "lock" /\ chart' = chart
        /\ Streaming' => Streaming
        /\ UNCHANGED <<ring, parent, overflow, version, excused>>
    BY <1>4, Constants DEF Lock, Streaming
  <2>2. \A c \in Charts : ~BeingDefined(c)
    BY <2>1, Constants DEF BeingDefined
  <2>3. \A c \in Charts : IsReset(c)' => IsReset(c)
    BY <1>4 DEF Lock, IsReset
  <2>4. \A c \in Charts : flag'[c] /\ ~flag[c] => c = chart[t] /\ at'[t] = "dims"
    <3>1. \/ flag' = flag
          \/ flag' = [flag EXCEPT ![chart[t]] = TRUE] /\ at'[t] = "dims"
      BY <1>4 DEF Lock
    <3> QED
      BY <3>1
  <2>5. \A c \in Charts : flag'[c] /\ ~flag[c] => BeingDefined(c)'
    BY <2>1, <2>4 DEF BeingDefined
  <2> QED
    BY <2>1, <2>2, <2>3, <2>5 DEF Exposed
<1>5. ASSUME NEW t \in Threads, Define(t) PROVE Exposed'
  <2>1. /\ mutex = t /\ mutex' = t /\ chart' = chart /\ version' = version /\ build = <<>>
        /\ flag' = flag /\ (Streaming' => Streaming)
        /\ UNCHANGED <<ring, parent, overflow, excused>>
        /\ build' = build \o Definition(chart[t], version[chart[t]]) /\ chart[t] \in Charts
    BY <1>5 DEF Define, Streaming, Built
  <2>2. build' # <<>> /\ build'[1] = Line("CHART", chart[t], version[chart[t]])
    BY <2>1, MessageLines DEF Definition
  <2>3. \A c \in Charts : IsReset(c)' => IsReset(c)
    BY <1>5 DEF Define, IsReset
  <2>4. \A c \in Charts : BeingDefined(c) => BeingDefined(c)'
    BY <2>1, <2>2 DEF BeingDefined
  <2> QED
    BY <2>1, <2>3, <2>4 DEF Exposed
<1>6. ASSUME NEW t \in Collectors, SendValues(t) PROVE Exposed'
  <2>1. /\ mutex = t /\ mutex' = t /\ at[t] = "values" /\ chart' = chart /\ version' = version
        /\ flag' = flag /\ (Streaming' => Streaming)
        /\ UNCHANGED <<ring, parent, overflow, excused>>
        /\ build' = build \o Values(chart[t], version[chart[t]]) /\ chart[t] \in Charts
    BY <1>6 DEF SendValues, Streaming
  <2>2. build # <<>> => build' # <<>> /\ build'[1] = build[1]
    <3>1. build \in Seq(Lines) /\ Values(chart[t], version[chart[t]]) \in Seq(Lines)
      BY <2>1, MessageLines DEF Types
    <3> QED
      BY <2>1, <3>1
  <2>3. \A c \in Charts : IsReset(c)' => IsReset(c)
    BY <1>6 DEF SendValues, IsReset
  <2>4. \A c \in Charts : BeingDefined(c) => BeingDefined(c)'
    BY <2>1, <2>2 DEF BeingDefined
  <2> QED
    BY <2>1, <2>3, <2>4 DEF Exposed
<1>7. ASSUME NEW t \in Collectors, Cancel(t) PROVE Exposed'
  <2>0. flag' = flag \/ flag' = [flag EXCEPT ![chart[t]] = FALSE]
    BY <1>7 DEF Cancel
  <2>1. /\ mutex = t /\ at[t] = "values" /\ chart[t] \in Charts /\ version' = version
        /\ (Streaming' => Streaming) /\ \A c \in Charts : IsReset(c)' => IsReset(c)
    BY <1>7 DEF Cancel, Unlocked, Streaming, IsReset
  <2>2. \A c \in Charts : BeingDefined(c) => c = chart[t] /\ Defines
    <3>1. build # <<>> => 1 \in DOMAIN build
      BY DEF Types
    <3>2. \A c \in Charts : build[1] = Line("CHART", c, version[c]) => build[1].line = "CHART"
      BY DEF Line
    <3> QED
      BY <2>1, <3>1, <3>2 DEF BeingDefined, Defines
  <2>3. /\ UNCHANGED <<ring, parent, overflow>>
        /\ Defines => excused' = excused \cup {<<"cancelled", chart[t]>>}
        /\ ~Defines => excused' = excused
    BY <1>7 DEF Cancel, Excuse
  <2>4. \A c \in Charts : flag'[c] => flag[c]
    BY <2>0
  <2>5. \A c \in Charts : BeingDefined(c) => <<"cancelled", c>> \in excused'
    BY <2>2, <2>3
  <2>6. /\ excused \subseteq excused'
        /\ \A c \in Charts : <<"refused", c>> \in excused' => <<"refused", c>> \in excused
    BY <2>3
  <2> QED
    BY <2>1, <2>3, <2>4, <2>5, <2>6 DEF Exposed
<1>8. ASSUME NEW t \in Threads, Commit(t) PROVE Exposed'
  <2>1. /\ mutex = t /\ at[t] = "commit" /\ chart[t] \in Charts /\ version' = version
        /\ (Streaming' => Streaming) /\ \A c \in Charts : flag'[c] => flag[c]
        /\ \A c \in Charts : IsReset(c)' => IsReset(c)
    BY <1>8 DEF Commit, Unlocked, Streaming, IsReset
  <2>2. \A c \in Charts : BeingDefined(c) => c = chart[t] /\ Defines
    <3>1. build # <<>> => 1 \in DOMAIN build
      BY DEF Types
    <3>2. \A c \in Charts : build[1] = Line("CHART", c, version[c]) => build[1].line = "CHART"
      BY DEF Line
    <3> QED
      BY <2>1, <3>1, <3>2 DEF BeingDefined, Defines
  <2>3. /\ excused \subseteq excused' /\ overflow' = overflow
        /\ \A c \in Charts : <<"refused", c>> \in excused' => <<"refused", c>> \in excused
    BY <1>8 DEF Commit, Stray, Excuse
  <2>4. ASSUME Streaming, NEW c \in Charts, BeingDefined(c)
        PROVE  Sent(parent', Content(ring'), Used(ring'), c, version[c])
    <3>1. build # <<>> /\ build[1] = Line("CHART", c, version[c])
      BY <2>1, <2>4 DEF BeingDefined
    <3>2. /\ Content(ring') = Content(ring) \o build /\ Used(ring') = Used(ring) + Len(build)
          /\ Content(ring) \in Seq(Lines) /\ Len(Content(ring)) = Used(ring) /\ Used(ring) \in Nat
          /\ build \in Seq(Lines) /\ Len(build) \in Nat
      BY <1>8, <2>4, CommitHolds, Holds, LenProperties DEF StreamOK, Types
    <3>3. Len(build) >= 1
      BY <3>1, <3>2, EmptySeq
    <3>4. Used(ring) + 1 \in 0 .. Used(ring') /\ Used(ring) + 1 \in 1 .. Len(Content(ring)) + Len(build)
      BY <3>2, <3>3
    <3>5. Content(ring')[Used(ring) + 1] = build[1]
      BY <3>2, <3>4, ConcatProperties
    <3>6. Starts(parent'.half, Content(ring'), Used(ring) + 1, c, version[c])
      BY <3>1, <3>2, <3>4, <3>5 DEF Starts
    <3> QED
      BY <3>4, <3>6 DEF Sent
  <2> QED
    BY <2>1, <2>3, <2>4 DEF Exposed, Goes, Continues
<1>9. ASSUME NEW t \in Threads, Grow(t) PROVE Exposed'
  <2>1. Quiet
    BY <1>9, Constants DEF Grow, Quiet, IsReset, BeingDefined, Streaming
  <2> QED
    BY <2>1, QuietExposed
<1>10. ASSUME NEW t \in Threads, Refuse(t) PROVE Exposed'
  <2>1. /\ mutex = t /\ at[t] = "commit" /\ chart[t] \in Charts /\ version' = version
        /\ (Streaming' => Streaming) /\ \A c \in Charts : flag'[c] => flag[c]
        /\ \A c \in Charts : IsReset(c)' => IsReset(c)
    BY <1>10 DEF Refuse, Unlocked, Streaming, IsReset
  <2>2. \A c \in Charts : BeingDefined(c) => c = chart[t] /\ Defines
    <3>1. build # <<>> => 1 \in DOMAIN build
      BY DEF Types
    <3>2. \A c \in Charts : build[1] = Line("CHART", c, version[c]) => build[1].line = "CHART"
      BY DEF Line
    <3> QED
      BY <2>1, <3>1, <3>2 DEF BeingDefined, Defines
  <2>3. /\ UNCHANGED <<ring, parent>> /\ overflow' = TRUE
        /\ Defines => excused' = excused \cup {<<"refused", chart[t]>>}
        /\ ~Defines => excused' = excused
    BY <1>10 DEF Refuse, Excuse
  <2>4. \A c \in Charts : BeingDefined(c) => <<"refused", c>> \in excused'
    BY <2>2, <2>3
  <2>5. excused \subseteq excused'
    BY <2>3
  <2> QED
    BY <2>1, <2>3, <2>4, <2>5 DEF Exposed
<1>11. ASSUME NEW t \in Collectors, ZeroRaced(t) PROVE Exposed'
  <2>1. ~Streaming'
    BY <1>11 DEF ZeroRaced, Sockets, Streaming
  <2> QED
    BY <2>1 DEF Exposed
<1>12. CASE Top
  <2>1. CASE socket
    <3>1. Quiet
      BY <1>12, <2>1 DEF Top, Quiet, IsReset, BeingDefined, Streaming
    <3> QED
      BY <3>1, QuietExposed
  <2>2. CASE ~socket
    BY <1>12, <2>2 DEF Top, Exposed, Streaming
  <2> QED
    BY <2>1, <2>2
<1>13. CASE Zero
  <2>1. ~Streaming'
    BY <1>13 DEF Zero, Sockets, Streaming
  <2> QED
    BY <2>1 DEF Exposed
<1>14. CASE Connected
  <2>1. ~Streaming'
    BY <1>14 DEF Connected, Streaming
  <2> QED
    BY <2>1 DEF Exposed
<1>15. CASE NotConnected
  <2>1. Quiet
    BY <1>15, Constants DEF NotConnected, Quiet, IsReset, BeingDefined, Streaming
  <2> QED
    BY <2>1, QuietExposed
<1>16. CASE Flush
  <2>1. excused' = {} /\ at'[Sender] = "reset" /\ chart'[Sender] = 1
    BY <1>16 DEF Flush
  <2>2. \A c \in Charts : ~(c < 1)
    BY Constants DEF Charts
  <2> QED
    BY <2>1, <2>2 DEF Exposed, IsReset
<1>17. CASE ResetFlag
  <2>1. /\ at[Sender] = "reset" /\ at' = [at EXCEPT ![Sender] = "resetDims"] /\ chart' = chart
        /\ flag' = [flag EXCEPT ![chart[Sender]] = FALSE] /\ chart[Sender] \in Charts
        /\ (Streaming' => Streaming)
        /\ UNCHANGED <<excused, overflow, version, mutex, build>>
    BY <1>17 DEF ResetFlag, Streaming, Placed, Places
  <2>2. ASSUME NEW c \in Charts PROVE IsReset(c)' /\ flag'[c] => IsReset(c) /\ flag[c]
    <3>1. c = chart[Sender] => ~flag'[c]
      BY <2>1
    <3>2. c # chart[Sender] => flag'[c] = flag[c]
      BY <2>1
    <3>3. c <= chart[Sender] /\ c # chart[Sender] => c < chart[Sender]
      BY <2>1 DEF Charts
    <3> QED
      BY <2>1, <3>1, <3>2, <3>3 DEF IsReset
  <2>3. \A c \in Charts : BeingDefined(c) => BeingDefined(c)'
    BY <2>1 DEF BeingDefined
  <2> QED
    BY <2>1, <2>2, <2>3, QuietExposed DEF Quiet
<1>18. CASE ResetDims
  <2>1. /\ at[Sender] = "resetDims" /\ chart[Sender] \in Charts
        /\ chart' = [chart EXCEPT ![Sender] = chart[Sender] + 1]
        /\ at' = [at EXCEPT ![Sender] = IF chart[Sender] = NumCharts THEN "ready" ELSE "reset"]
        /\ (Streaming' => Streaming)
        /\ UNCHANGED <<excused, overflow, version, flag, mutex, build>>
    BY <1>18 DEF ResetDims, Streaming, Placed, Places
  <2>2. ASSUME NEW c \in Charts, IsReset(c)' PROVE IsReset(c)
    <3>1. c \in Int /\ chart[Sender] \in Int /\ NumCharts \in Int /\ c <= NumCharts
      BY <2>1, Constants DEF Charts
    <3>2. CASE chart[Sender] = NumCharts
      BY <2>1, <3>1, <3>2 DEF IsReset
    <3>3. CASE chart[Sender] # NumCharts
      <4>1. c < chart[Sender] + 1
        BY <2>1, <2>2, <3>3 DEF IsReset
      <4> QED
        BY <2>1, <3>1, <4>1 DEF IsReset
    <3> QED
      BY <3>2, <3>3
  <2>3. \A c \in Charts : BeingDefined(c) => BeingDefined(c)'
    BY <2>1 DEF BeingDefined
  <2> QED
    BY <2>1, <2>2, <2>3, QuietExposed DEF Quiet
<1>19. CASE TellCollectors
  <2>1. Quiet
    BY <1>19, Constants DEF TellCollectors, Quiet, IsReset, BeingDefined, Streaming
  <2> QED
    BY <2>1, QuietExposed
<1>20. CASE Queue
  <2>1. Quiet
    BY <1>20, Constants DEF Queue, Quiet, IsReset, BeingDefined, Streaming
  <2> QED
    BY <2>1, QuietExposed
<1>21. CASE Walk
  <2>1. Quiet
    BY <1>21, Constants DEF Walk, Quiet, IsReset, BeingDefined, Streaming
  <2> QED
    BY <2>1, QuietExposed
<1>22. CASE Look
  <2>1. Quiet
    BY <1>22, Constants DEF Look, Quiet, IsReset, BeingDefined, Streaming
  <2> QED
    BY <2>1, QuietExposed
<1>23. CASE PollReturns
  <2>1. Quiet
    BY <1>23, Constants DEF PollReturns, Quiet, IsReset, BeingDefined, Streaming
  <2> QED
    BY <2>1, QuietExposed
<1>24. CASE Send
  <2>1. Quiet
    BY <1>24, Constants DEF Send, Quiet, IsReset, BeingDefined, Streaming
  <2> QED
    BY <2>1, QuietExposed
<1>25. CASE Disconnect
  <2>1. ~Streaming'
    BY <1>25 DEF Disconnect, CloseSocket, Streaming
  <2> QED
    BY <2>1 DEF Exposed
<1>26. CASE Check
  <2>1. CASE overflow
    <3>1. ~Streaming'
      BY <1>26, <2>1 DEF Check, CloseSocket, Streaming
    <3> QED
      BY <3>1 DEF Exposed
  <2>2. CASE ~overflow
    <3>1. Quiet
      BY <1>26, <2>2 DEF Check, Quiet, IsReset, BeingDefined, Streaming
    <3> QED
      BY <3>1, QuietExposed
  <2> QED
    BY <2>1, <2>2
<1>27. CASE Stop
  <2>1. ~Streaming'
    BY <1>27 DEF Stop, CloseSocket, Streaming
  <2> QED
    BY <2>1 DEF Exposed
<1>28. CASE UNCHANGED vars
  <2>1. Quiet
    BY <1>28, Constants DEF vars, Quiet, IsReset, BeingDefined, Streaming
  <2> QED
    BY <2>1, QuietExposed
<1> QED
  BY <1>1, <1>2, <1>3, <1>4, <1>5, <1>6, <1>7, <1>8, <1>9, <1>10, <1>11, <1>12, <1>13,
     <1>14, <1>15, <1>16, <1>17, <1>18, <1>19, <1>20, <1>21, <1>22, <1>23, <1>24, <1>25,
     <1>26, <1>27, <1>28
     DEF Next, CollectorStep, LockedStep, SenderStep, SenderLocks, Threads

-----------------------------------------------------------------------------
(* Groups of values.                                                       *)

\* A step that neither changes the stream nor what the threads that build stand by.
LEMMA UnreadGroups ==
  ASSUME Groups, Streaming' => Streaming, parent' = parent, excused \subseteq excused',
         Content(ring') = Content(ring), Used(ring') = Used(ring),
         \A t \in Collectors :
           /\ at'[t] \in {"values", "commit"} /\ t \notin stale'
           /\ build' \in {<<>>, Values(chart'[t], version'[chart'[t]])}
           => /\ at[t] \in {"values", "commit"} /\ t \notin stale
              /\ chart'[t] = chart[t] /\ version'[chart[t]] = version[chart[t]]
              /\ build \in {<<>>, Values(chart[t], version[chart[t]])}
  PROVE  Groups'
<1>1. \A c : Lost(c) => Lost(c)'
  BY DEF Lost
<1>2. Streaming /\ Ordered(parent, Content(ring)) => Ordered(parent, Content(ring))'
  BY <1>1 DEF Ordered
<1> QED
  BY <1>1, <1>2 DEF Groups

LEMMA GroupsInit == Init => Groups
BY DEF Init, Groups, Streaming

LEMMA GroupsStep ==
  ASSUME Placed, Sockets, Built, StreamOK, Exposed, Groups, [Next]_vars
  PROVE  Groups'
<1>a. /\ Types
      /\ at \in [Threads -> CollectorPlaces \cup SenderPlaces]
      /\ chart \in [Threads -> 0 .. NumCharts + 1]
      /\ version \in [Charts -> Versions]
      /\ \A t \in Threads : at[t] \in Locked <=> mutex = t
      /\ \A t \in Threads : at[t] \in Locked \cup {"lock"} => chart[t] \in Charts
      /\ \A t \in Collectors : at[t] \in Locked \cup {"lock"} => CollectorOf[chart[t]] = t
      /\ at[Sender] # "values" /\ purpose[Sender] = "push"
      /\ Sender \notin Collectors /\ Sender \in Threads
  BY Constants DEF Placed, Types, Places, Threads
<1> USE <1>a DEF Threads, Locked, conn, lockVars, exposure, ghosts, Goto
<1>1. ASSUME NEW t \in Collectors, Collect(t) PROVE Groups'
  BY <1>1, Constants, UnreadGroups DEF Collect, NotReady, Streaming
<1>2. ASSUME NEW t \in Collectors, Change(t) PROVE Groups'
  <2>1. PICK c \in Charts : CollectorOf[c] = t /\ version' = [version EXCEPT ![c] = version[c] + 1]
    BY <1>2 DEF Change
  <2>2. /\ at[t] = "idle" /\ at'[t] \in {"idle", "lock"} /\ UNCHANGED <<ring, parent, build, stale, excused>>
        /\ \A u \in Threads : u # t => at'[u] = at[u] /\ chart'[u] = chart[u]
        /\ Streaming' => Streaming
    BY <1>2 DEF Change, Streaming
  <2>3. \A u \in Collectors : u # t /\ at[u] \in {"values", "commit"} =>
          chart'[u] = chart[u] /\ version'[chart[u]] = version[chart[u]]
    BY <2>1, <2>2
  <2> QED
    BY <2>2, <2>3, UnreadGroups
<1>3. ASSUME NEW t \in Collectors, Spawn(t) PROVE Groups'
  BY <1>3, Constants, UnreadGroups DEF Spawn, Sockets, Streaming
<1>4. ASSUME NEW t \in Threads, Lock(t) PROVE Groups'
  <2>1. /\ mutex = None /\ mutex' = t /\ t # None /\ chart' = chart /\ build' = <<>>
        /\ (Streaming' => Streaming) /\ UNCHANGED <<ring, parent, version, excused, stale, connected>>
        /\ \A u \in Threads : u # t => at'[u] \notin {"values", "commit"}
    BY <1>4, Constants DEF Lock, Streaming
  <2>2. Streaming => Ordered(parent, Content(ring))'
    BY <2>1 DEF Groups, Ordered, Lost
  <2>3. ASSUME t \in Collectors, at'[t] \in {"values", "commit"}, t \notin stale, Streaming
        PROVE  Sent(parent, Content(ring), Used(ring), chart[t], version[chart[t]]) \/ Lost(chart[t])
    <3>1. at[t] = "lock" /\ purpose[t] = "collect" /\ flag[chart[t]] /\ chart[t] \in Charts
      BY <1>4, <2>3 DEF Lock
    <3>2. connected /\ IsReset(chart[t])
      BY <2>3, <3>1 DEF Sockets, IsReset, Resetting
    <3>3. ~BeingDefined(chart[t])
      BY <2>1, Constants DEF BeingDefined
    <3>4. \/ Sent(parent, Content(ring), Used(ring), chart[t], version[chart[t]])
          \/ <<"cancelled", chart[t]>> \in excused \/ <<"refused", chart[t]>> \in excused
      BY <2>3, <3>1, <3>2, <3>3 DEF Exposed
    <3> QED
      BY <3>4 DEF Lost, Excuses
  <2> QED
    BY <2>1, <2>2, <2>3 DEF Groups, Lost
<1>5. ASSUME NEW t \in Threads, Define(t) PROVE Groups'
  <2>1. /\ mutex = t /\ chart' = chart /\ version' = version /\ build = <<>>
        /\ (Streaming' => Streaming) /\ UNCHANGED <<ring, parent, excused, stale>>
        /\ build' = build \o Definition(chart[t], version[chart[t]]) /\ chart[t] \in Charts
        /\ \A u \in Threads : u # t => at'[u] \notin {"values", "commit"}
    BY <1>5 DEF Define, Streaming, Built
  <2>2. build' \notin {<<>>, Values(chart[t], version[chart[t]])}
    <3>1. chart[t] \in Charts /\ version[chart[t]] \in Versions
      BY <2>1
    <3>2. build' = Definition(chart[t], version[chart[t]])
      BY <2>1, <3>1, MessageLengths
    <3> QED
      BY <3>1, <3>2, MessageLengths
  <2> QED
    BY <2>1, <2>2, UnreadGroups
<1>6. ASSUME NEW t \in Collectors, SendValues(t) PROVE Groups'
  <2>1. /\ mutex = t /\ at[t] = "values" /\ chart' = chart /\ version' = version
        /\ build \in {<<>>, Definition(chart[t], version[chart[t]])}
        /\ (Streaming' => Streaming) /\ UNCHANGED <<ring, parent, excused, stale>>
        /\ build' = build \o Values(chart[t], version[chart[t]]) /\ chart[t] \in Charts
        /\ \A u \in Threads : u # t => at'[u] \notin {"values", "commit"}
    BY <1>6 DEF SendValues, Streaming, Built
  <2>2. build' \in {<<>>, Values(chart[t], version[chart[t]])} => build = <<>>
    <3>1. chart[t] \in Charts /\ version[chart[t]] \in Versions
      BY <2>1
    <3> QED
      BY <2>1, <3>1, MessageLengths
  <2> QED
    BY <2>1, <2>2, UnreadGroups
<1>7. ASSUME NEW t \in Collectors, Cancel(t) PROVE Groups'
  <2>1. /\ (Streaming' => Streaming) /\ UNCHANGED <<ring, parent>> /\ excused \subseteq excused'
        /\ mutex = t /\ \A u \in Threads : at'[u] \notin {"values", "commit"}
    BY <1>7 DEF Cancel, Unlocked, Streaming, Excuse
  <2> QED
    BY <2>1, UnreadGroups
<1>8. ASSUME NEW t \in Threads, Commit(t) PROVE Groups'
  <2> DEFINE c == chart[t]
             v == version[c]
             s == Content(ring)
  <2>1. /\ mutex = t /\ at[t] = "commit" /\ c \in Charts /\ v \in Versions /\ parent' = parent
        /\ (Streaming' => Streaming) /\ \A u \in Threads : at'[u] \notin {"values", "commit"}
        /\ t \in stale /\ ~Defines => excused' = excused \cup {<<"stale", c>>}
        /\ excused \subseteq excused'
    BY <1>8 DEF Commit, Stray, Excuse, Unlocked, Streaming
  <2>2. SUFFICES ASSUME Streaming PROVE Ordered(parent, Content(ring))'
    BY <2>1 DEF Groups
  <2>3. /\ Content(ring') = s \o build /\ s \in Seq(Lines) /\ Len(s) = Used(ring) /\ Len(s) \in Nat
        /\ build \in Seq(Lines) /\ Len(build) \in Nat
    BY <1>8, <2>2, CommitHolds, Holds, LenProperties DEF StreamOK, Types
  <2> HIDE DEF s
  <2>4. /\ Len(s \o build) = Len(s) + Len(build)
        /\ \A k \in 1 .. Len(s) : (s \o build)[k] = s[k]
        /\ \A k \in Len(s) + 1 .. Len(s) + Len(build) : (s \o build)[k] = build[k - Len(s)]
    <3>1. /\ Len(s \o build) = Len(s) + Len(build)
          /\ \A k \in 1 .. Len(s) + Len(build) :
                (s \o build)[k] = IF k <= Len(s) THEN s[k] ELSE build[k - Len(s)]
      BY <2>3, ConcatProperties
    <3>2. ASSUME NEW k \in 1 .. Len(s) PROVE (s \o build)[k] = s[k]
      <4>1. k \in 1 .. Len(s) + Len(build) /\ k <= Len(s)
        BY <2>3
      <4> QED
        BY <3>1, <4>1
    <3>3. ASSUME NEW k \in Len(s) + 1 .. Len(s) + Len(build)
          PROVE  (s \o build)[k] = build[k - Len(s)]
      <4>1. k \in 1 .. Len(s) + Len(build) /\ ~(k <= Len(s))
        BY <2>3
      <4> QED
        BY <3>1, <4>1
    <3> QED
      BY <3>1, <3>2, <3>3
  <2>5. ASSUME NEW k \in 1 .. Len(s), s[k].line = "SET"
        PROVE  \/ Sent(parent, s \o build, k - 1, s[k].chart, s[k].version)
               \/ \E reason \in Excuses : <<reason, s[k].chart>> \in excused'
    <3>1. Sent(parent, s, k - 1, s[k].chart, s[k].version) \/ Lost(s[k].chart)
      BY <2>2, <2>5 DEF Groups, Ordered, s
    <3>2. k - 1 \in 0 .. Len(s) /\ k - 1 \in k - 1 .. Len(s) + Len(build)
      BY <2>3
    <3> QED
      BY <2>1, <2>3, <3>1, <3>2, SentAppend DEF Lost
  <2>6. ASSUME NEW j \in 1 .. Len(build), build[j].line = "SET"
        PROVE  /\ build[j].chart = c /\ build[j].version = v
               /\ \/ Sent(parent, s \o build, Len(s) + j - 1, c, v)
                  \/ \E reason \in Excuses : <<reason, c>> \in excused'
    <3>1. \A w \in Versions :
            /\ Len(Definition(c, w)) = 2 /\ Definition(c, w)[1] = Line("CHART", c, w)
            /\ Definition(c, w)[2] = Line("DIMENSION", c, w)
            /\ Len(Values(c, w)) = 1 /\ Values(c, w)[1] = Line("SET", c, w)
            /\ Definition(c, w) \in Seq(Lines) /\ Values(c, w) \in Seq(Lines)
            /\ Line("CHART", c, w).line = "CHART" /\ Line("DIMENSION", c, w).line = "DIMENSION"
            /\ Line("SET", c, w).chart = c /\ Line("SET", c, w).version = w
            /\ Line("SET", c, w).line = "SET"
      BY <2>1, MessageLines DEF Definition, Values, Line
    <3>2. t \in Collectors
      <4>1. ASSUME NEW w \in Versions, build = Definition(c, w) PROVE FALSE
        BY <2>6, <3>1, <4>1
      <4> QED
        BY <2>1, <4>1 DEF Built
    <3>3. build \in {Values(c, v), Definition(c, v) \o Values(c, v)}
      <4>1. build # Definition(c, v)
        BY SMTT(30), <2>1, <2>6, <3>1
      <4> QED
        BY <2>1, <3>2, <4>1 DEF Built
    <3>4. CASE build = Values(c, v)
      <4>1. j = 1 /\ build[j] = Line("SET", c, v) /\ Len(s) + j - 1 = Len(s)
        BY <2>1, <2>3, <3>1, <3>4
      <4>2. ~Defines
        BY <2>1, <3>1, <3>4 DEF Defines
      <4>3. CASE t \in stale
        BY <2>1, <3>1, <4>1, <4>2, <4>3 DEF Excuses
      <4>4. CASE t \notin stale
        <5>1. Sent(parent, s, Len(s), c, v) \/ Lost(c)
          BY <2>1, <2>2, <2>3, <3>2, <3>4, <4>4 DEF Groups, s
        <5>2. Len(s) \in 0 .. Len(s) /\ Len(s) \in Len(s) .. Len(s) + Len(build)
          BY <2>3
        <5> QED
          <6>1. Sent(parent, s, Len(s), c, v) => Sent(parent, s \o build, Len(s), c, v)
            BY <2>3, <5>2, SentAppend
          <6>2. Lost(c) => \E reason \in Excuses : <<reason, c>> \in excused'
            BY <2>1 DEF Lost
          <6>3. build[j].chart = c /\ build[j].version = v
            BY <2>1, <3>1, <4>1
          <6> QED
            BY <4>1, <5>1, <6>1, <6>2, <6>3
      <4> QED
        BY <4>3, <4>4
    <3>5. CASE build = Definition(c, v) \o Values(c, v)
      <4>1. /\ Len(build) = 3 /\ build[1] = Line("CHART", c, v)
            /\ build[2] = Line("DIMENSION", c, v) /\ build[3] = Line("SET", c, v)
        BY <2>1, <3>5, MessageLengths
      <4>2. j = 3
        <5>1. j \in {1, 2, 3}
          BY <4>1
        <5> QED
          BY <2>1, <2>6, <3>1, <4>1, <5>1
      <4>3. Len(s) + 1 \in 0 .. Len(s) + j - 1 /\ Len(s) + 1 # 0 /\ Len(s) + 1 - Len(s) = 1
            /\ Len(s) + 1 \in Len(s) + 1 .. Len(s) + Len(build)
        BY <2>3, <4>1, <4>2
      <4>4. Starts(parent.half, s \o build, Len(s) + 1, c, v)
        BY <2>4, <4>1, <4>3 DEF Starts
      <4> QED
        BY <2>1, <3>1, <4>1, <4>2, <4>3, <4>4 DEF Sent
    <3> QED
      BY <3>3, <3>4, <3>5
  <2> HIDE DEF c, v
  <2>7. ASSUME NEW k \in 1 .. Len(s) + Len(build), (s \o build)[k].line = "SET"
        PROVE  \/ Sent(parent, s \o build, k - 1, (s \o build)[k].chart, (s \o build)[k].version)
               \/ \E reason \in Excuses : <<reason, (s \o build)[k].chart>> \in excused'
    <3>1. CASE k <= Len(s)
      BY <2>3, <2>4, <2>5, <2>7, <3>1
    <3>2. CASE k > Len(s)
      <4>0. /\ k - Len(s) \in 1 .. Len(build) /\ Len(s) + (k - Len(s)) - 1 = k - 1
            /\ k \in Len(s) + 1 .. Len(s) + Len(build)
        BY <2>3, <3>2
      <4>1. /\ k - Len(s) \in 1 .. Len(build) /\ Len(s) + (k - Len(s)) - 1 = k - 1
            /\ (s \o build)[k] = build[k - Len(s)]
        BY <2>4, <4>0
      <4> QED
        BY <2>6, <2>7, <4>1
    <3>3. k <= Len(s) \/ k > Len(s)
      BY <2>3
    <3> QED
      BY <3>1, <3>2, <3>3
  <2> QED
    BY <2>1, <2>3, <2>4, <2>7 DEF Ordered, Lost
<1>9. ASSUME NEW t \in Threads, Grow(t) PROVE Groups'
  <2>1. /\ (Streaming' => Streaming)
        /\ UNCHANGED <<parent, at, chart, version, build, stale, excused>>
    BY <1>9 DEF Grow, Streaming
  <2>2. Content(ring') = Content(ring) /\ Used(ring') = Used(ring)
    BY <1>9, GrowHolds
  <2> QED
    BY <2>1, <2>2, UnreadGroups
<1>10. ASSUME NEW t \in Threads, Refuse(t) PROVE Groups'
  <2>1. /\ (Streaming' => Streaming) /\ UNCHANGED <<ring, parent>> /\ excused \subseteq excused'
        /\ mutex = t /\ \A u \in Threads : at'[u] \notin {"values", "commit"}
    BY <1>10 DEF Refuse, Unlocked, Streaming, Excuse
  <2> QED
    BY <2>1, UnreadGroups
<1>11. ASSUME NEW t \in Collectors, ZeroRaced(t) PROVE Groups'
  <2>1. ~Streaming'
    BY <1>11 DEF ZeroRaced, Sockets, Streaming
  <2> QED
    BY <2>1 DEF Groups
<1>12. CASE Top
  <2>1. CASE socket
    BY <1>12, <2>1, UnreadGroups DEF Top, Streaming
  <2>2. CASE ~socket
    BY <1>12, <2>2 DEF Top, Groups, Streaming
  <2> QED
    BY <2>1, <2>2
<1>13. CASE Zero
  <2>1. ~Streaming'
    BY <1>13 DEF Zero, Sockets, Streaming
  <2> QED
    BY <2>1 DEF Groups
<1>14. CASE Connected
  <2>1. ~Streaming'
    BY <1>14 DEF Connected, Streaming
  <2> QED
    BY <2>1 DEF Groups
<1>15. CASE NotConnected
  BY <1>15, Constants, UnreadGroups DEF NotConnected, Streaming
<1>16. CASE Flush
  <2>1. Content(ring') = <<>>
    BY <1>16, FlushHolds
  <2>2. Ordered(parent, <<>>)'
    BY DEF Ordered
  <2>3. \A u \in Collectors : at'[u] \notin {"values", "commit"}
    BY <1>16, Constants DEF Flush
  <2> QED
    BY <1>16, <2>1, <2>2, <2>3 DEF Groups, Flush, Ordered
<1>17. CASE ResetFlag
  BY <1>17, Constants, UnreadGroups DEF ResetFlag, Streaming
<1>18. CASE ResetDims
  BY <1>18, Constants, UnreadGroups DEF ResetDims, Streaming
<1>19. CASE TellCollectors
  BY <1>19, Constants, UnreadGroups DEF TellCollectors, Streaming
<1>20. CASE Queue
  BY <1>20, Constants, UnreadGroups DEF Queue, Streaming
<1>21. CASE Walk
  BY <1>21, Constants, UnreadGroups DEF Walk, Streaming
<1>22. CASE Look
  BY <1>22, Constants, UnreadGroups DEF Look, Streaming
<1>23. CASE PollReturns
  BY <1>23, Constants, UnreadGroups DEF PollReturns, Streaming
<1>24. CASE Send
  <2>1. /\ at[Sender] = "send" /\ Streaming /\ mutex = None
        /\ UNCHANGED <<chart, version, build, stale, excused>>
        /\ \A u \in Collectors : at'[u] = at[u] /\ at[u] \notin {"values", "commit"}
    BY <1>24, Constants DEF Send, Sockets, Streaming, Talking
  <2>2. PICK n \in 1 .. Used(ring) :
          /\ Content(ring') = SubSeq(Content(ring), n + 1, Used(ring))
          /\ parent' = Received(SubSeq(Content(ring), 1, n))
    BY <1>24, SendHolds
  <2> DEFINE s == Content(ring)
             rest == Content(ring')
  <2>3. /\ s \in Seq(Lines) /\ Whole(parent.half, s) /\ Used(ring) = Len(s) /\ Len(s) \in Nat
        /\ parent \in [defined : SUBSET (Charts \X Versions), half : (Charts \X Versions) \cup {None}]
    <3>1. Used(ring) = Len(s) /\ Used(ring) \in Nat
      BY Holds DEF Types
    <3>2. s \in Seq(Lines) /\ Whole(parent.half, s)
      BY <2>1 DEF StreamOK
    <3>3. parent \in [defined : SUBSET (Charts \X Versions), half : (Charts \X Versions) \cup {None}]
      BY DEF StreamOK
    <3> QED
      BY <3>1, <3>2, <3>3
  <2>4. n \in 1 .. Len(s) /\ rest = SubSeq(s, n + 1, Len(s))
    BY <2>2, <2>3
  <2> HIDE DEF s, rest
  <2>5. /\ rest \in Seq(Lines) /\ Len(rest) = Len(s) - n
        /\ \A k \in 1 .. Len(rest) : rest[k] = s[n + k]
        /\ \A c \in Charts, v \in Versions, m \in n .. Len(s) :
             Sent(parent, s, m, c, v) => Sent(parent', rest, m - n, c, v)
    BY <2>2, <2>3, <2>4, Read DEF s
  <2>6. ASSUME NEW k \in 1 .. Len(rest), rest[k].line = "SET"
        PROVE  Sent(parent', rest, k - 1, rest[k].chart, rest[k].version) \/ Lost(rest[k].chart)
    <3>1. /\ n + k \in 1 .. Len(s) /\ n + k - 1 \in n .. Len(s) /\ n + k - 1 - n = k - 1
          /\ rest[k] = s[n + k]
      BY <2>3, <2>4, <2>5
    <3>2. Sent(parent, s, n + k - 1, s[n + k].chart, s[n + k].version) \/ Lost(s[n + k].chart)
      BY <2>1, <2>6, <3>1 DEF Groups, Ordered, s
    <3>3. s[n + k].chart \in Charts /\ s[n + k].version \in Versions
      BY <2>3, <3>1, ElementOfSeq, LineFields
    <3> QED
      BY <2>5, <3>1, <3>2, <3>3
  <2> QED
    BY <2>1, <2>6 DEF Groups, Ordered, Lost, rest
<1>25. CASE Disconnect
  <2>1. ~Streaming'
    BY <1>25 DEF Disconnect, CloseSocket, Streaming
  <2> QED
    BY <2>1 DEF Groups
<1>26. CASE Check
  <2>1. CASE overflow
    <3>1. ~Streaming'
      BY <1>26, <2>1 DEF Check, CloseSocket, Streaming
    <3> QED
      BY <3>1 DEF Groups
  <2>2. CASE ~overflow
    BY <1>26, <2>2, UnreadGroups DEF Check, Streaming
  <2> QED
    BY <2>1, <2>2
<1>27. CASE Stop
  <2>1. ~Streaming'
    BY <1>27 DEF Stop, CloseSocket, Streaming
  <2> QED
    BY <2>1 DEF Groups
<1>28. CASE UNCHANGED vars
  BY <1>28, Constants, UnreadGroups DEF vars, Streaming
<1> QED
  BY <1>1, <1>2, <1>3, <1>4, <1>5, <1>6, <1>7, <1>8, <1>9, <1>10, <1>11, <1>12, <1>13,
     <1>14, <1>15, <1>16, <1>17, <1>18, <1>19, <1>20, <1>21, <1>22, <1>23, <1>24, <1>25,
     <1>26, <1>27, <1>28
     DEF Next, CollectorStep, LockedStep, SenderStep, SenderLocks, Threads

-----------------------------------------------------------------------------
(* The theorems.                                                           *)

IInv == Placed /\ Sockets /\ Built /\ StreamOK /\ Exposed /\ Groups

LEMMA Invariance == Spec => []IInv
<1>1. Init => IInv
  BY PlacedInit, SocketsInit, BuiltInit, StreamInit, ExposedInit, GroupsInit DEF IInv
<1>2. IInv /\ [Next]_vars => IInv'
  <2> SUFFICES ASSUME IInv, [Next]_vars PROVE IInv'
    OBVIOUS
  <2>1. Placed /\ Sockets /\ Built /\ StreamOK /\ Exposed /\ Groups
    BY DEF IInv
  <2>2. Placed' /\ Sockets' /\ Built'
    BY <2>1, PlacedStep, SocketsStep, BuiltStep
  <2>3. Goes
    BY <2>1, StreamStep
  <2>4. StreamOK'
    BY <2>3 DEF Goes
  <2>5. Exposed'
    BY <2>1, <2>3, ExposedStep
  <2>6. Groups'
    BY <2>1, GroupsStep
  <2> QED
    BY <2>2, <2>4, <2>5, <2>6 DEF IInv
<1> QED
  BY <1>1, <1>2, PTL DEF Spec

\* The variables keep their types: the indices stay inside of the ring through commits, growth
\* and the reset without the mutex, and the mutex is held by the thread that builds.
THEOREM TypeCorrect == Spec => []TypeOK
<1>1. IInv => TypeOK
  BY DEF IInv, Placed, StreamOK, TypeOK
<1> QED
  BY <1>1, Invariance, PTL

\* sender_commit, attempt_to_send and the flush: the parent reads whole messages.
THEOREM StreamStaysWhole == Spec => []StreamIsWhole
<1>1. IInv => StreamIsWhole
  <2> SUFFICES ASSUME IInv, Streaming
               PROVE  LET s == Content(ring) IN
                      /\ \A k \in DOMAIN s : s[k] \in Lines
                      /\ \A k \in 0 .. Len(s), c \in Charts, v \in Versions :
                           Begins(k, c, v) <=> k < Len(s) /\ s[k + 1] = Line("DIMENSION", c, v)
    BY DEF StreamIsWhole
  <2> DEFINE s == Content(ring)
  <2>1. s \in Seq(Lines) /\ Whole(parent.half, s)
    BY DEF IInv, StreamOK
  <2>2. \A k \in 0 .. Len(s), c \in Charts, v \in Versions :
          Begins(k, c, v) <=> k < Len(s) /\ s[k + 1] = Line("DIMENSION", c, v)
    BY <2>1 DEF Whole, Starts, Begins
  <2>3. \A k \in DOMAIN s : s[k] \in Lines
    BY <2>1, ElementOfSeq, LenProperties
  <2> QED
    BY <2>2, <2>3
<1> QED
  BY <1>1, Invariance, PTL

\* rrdset_done_push and the reset of the charts: a chart is marked as exposed only while its
\* definition is sent, about to be, or accounted for.
THEOREM ExposureIsTrue == Spec => []ExposedIsSent
<1>1. IInv => ExposedIsSent
  <2> SUFFICES ASSUME IInv, connected, NEW c \in Charts, flag[c]
               PROVE  \/ <<c, version[c]>> \in parent.defined
                      \/ \E k \in 0 .. Used(ring) : Begins(k, c, version[c])
                      \/ \E t \in Threads : mutex = t /\ chart[t] = c
                      \/ <<"cancelled", c>> \in excused \/ overflow
    BY DEF ExposedIsSent
  <2>1. Streaming /\ IsReset(c)
    BY DEF IInv, Sockets, Resetting, Streaming, IsReset
  <2>2. /\ <<"refused", c>> \in excused => overflow
        /\ \/ Sent(parent, Content(ring), Used(ring), c, version[c])
           \/ BeingDefined(c)
           \/ <<"cancelled", c>> \in excused \/ <<"refused", c>> \in excused
    BY <2>1 DEF IInv, Exposed
  <2>3. BeingDefined(c) => \E t \in Threads : mutex = t /\ chart[t] = c
    BY DEF BeingDefined
  <2> QED
    BY <2>2, <2>3 DEF Sent, Starts, Begins
<1> QED
  BY <1>1, Invariance, PTL

\* rrdpush_send_chart_metrics_nolock: values follow their definition, or it was lost.
THEOREM DefinedBeforeValues == Spec => []ValuesAfterDefinition
<1>1. IInv => ValuesAfterDefinition
  <2> DEFINE s == Content(ring)
  <2> SUFFICES ASSUME IInv, Streaming, NEW k \in DOMAIN s, s[k].line = "SET"
               PROVE  \/ <<s[k].chart, s[k].version>> \in parent.defined
                      \/ \E j \in 0 .. k - 1 : Begins(j, s[k].chart, s[k].version)
                      \/ \E reason \in Excuses : <<reason, s[k].chart>> \in excused
    BY DEF ValuesAfterDefinition
  <2>1. s \in Seq(Lines) /\ Ordered(parent, s)
    BY DEF IInv, StreamOK, Groups
  <2>2. k \in 1 .. Len(s)
    BY <2>1, LenProperties
  <2> QED
    BY <2>1, <2>2 DEF Ordered, Sent, Starts, Begins, Lost
<1> QED
  BY <1>1, Invariance, PTL
=============================================================================
