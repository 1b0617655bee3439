--------------------------- MODULE CircularBuffer ---------------------------
(***************************************************************************)
(* libnetdata/circular_buffer/circular_buffer.c: a ring of bytes that       *)
(* doubles up to max_size when what is added does not fit.                  *)
(*                                                                         *)
(* A ring is a record [data, size, read, write], and these operators are    *)
(* the functions of the file.  The loop of cbuffer_add_unsafe is            *)
(* Reallocated while Fits is false and CanGrow true, then Appended; when    *)
(* neither holds the bytes are refused.  Bytes outside of the content are   *)
(* never read: here they are None.                                          *)
(***************************************************************************)
EXTENDS Integers, Sequences

CONSTANTS
  MaxSize,  \* max_size, the setting "buffer size bytes"
  None      \* a cell that holds nothing

ASSUME MaxSizeAssumption == MaxSize \in Nat \ {0}

\* The struct: the indices stay inside of the allocated bytes.
RingsOf(Bytes, n) ==
  [data : [0 .. n - 1 -> Bytes \cup {None}], size : {n}, read : 0 .. n - 1, write : 0 .. n - 1]
IsRing(r, Bytes) == r.size \in 1 .. MaxSize /\ r \in RingsOf(Bytes, r.size)

\* cbuffer_new
NewRing(initial) ==
  [data |-> [i \in 0 .. initial - 1 |-> None], size |-> initial, read |-> 0, write |-> 0]

\* An index that passed the end of the ring.
Wrapped(r, i) == IF i >= r.size THEN i - r.size ELSE i

\* How far cell i is after cell "from".
Distance(r, from, i) == IF i >= from THEN i - from ELSE r.size - from + i

Used(r) == Distance(r, r.read, r.write)

\* What the ring holds, in the order it was added.
Content(r) == [k \in 1 .. Used(r) |-> r.data[Wrapped(r, r.read + k - 1)]]

\* cbuffer_available_size_unsafe
Available(r) == MaxSize - Used(r)

\* cbuffer_next_unsafe: the length of the first contiguous part of the content.
NextChunk(r) == IF r.read <= r.write THEN r.write - r.read ELSE r.size - r.read

\* The condition of the loop in cbuffer_add_unsafe, and of cbuffer_realloc_unsafe.
Fits(r, n) == n + Used(r) < r.size
CanGrow(r) == r.size < MaxSize

\* cbuffer_realloc_unsafe: twice the size, the content at the bottom.
Reallocated(r) ==
  LET size == IF 2 * r.size > MaxSize THEN MaxSize ELSE 2 * r.size IN
  [data |-> [i \in 0 .. size - 1 |->
               IF i < Used(r) THEN r.data[Wrapped(r, r.read + i)] ELSE None],
   size |-> size, read |-> 0, write |-> Used(r)]

\* cbuffer_add_unsafe, once the bytes fit.
Appended(r, d) ==
  [r EXCEPT
     !.data = [i \in 0 .. r.size - 1 |->
                 IF Distance(r, r.write, i) < Len(d) THEN d[Distance(r, r.write, i) + 1]
                 ELSE r.data[i]],
     !.write = Wrapped(r, r.write + Len(d))]

\* cbuffer_remove_unsafe
Removed(r, n) ==
  [r EXCEPT
     !.data = [i \in 0 .. r.size - 1 |->
                 IF Distance(r, r.read, i) < n THEN None ELSE r.data[i]],
     !.read = Wrapped(r, r.read + n)]

=============================================================================
