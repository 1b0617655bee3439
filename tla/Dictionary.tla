----------------------------- MODULE Dictionary -----------------------------
(***************************************************************************)
(* netdata's libnetdata/dictionary/dictionary.c: a hash index and a linked *)
(* list of reference-counted items, used by several threads (a master      *)
(* dictionary; set, get, dup, release, del, entries, and the three modes   *)
(* of foreach).                                                            *)
(*                                                                         *)
(* Each of index and list has a read/write lock; reference counts, flags   *)
(* and counters are changed by atomic instructions under no lock.  A step  *)
(* is one such instruction, or a stretch in which nothing but a locked     *)
(* part, or an item nobody else can reach, is used.  The refcount and the  *)
(* flag that check_and_acquire reads are read in one step: the flag is     *)
(* never taken back, so a swap that succeeds would have succeeded with     *)
(* both read at the time of the first.  Values are left out.               *)
(***************************************************************************)
EXTENDS Integers, Sequences, FiniteSets

CONSTANTS
  Threads,
  Names,
  MaxItems,   \* bound: items ever created
  MaxCalls    \* bound: calls of each kind, per thread

CallNames == {"set", "get", "del", "dup", "entries", "start"}

ASSUME ThreadsAssumption == IsFiniteSet(Threads)
ASSUME BoundsAreNat == MaxItems \in Nat /\ MaxCalls \in [Threads -> [CallNames -> Nat]]

VARIABLES
  index, list,                   \* the hash table and the linked list
  refcount, marked,              \* per item; those with ITEM_FLAG_DELETED
  allocated, freed,              \* how many items were created, which are freed
  entries, referenced, pending,  \* the dictionary's counters
  indexLock, listLock,           \* per thread: "no", "r" or "w"
  pc, op,                        \* per thread: the next step, the call it is in
  at, it,                        \* item pointers: the one examined, the one to delete
  gc,                            \* is the thread in garbage_collect_pending_deletes?
  seen, saw, mine,               \* locals: a refcount read, the flag read by
                                 \* item_release, and by the caller before it
  slot,                          \* the references that a thread owns
  walk,                          \* mode of the thread's foreach, or "no"
  calls,
  owed,                          \* history: what a foreach still has to hand out
  raced                          \* history: a deletion was miscounted

tables == <<index, list, allocated, freed>>
counters == <<entries, referenced, pending>>
locks == <<indexLock, listLock>>
locals == <<at, it, gc, seen, saw, mine>>
ghosts == <<owed, raced>>
vars == <<tables, refcount, marked, counters, locks, pc, op, locals, slot, walk, calls, ghosts>>

Items == 1..MaxItems
None == 0
Deleting == -100          \* REFCOUNT_DELETING
Slots == {"held", "cur", "next", "gc"}
Refs == Threads \X Slots

\* The references to item i that some thread owns.
Holders(i) == {r \in Refs : slot[r] = i}
Indexed == {index[n] : n \in Names} \ {None}
Listed == {list[k] : k \in DOMAIN list}

Idle(t) == pc[t] = "idle"
Deletes(t) == op[t] = "del"

Init ==
  /\ index = [n \in Names |-> None] /\ list = <<>>
  /\ refcount = [i \in Items |-> 0] /\ marked = {}
  /\ allocated = 0 /\ freed = {}
  /\ entries = 0 /\ referenced = 0 /\ pending = 0
  /\ indexLock = [t \in Threads |-> "no"] /\ listLock = [t \in Threads |-> "no"]
  /\ pc = [t \in Threads |-> "idle"] /\ op = [t \in Threads |-> "none"]
  /\ at = [t \in Threads |-> None] /\ it = [t \in Threads |-> None]
  /\ gc = [t \in Threads |-> FALSE]
  /\ seen = [t \in Threads |-> 0]
  /\ saw = [t \in Threads |-> FALSE] /\ mine = [t \in Threads |-> FALSE]
  /\ slot = [r \in Refs |-> None]
  /\ walk = [t \in Threads |-> "no"]
  /\ calls = [t \in Threads |-> [c \in CallNames |-> 0]]
  /\ owed = [t \in Threads |-> {}] /\ raced = FALSE

-----------------------------------------------------------------------------
(* Locks, pointers and continuations.                                      *)

CanRead(lock, t) == \A u \in Threads : u # t => lock[u] # "w"
CanWrite(lock, t) == \A u \in Threads : u # t => lock[u] = "no"

Take(lock, t, mode) == [lock EXCEPT ![t] = mode]
Drop(lock, t) == [lock EXCEPT ![t] = "no"]

\* The list lock is recursive for its writer: within a write foreach it is kept.
DropNested(t) == IF walk[t] = "w" THEN listLock ELSE Drop(listLock, t)

\* Mutant: the lock of a reentrant foreach is kept.
KeepReentrant(t) == [listLock EXCEPT ![t] = @]

\* A reentrant foreach keeps no lock between its steps.
DropReentrant(t) == IF walk[t] = "z" THEN Drop(listLock, t) ELSE listLock

Goto(t, label) ==
  /\ pc' = [pc EXCEPT ![t] = label]
  /\ op' = IF label = "idle" THEN [op EXCEPT ![t] = "none"] ELSE op

Call(t, name, label) ==
  /\ pc' = [pc EXCEPT ![t] = label] /\ op' = [op EXCEPT ![t] = name]
  /\ calls[t][name] < MaxCalls[t][name]
  /\ calls' = [calls EXCEPT ![t][name] = @ + 1]

\* The list pointer after item i, or the first one.
Follows(k, i) == IF i = None THEN k = 1 ELSE k > 1 /\ list[k-1] = i
Successor(i) ==
  IF \E k \in DOMAIN list : Follows(k, i)
  THEN list[CHOOSE k \in DOMAIN list : Follows(k, i)] ELSE None

\* The list without item i.
Unlinked(i) ==
  [k \in 1..(Len(list) - 1) |-> IF \E j \in 1..k : list[j] = i THEN list[k+1] ELSE list[k]]

\* Mutant: an item in use is removed.
RemovedWithOneUser(i) == refcount[i] \in 0..1

\* A swap of a refcount of 0 for REFCOUNT_DELETING.
CanBeRemoved(i) == refcount[i] = 0

\* Mutant: a refcount that changed since it was read is overwritten.
StoresAnyway(t) == t \in Threads

\* A swap of the refcount that was read for the next one.
Swaps(t) == refcount[at[t]] = seen[t]

\* In which slot the item goes that the thread is about to acquire or release.
Acquires(t) ==
  IF gc[t] THEN "gc"
  ELSE IF op[t] = "start" THEN "cur" ELSE IF op[t] = "next" THEN "next" ELSE "held"
Releases(t) == IF gc[t] THEN "gc" ELSE IF op[t] = "release" THEN "held" ELSE "cur"

\* What follows a collection, and what follows a release.
AfterGc(t) == IF op[t] \in {"set", "entries"} THEN "idle" ELSE "free"
AfterRelease(t) ==
  IF gc[t] THEN "advance"
  ELSE IF op[t] = "release" THEN "idle" ELSE IF mine[t] THEN "try" ELSE "on"

\* Mutant: a foreach does not get past a deleted item.
StopsAtDeleted(t) == IF op[t] \in {"get", "start"} /\ ~gc[t] THEN "idle" ELSE "advance"

\* ... a refusal: a get finds nothing, a set spins, the others try the next item.
AfterRefusal(t) ==
  IF gc[t] THEN "advance"
  ELSE IF op[t] = "get" THEN "idle" ELSE IF op[t] = "set" THEN "load" ELSE "advance"
ReleaseCurrent(t) == IF walk[t] = "w" THEN "peek" ELSE "flag"

-----------------------------------------------------------------------------
(* The calls.                                                              *)

\* A foreach in read mode must not be left for a call that alters the dictionary.
MayAlter(t) == Idle(t) /\ walk[t] # "r"

\* item_add_or_reset_value_and_acquire of a name that is not in the index.
SetNew(t, n) ==
  /\ MayAlter(t) /\ slot[<<t, "held">>] = None
  /\ CanWrite(indexLock, t) /\ index[n] = None
  /\ allocated < MaxItems
  /\ allocated' = allocated + 1
  /\ index' = [index EXCEPT ![n] = allocated']
  /\ refcount' = [refcount EXCEPT ![allocated'] = 1]
  /\ slot' = [slot EXCEPT ![<<t, "held">>] = allocated']
  /\ it' = [it EXCEPT ![t] = allocated']
  /\ entries' = entries + 1 /\ referenced' = referenced + 1
  /\ Call(t, "set", "link")
  /\ UNCHANGED <<list, freed, marked, pending, locks, at, gc, seen, saw, mine, walk, ghosts>>

\* ... and of one that is.
SetFound(t, n) ==
  /\ MayAlter(t) /\ slot[<<t, "held">>] = None
  /\ CanWrite(indexLock, t) /\ index[n] # None
  /\ indexLock' = Take(indexLock, t, "w")
  /\ at' = [at EXCEPT ![t] = index[n]]
  /\ Call(t, "set", "load")
  /\ UNCHANGED <<tables, refcount, marked, counters, listLock, it, gc, seen, saw, mine, slot,
                 walk, ghosts>>

\* item_find_and_acquire; a name that is not in the index changes nothing.
Get(t, n) ==
  /\ Idle(t) /\ slot[<<t, "held">>] = None
  /\ CanRead(indexLock, t) /\ index[n] # None
  /\ indexLock' = Take(indexLock, t, "r")
  /\ at' = [at EXCEPT ![t] = index[n]]
  /\ Call(t, "get", "load")
  /\ UNCHANGED <<tables, refcount, marked, counters, listLock, it, gc, seen, saw, mine, slot,
                 walk, ghosts>>

\* Mutant: the name stays in the index.
DelMarksOnly(t, n) ==
  /\ MayAlter(t) /\ index[n] # None
  /\ walk[t] = "w" => index[n] = slot[<<t, "cur">>]
  /\ CanWrite(indexLock, t)
  /\ it' = [it EXCEPT ![t] = index[n]]
  /\ owed' = [u \in Threads |-> owed[u] \ {index[n]}]
  /\ Call(t, "del", "delCas")
  /\ UNCHANGED <<tables, refcount, marked, counters, locks, at, gc, seen, saw, mine, slot, walk,
                 raced>>

\* item_del: within a write foreach, of its current item only.
Del(t, n) ==
  /\ MayAlter(t) /\ index[n] # None
  /\ walk[t] = "w" => index[n] = slot[<<t, "cur">>]
  /\ CanWrite(indexLock, t)
  /\ it' = [it EXCEPT ![t] = index[n]]
  /\ index' = [index EXCEPT ![n] = None]
  /\ owed' = [u \in Threads |-> owed[u] \ {index[n]}]
  /\ Call(t, "del", "delCas")
  /\ UNCHANGED <<list, allocated, freed, refcount, marked, counters, locks, at, gc, seen, saw,
                 mine, slot, walk, raced>>

\* dictionary_acquired_item_dup, of an item held or the current one, for any thread.
Dup(t, s, u) ==
  LET i == slot[<<t, s>>] IN
  /\ Idle(t) /\ i # None
  /\ Idle(u) /\ slot[<<u, "held">>] = None
  /\ refcount' = [refcount EXCEPT ![i] = @ + 1]
  /\ slot' = [slot EXCEPT ![<<u, "held">>] = i]
  /\ referenced' = IF refcount[i] = 0 THEN referenced + 1 ELSE referenced
  /\ pending' = IF refcount[i] = 0 /\ i \in marked THEN pending - 1 ELSE pending
  /\ calls[t]["dup"] < MaxCalls[t]["dup"]
  /\ calls' = [calls EXCEPT ![t]["dup"] = @ + 1]
  /\ UNCHANGED <<tables, marked, entries, locks, pc, op, locals, walk, ghosts>>

\* dictionary_acquired_item_release
Release(t) ==
  /\ Idle(t) /\ slot[<<t, "held">>] # None
  /\ pc' = [pc EXCEPT ![t] = "flag"] /\ op' = [op EXCEPT ![t] = "release"]
  /\ UNCHANGED <<tables, refcount, marked, counters, locks, locals, slot, walk, calls, ghosts>>

\* dictionary_entries and dictionary_version, when there is something to collect.
Entries(t) ==
  /\ MayAlter(t) /\ pending > 0
  /\ Call(t, "entries", "gcLock")
  /\ UNCHANGED <<tables, refcount, marked, counters, locks, locals, slot, walk, ghosts>>

\* dictionary_foreach_start_rw
WalkStart(t, mode) ==
  /\ Idle(t) /\ walk[t] = "no"
  /\ IF mode = "w" THEN CanWrite(listLock, t) ELSE CanRead(listLock, t)
  /\ listLock' = Take(listLock, t, IF mode = "w" THEN "w" ELSE "r")
  /\ walk' = [walk EXCEPT ![t] = mode]
  /\ owed' = [owed EXCEPT ![t] = Indexed \cap Listed]
  /\ Call(t, "start", "advance")
  /\ UNCHANGED <<tables, refcount, marked, counters, indexLock, locals, slot, raced>>

\* dictionary_foreach_next
WalkNext(t) ==
  /\ Idle(t) /\ walk[t] # "no" /\ slot[<<t, "cur">>] # None
  /\ IF walk[t] = "z"
     THEN CanRead(listLock, t) /\ listLock' = Take(listLock, t, "r")
     ELSE UNCHANGED listLock
  /\ at' = [at EXCEPT ![t] = slot[<<t, "cur">>]]
  /\ pc' = [pc EXCEPT ![t] = "advance"] /\ op' = [op EXCEPT ![t] = "next"]
  /\ UNCHANGED <<tables, refcount, marked, counters, indexLock, it, gc, seen, saw, mine, slot,
                 walk, calls, ghosts>>

\* dictionary_foreach_done
WalkDone(t) ==
  /\ Idle(t) /\ walk[t] # "no"
  /\ pc' = [pc EXCEPT ![t] = IF slot[<<t, "cur">>] = None THEN "on" ELSE ReleaseCurrent(t)]
  /\ op' = [op EXCEPT ![t] = "done"]
  /\ UNCHANGED <<tables, refcount, marked, counters, locks, locals, slot, walk, calls, ghosts>>

-----------------------------------------------------------------------------
(* item_check_and_acquire_advanced, and the loops over the list around it. *)

\* It reads refcount and flag: the item cannot be used, or the swap is tried.
Load(t) ==
  LET i == at[t]
      usable == refcount[i] >= 0 /\ i \notin marked
  IN
  /\ pc[t] = "load"
  /\ seen' = [seen EXCEPT ![t] = IF usable THEN refcount[i] ELSE 0]
  /\ IF usable THEN Goto(t, "cas")
     ELSE Goto(t, IF gc[t] /\ refcount[i] >= 0 THEN "gcTry" ELSE AfterRefusal(t))
  /\ IF ~usable /\ op[t] = "get"
     THEN indexLock' = Drop(indexLock, t) /\ at' = [at EXCEPT ![t] = None]
     ELSE UNCHANGED <<indexLock, at>>
  /\ UNCHANGED <<tables, refcount, marked, counters, listLock, it, gc, saw, mine, slot, walk,
                 calls, ghosts>>

\* The swap fails when the refcount is not the one read.
CasFails(t) ==
  /\ pc[t] = "cas" /\ ~Swaps(t)
  /\ Goto(t, "load")
  /\ seen' = [seen EXCEPT ![t] = 0]
  /\ UNCHANGED <<tables, refcount, marked, counters, locks, at, it, gc, saw, mine, slot, walk,
                 calls, ghosts>>

\* The item is acquired.
Cas(t) ==
  LET i == at[t] IN
  /\ pc[t] = "cas" /\ Swaps(t)
  /\ refcount' = [refcount EXCEPT ![i] = seen[t] + 1]
  /\ slot' = [slot EXCEPT ![<<t, Acquires(t)>>] = i]
  /\ referenced' = IF seen[t] = 0 THEN referenced + 1 ELSE referenced
  /\ raced' = (raced \/ (seen[t] = 0 /\ i \in marked))
  /\ seen' = [seen EXCEPT ![t] = 0]
  /\ at' = IF gc[t] THEN at ELSE [at EXCEPT ![t] = None]
  /\ IF gc[t] THEN Goto(t, "flag")
     ELSE Goto(t, IF op[t] = "next" THEN ReleaseCurrent(t) ELSE "idle")
  /\ indexLock' = IF gc[t] THEN indexLock ELSE Drop(indexLock, t)
  /\ listLock' = IF ~gc[t] /\ op[t] = "start" THEN DropReentrant(t) ELSE listLock
  /\ owed' = IF ~gc[t] /\ op[t] = "start" THEN [owed EXCEPT ![t] = @ \ {i}] ELSE owed
  /\ UNCHANGED <<tables, marked, entries, pending, it, gc, saw, mine, walk, calls>>

\* garbage_collect_pending_deletes goes to item i, or returns when there is none.
Collect(t, i) ==
  /\ at' = [at EXCEPT ![t] = i]
  /\ gc' = [gc EXCEPT ![t] = (i # None)]
  /\ listLock' = IF i = None THEN DropNested(t) ELSE listLock
  /\ Goto(t, IF i = None THEN AfterGc(t) ELSE "load")

\* The next item of the list, for the collection or for the foreach.
Advance(t) ==
  LET i == Successor(at[t]) IN
  /\ pc[t] = "advance"
  /\ IF gc[t] THEN Collect(t, i)
     ELSE /\ at' = [at EXCEPT ![t] = i]
          /\ Goto(t, IF i # None THEN "load"
                     ELSE IF op[t] = "start" THEN "idle" ELSE ReleaseCurrent(t))
          /\ listLock' = IF i = None /\ op[t] = "start" THEN DropReentrant(t) ELSE listLock
          /\ UNCHANGED gc
  /\ UNCHANGED <<tables, refcount, marked, counters, indexLock, it, seen, saw, mine, slot, walk,
                 calls, ghosts>>

\* The collection frees a marked item that nobody references.
GcTry(t) ==
  LET i == at[t] IN
  /\ pc[t] = "gcTry"
  /\ IF CanBeRemoved(i)
     THEN /\ refcount' = [refcount EXCEPT ![i] = Deleting]
          /\ list' = Unlinked(i)
          /\ freed' = freed \cup {i}
          /\ pending' = pending - 1
          /\ Collect(t, IF pending' = 0 THEN None ELSE Successor(i))
     ELSE /\ Collect(t, Successor(i))
          /\ UNCHANGED <<refcount, list, freed, pending>>
  /\ UNCHANGED <<index, allocated, marked, entries, referenced, indexLock, it, seen, saw, mine,
                 slot, walk, calls, ghosts>>

GcLock(t) ==
  /\ pc[t] = "gcLock" /\ CanWrite(listLock, t)
  /\ listLock' = Take(listLock, t, "w")
  /\ gc' = [gc EXCEPT ![t] = TRUE]
  /\ Goto(t, "advance")
  /\ UNCHANGED <<tables, refcount, marked, counters, indexLock, at, it, seen, saw, mine, slot,
                 walk, calls, ghosts>>

-----------------------------------------------------------------------------
(* item_release, and what a foreach does after it.                         *)

\* In write mode the flag is read once more, before item_release.
Peek(t) ==
  LET i == slot[<<t, "cur">>] IN
  /\ pc[t] = "peek"
  /\ mine' = [mine EXCEPT ![t] = (i \in marked)]
  /\ it' = [it EXCEPT ![t] = IF i \in marked THEN i ELSE None]
  /\ Goto(t, "flag")
  /\ UNCHANGED <<tables, refcount, marked, counters, locks, at, gc, seen, saw, slot, walk,
                 calls, ghosts>>

ReadFlag(t) ==
  /\ pc[t] = "flag"
  /\ saw' = [saw EXCEPT ![t] = (slot[<<t, Releases(t)>>] \in marked)]
  /\ Goto(t, "dec")
  /\ UNCHANGED <<tables, refcount, marked, counters, locks, at, it, gc, seen, mine, slot, walk,
                 calls, ghosts>>

\* The item must not be touched from here on.
Decrement(t) ==
  LET i == slot[<<t, Releases(t)>>] IN
  /\ pc[t] = "dec"
  /\ refcount' = [refcount EXCEPT ![i] = @ - 1]
  /\ slot' = [slot EXCEPT ![<<t, Releases(t)>>] = None]
  /\ Goto(t, IF refcount[i] = 1 THEN "count" ELSE AfterRelease(t))
  /\ raced' = (raced \/ (refcount[i] = 1 /\ ~saw[t] /\ i \in marked))
  /\ UNCHANGED <<tables, marked, counters, locks, locals, walk, calls, owed>>

\* Mutant: the last release of a deleted item leaves it uncounted.
CountsNothingPending(t) ==
  /\ pc[t] = "count"
  /\ referenced' = referenced - 1
  /\ saw' = [saw EXCEPT ![t] = FALSE]
  /\ Goto(t, AfterRelease(t))
  /\ UNCHANGED <<tables, refcount, marked, entries, pending, locks, at, it, gc, seen, mine, slot,
                 walk, calls, ghosts>>

Count(t) ==
  /\ pc[t] = "count"
  /\ pending' = IF saw[t] THEN pending + 1 ELSE pending
  /\ referenced' = referenced - 1
  /\ saw' = [saw EXCEPT ![t] = FALSE]
  /\ Goto(t, AfterRelease(t))
  /\ UNCHANGED <<tables, refcount, marked, entries, locks, at, it, gc, seen, mine, slot, walk,
                 calls, ghosts>>

\* A write foreach removes an item that was marked when it released it.
Try(t) ==
  LET i == it[t] IN
  /\ pc[t] = "try"
  /\ mine' = [mine EXCEPT ![t] = FALSE]
  /\ IF CanBeRemoved(i)
     THEN /\ refcount' = [refcount EXCEPT ![i] = Deleting]
          /\ pending' = pending - 1
          /\ Goto(t, "unlink") /\ UNCHANGED it
     ELSE /\ Goto(t, "on") /\ it' = [it EXCEPT ![t] = None]
          /\ UNCHANGED <<refcount, pending>>
  /\ UNCHANGED <<tables, marked, entries, referenced, locks, at, gc, seen, saw, slot, walk,
                 calls, ghosts>>

\* The foreach hands out the item it acquired, or ends.
On(t) ==
  /\ pc[t] = "on"
  /\ Goto(t, "idle")
  /\ IF op[t] = "next"
     THEN /\ slot' = [slot EXCEPT ![<<t, "cur">>] = slot[<<t, "next">>], ![<<t, "next">>] = None]
          /\ owed' = [owed EXCEPT ![t] = @ \ {slot[<<t, "next">>]}]
          /\ listLock' = DropReentrant(t)
          /\ UNCHANGED walk
     ELSE /\ walk' = [walk EXCEPT ![t] = "no"]
          /\ owed' = [owed EXCEPT ![t] = {}]
          /\ listLock' = Drop(listLock, t)
          /\ UNCHANGED slot
  /\ UNCHANGED <<tables, refcount, marked, counters, indexLock, locals, calls, raced>>

-----------------------------------------------------------------------------
(* item_linked_list_add and _remove, and the rest of a deletion.           *)

\* With the list locked, the collection starts if something is pending.
LinkAndCollect(t, newList, after) ==
  /\ CanWrite(listLock, t) /\ listLock[t] # "r"
  /\ list' = newList
  /\ IF pending > 0
     THEN /\ listLock' = Take(listLock, t, "w")
          /\ gc' = [gc EXCEPT ![t] = TRUE]
          /\ Goto(t, "advance")
     ELSE Goto(t, after) /\ UNCHANGED <<listLock, gc>>

Link(t) ==
  /\ pc[t] = "link"
  /\ LinkAndCollect(t, Append(list, it[t]), "idle")
  /\ it' = [it EXCEPT ![t] = None]
  /\ UNCHANGED <<index, allocated, freed, refcount, marked, counters, indexLock, at, seen, saw,
                 mine, slot, walk, calls, ghosts>>

Unlink(t) ==
  /\ pc[t] = "unlink"
  /\ LinkAndCollect(t, Unlinked(it[t]), "free")
  /\ UNCHANGED <<index, allocated, freed, refcount, marked, counters, indexLock, at, it, seen,
                 saw, mine, slot, walk, calls, ghosts>>

\* Mutant: an item that a foreach removes is taken off the entries again.
FreeEntryTwice(t) ==
  /\ pc[t] = "free"
  /\ freed' = freed \cup {it[t]}
  /\ it' = [it EXCEPT ![t] = None]
  /\ entries' = entries - 1
  /\ Goto(t, IF op[t] = "del" THEN "idle" ELSE "on")
  /\ UNCHANGED <<index, list, allocated, refcount, marked, referenced, pending, locks, at, gc,
                 seen, saw, mine, slot, walk, calls, ghosts>>

\* item_free_with_hooks
Free(t) ==
  /\ pc[t] = "free"
  /\ freed' = freed \cup {it[t]}
  /\ it' = [it EXCEPT ![t] = None]
  /\ entries' = IF op[t] = "del" THEN entries - 1 ELSE entries
  /\ Goto(t, IF op[t] = "del" THEN "idle" ELSE "on")
  /\ UNCHANGED <<index, list, allocated, refcount, marked, referenced, pending, locks, at, gc,
                 seen, saw, mine, slot, walk, calls, ghosts>>

\* item_free_or_mark_deleted
DelCas(t) ==
  /\ pc[t] = "delCas"
  /\ IF CanBeRemoved(it[t])
     THEN refcount' = [refcount EXCEPT ![it[t]] = Deleting] /\ Goto(t, "unlink")
     ELSE UNCHANGED refcount /\ Goto(t, "delMark")
  /\ UNCHANGED <<tables, marked, counters, locks, locals, slot, walk, calls, ghosts>>

DelMark(t) ==
  /\ pc[t] = "delMark"
  /\ marked' = marked \cup {it[t]}
  /\ it' = [it EXCEPT ![t] = None]
  /\ entries' = entries - 1
  /\ raced' = (raced \/ refcount[it[t]] = 0)
  /\ Goto(t, "idle")
  /\ UNCHANGED <<tables, refcount, referenced, pending, locks, at, gc, seen, saw, mine, slot,
                 walk, calls, owed>>

-----------------------------------------------------------------------------
\* A step of a call under way.
Continue(t) ==
  \/ Load(t) \/ CasFails(t) \/ Cas(t) \/ Advance(t) \/ GcTry(t) \/ GcLock(t)
  \/ Peek(t) \/ ReadFlag(t) \/ Decrement(t) \/ Count(t) \/ Try(t) \/ On(t)
  \/ Link(t) \/ Unlink(t) \/ Free(t) \/ DelCas(t) \/ DelMark(t)

Begin(t) ==
  \/ \E n \in Names : SetNew(t, n) \/ SetFound(t, n) \/ Get(t, n) \/ Del(t, n)
  \/ \E u \in Threads, s \in {"held", "cur"} : Dup(t, s, u)
  \/ Entries(t) \/ Release(t)
  \/ \E mode \in {"r", "w", "z"} : WalkStart(t, mode)
  \/ WalkNext(t) \/ WalkDone(t)

Next == \E t \in Threads : Begin(t) \/ Continue(t)

Spec == Init /\ [][Next]_vars

\* The scheduler runs every thread, and a caller ends the foreach it is in.
FairSpec == Spec /\ \A t \in Threads : WF_vars(Continue(t)) /\ WF_vars(WalkDone(t))

-----------------------------------------------------------------------------
(* Properties.                                                             *)

\* The items that the next step of thread t reads or writes.
Touches(t) ==
  (CASE pc[t] \in {"load", "cas", "gcTry"} -> {at[t]}
     [] pc[t] \in {"try", "delCas", "delMark", "link", "unlink", "free"} -> {it[t]}
     [] pc[t] = "advance" -> {at[t], Successor(at[t])}
     [] pc[t] = "peek" -> {slot[<<t, "cur">>]}
     [] pc[t] \in {"flag", "dec"} -> {slot[<<t, Releases(t)>>]}
     [] OTHER -> {}) \ {None}

\* No thread uses an item that was freed: neither one it owns a reference to, nor one it
\* has found in the index or the list, nor one it deletes (dictionary.c:783 gives the
\* order of two reads in item_release for this reason).
NoUseAfterFree ==
  \A t \in Threads :
    /\ Touches(t) \cap freed = {}
    /\ \A s \in Slots : slot[<<t, s>>] \notin freed

\* A reference count is the number of references that threads own.
RefcountIsHolders ==
  \A i \in Items \ freed : refcount[i] # Deleting => refcount[i] = Cardinality(Holders(i))

\* An item that is in the index is neither marked nor being deleted: a set that finds it
\* never spins with the index locked (dictionary.c:1382), and a get never misses it.
IndexedIsUsable == \A i \in Indexed : i \notin marked /\ refcount[i] >= 0

\* entries is what is in the index and what is on its way out of it, so it is never
\* negative (dictionary.c:292 exits the process when it is), and referenced_items counts
\* the items with references.
CountersExact ==
  /\ entries = Cardinality(Indexed) + Cardinality({t \in Threads : Deletes(t)})
  /\ referenced = Cardinality({i \in Items : refcount[i] > 0})
                  + Cardinality({t \in Threads : pc[t] = "count"})

\* With no call under way the list is what is indexed and what is marked and not freed;
\* and, unless a deletion overlapped an acquire or a release of its item in a way that
\* miscounts it, pending_deletion_items is the number of those without references.
GarbageIsCounted ==
  (\A t \in Threads : Idle(t)) =>
    /\ Listed = Indexed \cup (marked \ freed)
    /\ ~raced => pending = Cardinality({i \in marked \ freed : refcount[i] = 0})

\* A foreach that came to its end handed out each item that was in the dictionary when it
\* started and was not deleted since, whatever was added, deleted and collected meanwhile.
WalkMissesNothing ==
  \A t \in Threads :
    Idle(t) /\ walk[t] # "no" /\ slot[<<t, "cur">>] = None => owed[t] = {}

\* Every call returns: no thread waits for a lock or spins for ever.
CallsReturn == \A t \in Threads : ~Idle(t) ~> Idle(t)

=============================================================================
