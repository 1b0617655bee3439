-------------------------- MODULE Dictionary_proofs --------------------------
(***************************************************************************)
(* For every set of threads and names and any number of items and calls:   *)
(* the safety properties of Dictionary.  First where each thread is, what  *)
(* it holds and what it knows of its items, then the counters, the garbage *)
(* that is counted, and what a foreach has still to visit.                 *)
(***************************************************************************)
EXTENDS Dictionary, FiniteSetTheorems, TLAPS

-----------------------------------------------------------------------------
(* Where a thread is, and what it holds there.                             *)

Labels == {"idle", "load", "cas", "advance", "peek", "flag", "dec", "count", "try", "on",
           "link", "unlink", "free", "gcLock", "gcTry", "delCas", "delMark"}
Ops == {"none", "set", "get", "del", "release", "entries", "start", "next", "done"}

\* Items that exist, and pointers to them.
Made == 1 .. allocated
Known == Made \cup {None}

Types ==
  /\ allocated \in 0 .. MaxItems
  /\ index \in [Names -> Known] /\ list \in Seq(Made)
  /\ refcount \in [Items -> Int] /\ marked \subseteq Made /\ freed \subseteq Made
  /\ indexLock \in [Threads -> {"no", "r", "w"}]
  /\ listLock \in [Threads -> {"no", "r", "w"}]
  /\ pc \in [Threads -> Labels] /\ op \in [Threads -> Ops]
  /\ at \in [Threads -> Known] /\ it \in [Threads -> Known]
  /\ gc \in [Threads -> BOOLEAN] /\ mine \in [Threads -> BOOLEAN]
  /\ seen \in [Threads -> Nat]
  /\ slot \in [Refs -> Known]
  /\ walk \in [Threads -> {"no", "r", "w", "z"}]

\* A step is part of a call that can take it.
Control(t) ==
  /\ op[t] = "none" <=> pc[t] = "idle"
  /\ pc[t] = "gcLock" => op[t] = "entries" /\ ~gc[t]
  /\ pc[t] = "link" => op[t] = "set"
  /\ pc[t] \in {"delCas", "delMark"} => op[t] = "del"
  /\ pc[t] \in {"unlink", "free"} => op[t] \in {"del", "next", "done"}
  /\ pc[t] \in {"peek", "try", "on"} => op[t] \in {"next", "done"}
  /\ pc[t] = "advance" /\ ~gc[t] => op[t] \in {"start", "next"}
  /\ pc[t] \in {"load", "cas"} /\ ~gc[t] => op[t] \in {"set", "get", "start", "next"}
  /\ pc[t] \in {"flag", "dec", "count"} /\ ~gc[t] => op[t] \in {"release", "next", "done"}
  /\ pc[t] = "gcTry" => gc[t]
  /\ gc[t] => /\ pc[t] \in {"advance", "load", "cas", "gcTry", "flag", "dec", "count"}
              /\ op[t] \in {"set", "entries", "del", "next", "done"}

\* A lookup, a foreach on its way to the next item, and the removal of an item.
LooksUp(t) == op[t] \in {"set", "get"} /\ ~gc[t] /\ pc[t] \in {"load", "cas"}
Seeks(t) == op[t] \in {"start", "next"} /\ ~gc[t] /\ pc[t] \in {"load", "cas", "advance"}
Removes(t) ==
  \/ pc[t] \in {"delCas", "delMark", "unlink", "free"}
  \/ gc[t] /\ op[t] \in {"del", "next", "done"}

\* Who holds a lock.
Locked(t) ==
  /\ LooksUp(t) => indexLock[t] # "no"
  /\ walk[t] = "w" \/ gc[t] => listLock[t] = "w"
  /\ walk[t] = "r" \/ op[t] \in {"start", "next"} => listLock[t] # "no"

Walking(t) ==
  /\ op[t] \in {"start", "next", "done"} => walk[t] # "no"
  /\ op[t] \in {"set", "entries", "del"} => walk[t] # "r"
  /\ pc[t] \in {"peek", "try"} => walk[t] = "w"
  /\ Removes(t) /\ op[t] # "del" => walk[t] = "w"
  /\ pc[t] = "try" => mine[t]
  /\ mine[t] => /\ walk[t] = "w" /\ ~gc[t] /\ op[t] \in {"next", "done"}
                /\ pc[t] \in {"flag", "dec", "count", "try"}

\* Which references a thread owns.
Owns(t) ==
  /\ slot[<<t, "gc">>] # None <=> gc[t] /\ pc[t] \in {"flag", "dec"}
  /\ slot[<<t, "gc">>] # None => slot[<<t, "gc">>] = at[t]
  /\ slot[<<t, "next">>] # None => op[t] = "next" /\ ~Seeks(t)
  /\ slot[<<t, "cur">>] # None => walk[t] # "no" /\ op[t] # "start"
  /\ op[t] \in {"next", "done"} =>
       (slot[<<t, "cur">>] # None <=> Seeks(t) \/ (~gc[t] /\ pc[t] \in {"peek", "flag", "dec"}))
  /\ LooksUp(t) => slot[<<t, "held">>] = None
  /\ op[t] = "release" /\ pc[t] \in {"flag", "dec"} => slot[<<t, "held">>] # None
  /\ pc[t] = "link" => slot[<<t, "held">>] = it[t]

\* Which item pointers are set.
Points(t) ==
  /\ at[t] # None => gc[t] \/ LooksUp(t) \/ Seeks(t)
  /\ pc[t] \in {"load", "cas"} \/ (gc[t] /\ pc[t] # "advance") => at[t] # None
  /\ it[t] # None <=> pc[t] = "link" \/ Removes(t) \/ mine[t]

Flow(t) == Control(t) /\ Locked(t) /\ Walking(t) /\ Owns(t) /\ Points(t)

Exclusive ==
  \A t, u \in Threads : t # u =>
    /\ indexLock[t] = "w" => indexLock[u] = "no"
    /\ listLock[t] = "w" => listLock[u] = "no"

Placed == Types /\ Exclusive /\ \A t \in Threads : Flow(t)

LEMMA Bounds == MaxItems \in Nat /\ IsFiniteSet(Threads)
BY BoundsAreNat, ThreadsAssumption

\* Unlinking leaves a list of items, and a successor is in the list.
LEMMA Lists ==
  ASSUME NEW S, list \in Seq(S), NEW i
  PROVE  /\ Unlinked(i) \in Seq(S)
         /\ Successor(i) \in S \cup {None}
         /\ Successor(i) \in Listed \cup {None}
<1>1. list \in [1 .. Len(list) -> S] /\ Len(list) \in Nat /\ DOMAIN list = 1 .. Len(list)
  OBVIOUS
<1>2. Unlinked(i) \in Seq(S)
  <2>1. CASE Len(list) = 0
    <3>1. 1 .. (Len(list) - 1) = 1 .. 0
      BY <2>1
    <3>2. Unlinked(i) \in [1 .. 0 -> S]
      BY <3>1 DEF Unlinked
    <3> QED
      BY <3>2
  <2>2. CASE Len(list) # 0
    <3>1. Len(list) - 1 \in Nat
      BY <1>1, <2>2
    <3>2. Unlinked(i) \in [1 .. (Len(list) - 1) -> S]
      BY <1>1, <3>1 DEF Unlinked
    <3> QED
      BY <3>1, <3>2
  <2> QED
    BY <2>1, <2>2
<1>3. ASSUME NEW k \in DOMAIN list PROVE list[k] \in S /\ list[k] \in Listed
  BY <1>1 DEF Listed
<1> QED
  BY <1>2, <1>3 DEF Successor

LEMMA TypesStep ==
  ASSUME Placed, NEW t \in Threads, Begin(t) \/ Continue(t)
  PROVE  Types'
<1>a. Begin(t) \/ Continue(t)
  OBVIOUS
<1>f. pc[t] \in {"link", "free", "delMark"} => it[t] \in Made
  BY DEF Placed, Flow, Points, Removes, Types, Known
<1>p. pc[t] \in {"gcTry", "load", "cas"} => at[t] \in Made
  BY DEF Placed, Flow, Points, Control, Types, Known
<1>g. Types
  BY DEF Placed
<1>b. Made \subseteq Items
  BY <1>g, Bounds DEF Types, Made, Items
<1>l. \A i : Unlinked(i) \in Seq(Made) /\ Successor(i) \in Known
  BY <1>g, Lists DEF Types, Known
<1>r. ASSUME NEW i \in Items, NEW j \in Nat
      PROVE  [refcount EXCEPT ![i] = @ - 1] \in [Items -> Int] /\ [refcount EXCEPT ![i] = j + 1] \in [Items -> Int]
  BY <1>g DEF Types
<1>q. pc[t] = "dec" => Releases(t) \in Slots /\ slot[<<t, Releases(t)>>] \in Made
  BY DEF Placed, Flow, Owns, Control, Seeks, Releases, Types, Known, Refs, Slots
<1>n. <<t, "cur">> \in Refs /\ <<t, "next">> \in Refs
  BY DEF Refs, Slots
<1>o. [slot EXCEPT ![<<t, "cur">>] = slot[<<t, "next">>], ![<<t, "next">>] = None] \in [Refs -> Known]
  BY <1>g, <1>n DEF Types, Known
<1> USE <1>g DEF Types, Refs, Slots, Known, Made, tables, counters, locks, locals, ghosts, None
<1>1. ASSUME NEW n \in Names, SetNew(t, n) PROVE Types'
  BY <1>1, Bounds, Lists DEF SetNew, Call, MayAlter, Idle, Labels, Ops, Items
<1>2. ASSUME NEW n \in Names, SetFound(t, n) PROVE Types'
  BY <1>2, Bounds, Lists DEF SetFound, Call, MayAlter, Idle, Take, Drop, DropNested, DropReentrant, Labels, Ops, Items
<1>3. ASSUME NEW n \in Names, Get(t, n) PROVE Types'
  BY <1>3, Bounds, Lists DEF Get, Call, Idle, Take, Drop, DropNested, DropReentrant, Labels, Ops, Items
<1>4. ASSUME NEW n \in Names, Del(t, n) PROVE Types'
  BY <1>4, Bounds, Lists DEF Del, Call, MayAlter, Idle, Labels, Ops, Items
<1>5. ASSUME NEW v \in Threads, NEW s \in {"held", "cur"}, Dup(t, s, v) PROVE Types'
  BY <1>5, Bounds, Lists DEF Dup, Idle, Labels, Ops, Items
<1>6. CASE Entries(t)
  BY <1>6, Bounds, Lists DEF Entries, Call, MayAlter, Idle, Labels, Ops, Items
<1>7. CASE Release(t)
  BY <1>7, Bounds, Lists DEF Release, Idle, Labels, Ops, Items
<1>8. ASSUME NEW mode \in {"r", "w", "z"}, WalkStart(t, mode) PROVE Types'
  BY <1>8, Bounds, Lists DEF WalkStart, Call, Idle, Take, Drop, DropNested, DropReentrant, Labels, Ops, Items
<1>9. CASE WalkNext(t)
  BY <1>9, Bounds, Lists DEF WalkNext, Idle, Take, Drop, DropNested, DropReentrant, Labels, Ops, Items
<1>10. CASE WalkDone(t)
  BY <1>10, Bounds, Lists DEF WalkDone, Idle, ReleaseCurrent, Labels, Ops, Items
<1>11. CASE Load(t)
  <2>1. PICK label \in Labels : Goto(t, label)
    BY <1>11 DEF Load, AfterRefusal, Labels
  <2>2. pc' \in [Threads -> Labels] /\ op' \in [Threads -> Ops]
    BY <2>1 DEF Goto, Ops
  <2>3. UNCHANGED <<allocated, index, list, refcount, marked, freed, listLock, it, gc, mine, slot, walk>>
    BY <1>11 DEF Load
  <2>4. seen' \in [Threads -> Nat]
    BY <1>11, <1>p, <1>b DEF Load, Drop, Items
  <2>5. indexLock' \in [Threads -> {"no", "r", "w"}]
    BY <1>11 DEF Load, Drop, Items
  <2>6. at' \in [Threads -> Known]
    BY <1>11 DEF Load, Drop, Items
  <2> QED
    BY <2>2, <2>3, <2>4, <2>5, <2>6
<1>12. CASE CasFails(t)
  BY <1>12, Bounds, Lists DEF CasFails, Goto, Swaps, Labels, Ops, Items
<1>13. CASE Cas(t)
  <2>1. PICK label \in Labels : Goto(t, label)
    BY <1>13 DEF Cas, ReleaseCurrent, Labels
  <2>2. pc' \in [Threads -> Labels] /\ op' \in [Threads -> Ops]
    BY <2>1 DEF Goto, Ops
  <2>3. UNCHANGED <<allocated, index, list, marked, freed, it, gc, mine, walk>>
    BY <1>13 DEF Cas
  <2>4. refcount' \in [Items -> Int]
    BY <1>13, <1>r, <1>p, <1>b DEF Cas, Drop, DropReentrant, Acquires
  <2>5. slot' \in [Refs -> Known]
    BY <1>13 DEF Cas, Drop, DropReentrant, Acquires
  <2>6. seen' \in [Threads -> Nat]
    BY <1>13 DEF Cas, Drop, DropReentrant, Acquires
  <2>7. at' \in [Threads -> Known]
    BY <1>13 DEF Cas, Drop, DropReentrant, Acquires
  <2>8. indexLock' \in [Threads -> {"no", "r", "w"}]
    BY <1>13 DEF Cas, Drop, DropReentrant, Acquires
  <2>9. listLock' \in [Threads -> {"no", "r", "w"}]
    BY <1>13 DEF Cas, Drop, DropReentrant, Acquires
  <2> QED
    BY <2>2, <2>3, <2>4, <2>5, <2>6, <2>7, <2>8, <2>9
<1>14. CASE Advance(t)
  <2>1. PICK label \in Labels : Goto(t, label)
    BY <1>14 DEF Advance, Collect, AfterGc, ReleaseCurrent, Labels
  <2>2. pc' \in [Threads -> Labels] /\ op' \in [Threads -> Ops]
    BY <2>1 DEF Goto, Ops
  <2>3. UNCHANGED <<allocated, index, list, refcount, marked, freed, indexLock, it, mine, seen, slot, walk>>
    BY <1>14 DEF Advance
  <2>4. at' \in [Threads -> Known]
    BY <1>14, <1>l DEF Advance, Collect, DropReentrant, Drop, DropNested
  <2>5. gc' \in [Threads -> BOOLEAN]
    BY <1>14, <1>l DEF Advance, Collect, DropReentrant, Drop, DropNested
  <2>6. listLock' \in [Threads -> {"no", "r", "w"}]
    BY <1>14, <1>l DEF Advance, Collect, DropReentrant, Drop, DropNested
  <2> QED
    BY <2>2, <2>3, <2>4, <2>5, <2>6
<1>15. CASE GcTry(t)
  <2>1. PICK label \in Labels : Goto(t, label)
    BY <1>15 DEF GcTry, Collect, AfterGc, Labels
  <2>2. pc' \in [Threads -> Labels] /\ op' \in [Threads -> Ops]
    BY <2>1 DEF Goto, Ops
  <2>3. UNCHANGED <<allocated, index, marked, indexLock, it, mine, seen, slot, walk>>
    BY <1>15 DEF GcTry
  <2>4. at' \in [Threads -> Known]
    BY <1>15, <1>l DEF GcTry, Collect, DropReentrant, Drop, DropNested, Deleting, Items
  <2>5. gc' \in [Threads -> BOOLEAN]
    BY <1>15, <1>l DEF GcTry, Collect, DropReentrant, Drop, DropNested, Deleting, Items
  <2>6. listLock' \in [Threads -> {"no", "r", "w"}]
    BY <1>15, <1>l DEF GcTry, Collect, DropReentrant, Drop, DropNested, Deleting, Items
  <2>7. list' \in Seq(Made)
    BY <1>15, <1>l DEF GcTry, Collect, DropReentrant, Drop, DropNested, Deleting, Items
  <2>8. freed' \subseteq Made
    BY <1>15, <1>p DEF GcTry
  <2>9. refcount' \in [Items -> Int]
    BY <1>15, <1>l DEF GcTry, Collect, DropReentrant, Drop, DropNested, Deleting, Items
  <2> QED
    BY <2>2, <2>3, <2>4, <2>5, <2>6, <2>7, <2>8, <2>9
<1>16. CASE GcLock(t)
  BY <1>16, Bounds, Lists DEF GcLock, Goto, Take, Drop, DropNested, DropReentrant, Labels, Ops, Items
<1>17. CASE Peek(t)
  BY SMTT(30), <1>17, Bounds, Lists DEF Peek, Goto, Labels, Ops, Items
<1>18. CASE ReadFlag(t)
  BY <1>18, Bounds, Lists DEF ReadFlag, Goto, Releases, Labels, Ops, Items
<1>19. CASE Decrement(t)
  <2>1. PICK label \in Labels : Goto(t, label)
    BY <1>19 DEF Decrement, AfterRelease, Labels
  <2>2. pc' \in [Threads -> Labels] /\ op' \in [Threads -> Ops]
    BY <2>1 DEF Goto, Ops
  <2>3. UNCHANGED <<allocated, index, list, marked, freed, indexLock, listLock, at, it, gc, mine, seen, walk>>
    BY <1>19 DEF Decrement
  <2>4. refcount' \in [Items -> Int]
    BY <1>19, <1>r, <1>q, <1>b DEF Decrement
  <2>5. slot' \in [Refs -> Known]
    BY <1>19 DEF Decrement
  <2> QED
    BY <2>2, <2>3, <2>4, <2>5
<1>20. CASE Count(t)
  BY <1>20, Bounds, Lists DEF Count, Goto, Releases, AfterRelease, Labels, Ops, Items
<1>21. CASE Try(t)
  <2>1. PICK label \in Labels : Goto(t, label)
    BY <1>21 DEF Try, Labels
  <2>2. pc' \in [Threads -> Labels] /\ op' \in [Threads -> Ops]
    BY <2>1 DEF Goto, Ops
  <2>3. UNCHANGED <<allocated, index, list, marked, freed, indexLock, listLock, at, gc, seen, slot, walk>>
    BY <1>21 DEF Try
  <2>4. mine' \in [Threads -> BOOLEAN]
    BY <1>21 DEF Try, Deleting
  <2>5. it' \in [Threads -> Known]
    BY <1>21 DEF Try, Deleting
  <2>6. refcount' \in [Items -> Int]
    BY <1>21 DEF Try, Deleting
  <2> QED
    BY <2>2, <2>3, <2>4, <2>5, <2>6
<1>22. CASE On(t)
  <2>1. PICK label \in Labels : Goto(t, label)
    BY <1>22 DEF On, Labels
  <2>2. pc' \in [Threads -> Labels] /\ op' \in [Threads -> Ops]
    BY <2>1 DEF Goto, Ops
  <2>3. UNCHANGED <<allocated, index, list, refcount, marked, freed, indexLock, at, it, gc, mine, seen>>
    BY <1>22 DEF On
  <2>4. slot' \in [Refs -> Known]
    BY <1>22, <1>o DEF On, DropReentrant, Drop
  <2>5. listLock' \in [Threads -> {"no", "r", "w"}]
    BY <1>22 DEF On, DropReentrant, Drop
  <2>6. walk' \in [Threads -> {"no", "r", "w", "z"}]
    BY <1>22 DEF On, DropReentrant, Drop
  <2> QED
    BY <2>2, <2>3, <2>4, <2>5, <2>6
<1>23. CASE Link(t)
  <2>1. PICK label \in Labels : Goto(t, label)
    BY <1>23 DEF Link, LinkAndCollect, Labels
  <2>2. pc' \in [Threads -> Labels] /\ op' \in [Threads -> Ops]
    BY <2>1 DEF Goto, Ops
  <2>3. UNCHANGED <<allocated, index, refcount, marked, freed, indexLock, at, mine, seen, slot, walk>>
    BY <1>23 DEF Link
  <2>4. list' \in Seq(Made)
    BY <1>23, <1>f DEF Link, LinkAndCollect, Take
  <2>5. listLock' \in [Threads -> {"no", "r", "w"}]
    BY <1>23, <1>f DEF Link, LinkAndCollect, Take
  <2>6. gc' \in [Threads -> BOOLEAN]
    BY <1>23, <1>f DEF Link, LinkAndCollect, Take
  <2>7. it' \in [Threads -> Known]
    BY <1>23, <1>f DEF Link, LinkAndCollect, Take
  <2> QED
    BY <2>2, <2>3, <2>4, <2>5, <2>6, <2>7
<1>24. CASE Unlink(t)
  <2>1. list' = Unlinked(it[t]) /\ UNCHANGED <<allocated, index, refcount, marked, freed, indexLock>>
    BY <1>24 DEF Unlink, LinkAndCollect
  <2>2. UNCHANGED <<op, at, it, mine, seen, slot, walk>>
    BY <1>24 DEF Unlink, LinkAndCollect, Goto
  <2>3. /\ pc' = [pc EXCEPT ![t] = "advance"] \/ pc' = [pc EXCEPT ![t] = "free"]
        /\ gc' = gc \/ gc' = [gc EXCEPT ![t] = TRUE]
        /\ listLock' = listLock \/ listLock' = [listLock EXCEPT ![t] = "w"]
    BY <1>24 DEF Unlink, LinkAndCollect, Goto, Take
  <2>4. list' \in Seq(Made)
    BY <2>1, <1>l
  <2> QED
    BY ZenonT(40), <2>1, <2>2, <2>3, <2>4 DEF Labels
<1>25. CASE Free(t)
  <2>1. PICK label \in Labels : Goto(t, label)
    BY <1>25 DEF Free, Labels
  <2>2. pc' \in [Threads -> Labels] /\ op' \in [Threads -> Ops]
    BY <2>1 DEF Goto, Ops
  <2>3. UNCHANGED <<allocated, index, list, refcount, marked, indexLock, listLock, at, gc, mine, seen, slot, walk>>
    BY <1>25 DEF Free
  <2>4. freed' \subseteq Made
    BY <1>25, <1>f DEF Free
  <2>5. it' \in [Threads -> Known]
    BY <1>25, <1>f DEF Free
  <2> QED
    BY <2>2, <2>3, <2>4, <2>5
<1>26. CASE DelCas(t)
  <2>1. PICK label \in Labels : Goto(t, label)
    BY <1>26 DEF DelCas, Labels
  <2>2. pc' \in [Threads -> Labels] /\ op' \in [Threads -> Ops]
    BY <2>1 DEF Goto, Ops
  <2>3. UNCHANGED <<allocated, index, list, marked, freed, indexLock, listLock, at, it, gc, mine, seen, slot, walk>>
    BY <1>26 DEF DelCas
  <2>4. refcount' \in [Items -> Int]
    BY <1>26 DEF DelCas, Deleting
  <2> QED
    BY <2>2, <2>3, <2>4
<1>27. CASE DelMark(t)
  <2>1. PICK label \in Labels : Goto(t, label)
    BY <1>27 DEF DelMark, Labels
  <2>2. pc' \in [Threads -> Labels] /\ op' \in [Threads -> Ops]
    BY <2>1 DEF Goto, Ops
  <2>3. UNCHANGED <<allocated, index, list, refcount, freed, indexLock, listLock, at, gc, mine, seen, slot, walk>>
    BY <1>27 DEF DelMark
  <2>4. marked' \subseteq Made
    BY <1>27, <1>f DEF DelMark
  <2>5. it' \in [Threads -> Known]
    BY <1>27, <1>f DEF DelMark
  <2> QED
    BY <2>2, <2>3, <2>4, <2>5
<1> HIDE <1>g DEF Types, Refs, Slots, Known, Made, tables, counters, locks, locals, ghosts, None
<1> QED
  BY <1>a, <1>1, <1>2, <1>3, <1>4, <1>5, <1>6, <1>7, <1>8, <1>9, <1>10, <1>11, <1>12, <1>13, <1>14, <1>15, <1>16, <1>17, <1>18, <1>19, <1>20, <1>21, <1>22, <1>23, <1>24, <1>25, <1>26, <1>27 DEF Begin, Continue

\* What the others see of a step of thread t.
Same(u) ==
  /\ pc'[u] = pc[u] /\ op'[u] = op[u] /\ gc'[u] = gc[u] /\ mine'[u] = mine[u]
  /\ walk'[u] = walk[u] /\ at'[u] = at[u] /\ it'[u] = it[u]
  /\ indexLock'[u] = indexLock[u] /\ listLock'[u] = listLock[u]
  /\ \A s \in {"cur", "next", "gc"} : slot'[<<u, s>>] = slot[<<u, s>>]
  /\ op[u] # "none" => slot'[<<u, "held">>] = slot[<<u, "held">>]

LEMMA SameFlow == ASSUME NEW u, Flow(u), Same(u) PROVE Flow(u)'
BY DEF Flow, Same, Control, Locked, Walking, Owns, Points, LooksUp, Seeks, Removes

LEMMA OthersSame ==
  ASSUME Placed, NEW t \in Threads, Begin(t) \/ Continue(t)
  PROVE  \A u \in Threads : u # t => Same(u)
<1>a. Begin(t) \/ Continue(t)
  OBVIOUS
<1>g. Types /\ \A u \in Threads : Control(u)
  BY DEF Placed, Flow
<1> USE <1>g DEF Types, Same, Refs, Slots, tables, counters, locks, locals, ghosts
<1>1. ASSUME NEW n \in Names, SetNew(t, n) PROVE \A u \in Threads : u # t => Same(u)
  BY <1>1 DEF SetNew, Call, MayAlter, Idle
<1>2. ASSUME NEW n \in Names, SetFound(t, n) PROVE \A u \in Threads : u # t => Same(u)
  BY <1>2 DEF SetFound, Call, MayAlter, Idle, Take, Drop, DropNested, DropReentrant
<1>3. ASSUME NEW n \in Names, Get(t, n) PROVE \A u \in Threads : u # t => Same(u)
  BY <1>3 DEF Get, Call, Idle, Take, Drop, DropNested, DropReentrant
<1>4. ASSUME NEW n \in Names, Del(t, n) PROVE \A u \in Threads : u # t => Same(u)
  BY <1>4 DEF Del, Call, MayAlter, Idle
<1>5. ASSUME NEW v \in Threads, NEW s \in {"held", "cur"}, Dup(t, s, v) PROVE \A u \in Threads : u # t => Same(u)
  <2>1. op[v] = "none"
    BY <1>5 DEF Dup, Idle, Control
  <2>2. slot' = [slot EXCEPT ![<<v, "held">>] = slot[<<t, s>>]]
    BY <1>5 DEF Dup
  <2>3. \A u \in Threads : \A q \in Slots : u # v \/ q # "held" => slot'[<<u, q>>] = slot[<<u, q>>]
    BY <2>2
  <2> QED
    BY <1>5, <2>1, <2>3 DEF Dup
<1>6. CASE Entries(t)
  BY <1>6 DEF Entries, Call, MayAlter, Idle
<1>7. CASE Release(t)
  BY <1>7 DEF Release, Idle
<1>8. ASSUME NEW mode \in {"r", "w", "z"}, WalkStart(t, mode) PROVE \A u \in Threads : u # t => Same(u)
  BY <1>8 DEF WalkStart, Call, Idle, Take, Drop, DropNested, DropReentrant
<1>9. CASE WalkNext(t)
  BY <1>9 DEF WalkNext, Idle, Take, Drop, DropNested, DropReentrant
<1>10. CASE WalkDone(t)
  BY <1>10 DEF WalkDone, Idle, ReleaseCurrent
<1>11. CASE Load(t)
  BY <1>11 DEF Load, Goto, Take, Drop, DropNested, DropReentrant, AfterRefusal
<1>12. CASE CasFails(t)
  BY <1>12 DEF CasFails, Goto, Swaps
<1>13. CASE Cas(t)
  BY <1>13 DEF Cas, Goto, Take, Drop, DropNested, DropReentrant, Acquires, ReleaseCurrent, Swaps
<1>14. CASE Advance(t)
  BY <1>14 DEF Advance, Goto, Take, Drop, DropNested, DropReentrant, Collect, AfterGc, ReleaseCurrent
<1>15. CASE GcTry(t)
  BY <1>15 DEF GcTry, Goto, Take, Drop, DropNested, DropReentrant, Collect, AfterGc, ReleaseCurrent, CanBeRemoved
<1>16. CASE GcLock(t)
  BY <1>16 DEF GcLock, Goto, Take, Drop, DropNested, DropReentrant
<1>17. CASE Peek(t)
  BY <1>17 DEF Peek, Goto
<1>18. CASE ReadFlag(t)
  BY <1>18 DEF ReadFlag, Goto, Releases
<1>19. CASE Decrement(t)
  BY <1>19 DEF Decrement, Goto, Releases, AfterRelease
<1>20. CASE Count(t)
  BY <1>20 DEF Count, Goto, Releases, AfterRelease
<1>21. CASE Try(t)
  BY <1>21 DEF Try, Goto, CanBeRemoved
<1>22. CASE On(t)
  BY <1>22 DEF On, Goto, Take, Drop, DropNested, DropReentrant
<1>23. CASE Link(t)
  BY <1>23 DEF Link, Goto, Take, Drop, DropNested, DropReentrant, LinkAndCollect
<1>24. CASE Unlink(t)
  BY <1>24 DEF Unlink, Goto, Take, Drop, DropNested, DropReentrant, LinkAndCollect
<1>25. CASE Free(t)
  BY <1>25 DEF Free, Goto
<1>26. CASE DelCas(t)
  BY <1>26 DEF DelCas, Goto, CanBeRemoved
<1>27. CASE DelMark(t)
  BY <1>27 DEF DelMark, Goto
<1> HIDE <1>g DEF Types, Same, Refs, Slots, tables, counters, locks, locals, ghosts
<1> QED
  BY <1>a, <1>1, <1>2, <1>3, <1>4, <1>5, <1>6, <1>7, <1>8, <1>9, <1>10, <1>11, <1>12, <1>13, <1>14, <1>15, <1>16, <1>17, <1>18, <1>19, <1>20, <1>21, <1>22, <1>23, <1>24, <1>25, <1>26, <1>27 DEF Begin, Continue

LEMMA OwnFlow ==
  ASSUME Placed, NEW t \in Threads, Begin(t) \/ Continue(t)
  PROVE  Flow(t)'
<1>a. Begin(t) \/ Continue(t)
  OBVIOUS
<1>g. Types /\ Types' /\ Flow(t) /\ \A u \in Threads : Control(u)
  BY TypesStep DEF Placed, Flow
<1> USE <1>g DEF Types, Refs, Slots, tables, counters, locks, locals, ghosts, Flow, Control, Locked, Walking, Owns, Points, LooksUp, Seeks, Removes
<1>1. ASSUME NEW n \in Names, SetNew(t, n) PROVE Flow(t)'
  <2>1. Control(t)'
    BY <1>1 DEF SetNew, Call, MayAlter, Idle, None
  <2>2. Locked(t)'
    BY <1>1 DEF SetNew, Call, MayAlter, Idle, None
  <2>3. Walking(t)'
    BY <1>1 DEF SetNew, Call, MayAlter, Idle, None
  <2>4. Owns(t)'
    BY <1>1 DEF SetNew, Call, MayAlter, Idle, None
  <2>5. Points(t)'
    BY <1>1 DEF SetNew, Call, MayAlter, Idle, None
  <2> QED
    BY <2>1, <2>2, <2>3, <2>4, <2>5
<1>2. ASSUME NEW n \in Names, SetFound(t, n) PROVE Flow(t)'
  <2>1. Control(t)'
    BY <1>2 DEF SetFound, Call, MayAlter, Idle, Take, Drop, DropNested, DropReentrant, None
  <2>2. Locked(t)'
    BY <1>2 DEF SetFound, Call, MayAlter, Idle, Take, Drop, DropNested, DropReentrant, None
  <2>3. Walking(t)'
    BY <1>2 DEF SetFound, Call, MayAlter, Idle, Take, Drop, DropNested, DropReentrant, None
  <2>4. Owns(t)'
    BY <1>2 DEF SetFound, Call, MayAlter, Idle, Take, Drop, DropNested, DropReentrant, None
  <2>5. Points(t)'
    BY <1>2 DEF SetFound, Call, MayAlter, Idle, Take, Drop, DropNested, DropReentrant, None
  <2> QED
    BY <2>1, <2>2, <2>3, <2>4, <2>5
<1>3. ASSUME NEW n \in Names, Get(t, n) PROVE Flow(t)'
  <2>1. Control(t)'
    BY <1>3 DEF Get, Call, Idle, Take, Drop, DropNested, DropReentrant, None
  <2>2. Locked(t)'
    BY <1>3 DEF Get, Call, Idle, Take, Drop, DropNested, DropReentrant, None
  <2>3. Walking(t)'
    BY <1>3 DEF Get, Call, Idle, Take, Drop, DropNested, DropReentrant, None
  <2>4. Owns(t)'
    BY <1>3 DEF Get, Call, Idle, Take, Drop, DropNested, DropReentrant, None
  <2>5. Points(t)'
    BY <1>3 DEF Get, Call, Idle, Take, Drop, DropNested, DropReentrant, None
  <2> QED
    BY <2>1, <2>2, <2>3, <2>4, <2>5
<1>4. ASSUME NEW n \in Names, Del(t, n) PROVE Flow(t)'
  <2>1. Control(t)'
    BY <1>4 DEF Del, Call, MayAlter, Idle, None
  <2>2. Locked(t)'
    BY <1>4 DEF Del, Call, MayAlter, Idle, None
  <2>3. Walking(t)'
    BY <1>4 DEF Del, Call, MayAlter, Idle, None
  <2>4. Owns(t)'
    BY <1>4 DEF Del, Call, MayAlter, Idle, None
  <2>5. Points(t)'
    BY <1>4 DEF Del, Call, MayAlter, Idle, None
  <2> QED
    BY <2>1, <2>2, <2>3, <2>4, <2>5
<1>5. ASSUME NEW v \in Threads, NEW s \in {"held", "cur"}, Dup(t, s, v) PROVE Flow(t)'
  <2>1. Same(t)
    <3>1. op[v] = "none"
      BY <1>5 DEF Dup, Idle
    <3>2. slot' = [slot EXCEPT ![<<v, "held">>] = slot[<<t, s>>]]
      BY <1>5 DEF Dup
    <3>3. \A q \in Slots : t # v \/ q # "held" => slot'[<<t, q>>] = slot[<<t, q>>]
      BY <3>2
    <3> QED
      BY <1>5, <3>1, <3>3 DEF Dup, Same
  <2> QED
    BY <2>1, SameFlow
<1>6. CASE Entries(t)
  <2>1. Control(t)'
    BY <1>6 DEF Entries, Call, MayAlter, Idle, None
  <2>2. Locked(t)'
    BY <1>6 DEF Entries, Call, MayAlter, Idle, None
  <2>3. Walking(t)'
    BY <1>6 DEF Entries, Call, MayAlter, Idle, None
  <2>4. Owns(t)'
    BY <1>6 DEF Entries, Call, MayAlter, Idle, None
  <2>5. Points(t)'
    BY <1>6 DEF Entries, Call, MayAlter, Idle, None
  <2> QED
    BY <2>1, <2>2, <2>3, <2>4, <2>5
<1>7. CASE Release(t)
  <2>1. Control(t)'
    BY <1>7 DEF Release, Idle, None
  <2>2. Locked(t)'
    BY <1>7 DEF Release, Idle, None
  <2>3. Walking(t)'
    BY <1>7 DEF Release, Idle, None
  <2>4. Owns(t)'
    BY <1>7 DEF Release, Idle, None
  <2>5. Points(t)'
    BY <1>7 DEF Release, Idle, None
  <2> QED
    BY <2>1, <2>2, <2>3, <2>4, <2>5
<1>8. ASSUME NEW mode \in {"r", "w", "z"}, WalkStart(t, mode) PROVE Flow(t)'
  <2>1. Control(t)'
    BY <1>8 DEF WalkStart, Call, Idle, Take, Drop, DropNested, DropReentrant, None
  <2>2. Locked(t)'
    BY <1>8 DEF WalkStart, Call, Idle, Take, Drop, DropNested, DropReentrant, None
  <2>3. Walking(t)'
    BY <1>8 DEF WalkStart, Call, Idle, Take, Drop, DropNested, DropReentrant, None
  <2>4. Owns(t)'
    BY <1>8 DEF WalkStart, Call, Idle, Take, Drop, DropNested, DropReentrant, None
  <2>5. Points(t)'
    BY <1>8 DEF WalkStart, Call, Idle, Take, Drop, DropNested, DropReentrant, None
  <2> QED
    BY <2>1, <2>2, <2>3, <2>4, <2>5
<1>9. CASE WalkNext(t)
  <2>1. Control(t)'
    BY <1>9 DEF WalkNext, Idle, Take, Drop, DropNested, DropReentrant, None
  <2>2. Locked(t)'
    BY <1>9 DEF WalkNext, Idle, Take, Drop, DropNested, DropReentrant, None
  <2>3. Walking(t)'
    BY <1>9 DEF WalkNext, Idle, Take, Drop, DropNested, DropReentrant, None
  <2>4. Owns(t)'
    BY <1>9 DEF WalkNext, Idle, Take, Drop, DropNested, DropReentrant, None
  <2>5. Points(t)'
    BY <1>9 DEF WalkNext, Idle, Take, Drop, DropNested, DropReentrant, None
  <2> QED
    BY <2>1, <2>2, <2>3, <2>4, <2>5
<1>10. CASE WalkDone(t)
  <2>1. Control(t)'
    BY <1>10 DEF WalkDone, Idle, ReleaseCurrent, None
  <2>2. Locked(t)'
    BY <1>10 DEF WalkDone, Idle, ReleaseCurrent, None
  <2>3. Walking(t)'
    BY <1>10 DEF WalkDone, Idle, ReleaseCurrent, None
  <2>4. Owns(t)'
    BY <1>10 DEF WalkDone, Idle, ReleaseCurrent, None
  <2>5. Points(t)'
    BY <1>10 DEF WalkDone, Idle, ReleaseCurrent, None
  <2> QED
    BY <2>1, <2>2, <2>3, <2>4, <2>5
<1>11. CASE Load(t)
  <2>1. Control(t)'
    BY <1>11 DEF Load, Goto, Take, Drop, DropNested, DropReentrant, AfterRefusal, None
  <2>2. Locked(t)'
    BY <1>11 DEF Load, Goto, Take, Drop, DropNested, DropReentrant, AfterRefusal, None
  <2>3. Walking(t)'
    BY <1>11 DEF Load, Goto, Take, Drop, DropNested, DropReentrant, AfterRefusal, None
  <2>4. Owns(t)'
    BY <1>11 DEF Load, Goto, Take, Drop, DropNested, DropReentrant, AfterRefusal, None
  <2>5. Points(t)'
    BY <1>11 DEF Load, Goto, Take, Drop, DropNested, DropReentrant, AfterRefusal, None
  <2> QED
    BY <2>1, <2>2, <2>3, <2>4, <2>5
<1>12. CASE CasFails(t)
  <2>1. Control(t)'
    BY <1>12 DEF CasFails, Goto, Swaps, None
  <2>2. Locked(t)'
    BY <1>12 DEF CasFails, Goto, Swaps, None
  <2>3. Walking(t)'
    BY <1>12 DEF CasFails, Goto, Swaps, None
  <2>4. Owns(t)'
    BY <1>12 DEF CasFails, Goto, Swaps, None
  <2>5. Points(t)'
    BY <1>12 DEF CasFails, Goto, Swaps, None
  <2> QED
    BY <2>1, <2>2, <2>3, <2>4, <2>5
<1>13. CASE Cas(t)
  <2>1. Control(t)'
    BY <1>13 DEF Cas, Goto, Take, Drop, DropNested, DropReentrant, Acquires, ReleaseCurrent, Swaps, None
  <2>2. Locked(t)'
    BY <1>13 DEF Cas, Goto, Take, Drop, DropNested, DropReentrant, Acquires, ReleaseCurrent, Swaps, None
  <2>3. Walking(t)'
    BY <1>13 DEF Cas, Goto, Take, Drop, DropNested, DropReentrant, Acquires, ReleaseCurrent, Swaps, None
  <2>4. Owns(t)'
    BY <1>13 DEF Cas, Goto, Take, Drop, DropNested, DropReentrant, Acquires, ReleaseCurrent, Swaps, None
  <2>5. Points(t)'
    BY <1>13 DEF Cas, Goto, Take, Drop, DropNested, DropReentrant, Acquires, ReleaseCurrent, Swaps, None
  <2> QED
    BY <2>1, <2>2, <2>3, <2>4, <2>5
<1>14. CASE Advance(t)
  <2>1. Control(t)'
    BY <1>14 DEF Advance, Goto, Take, Drop, DropNested, DropReentrant, Collect, AfterGc, ReleaseCurrent, None
  <2>2. Locked(t)'
    BY <1>14 DEF Advance, Goto, Take, Drop, DropNested, DropReentrant, Collect, AfterGc, ReleaseCurrent, None
  <2>3. Walking(t)'
    BY <1>14 DEF Advance, Goto, Take, Drop, DropNested, DropReentrant, Collect, AfterGc, ReleaseCurrent, None
  <2>4. Owns(t)'
    BY <1>14 DEF Advance, Goto, Take, Drop, DropNested, DropReentrant, Collect, AfterGc, ReleaseCurrent, None
  <2>5. Points(t)'
    BY <1>14 DEF Advance, Goto, Take, Drop, DropNested, DropReentrant, Collect, AfterGc, ReleaseCurrent, None
  <2> QED
    BY <2>1, <2>2, <2>3, <2>4, <2>5
<1>15. CASE GcTry(t)
  <2>1. Control(t)'
    BY <1>15 DEF GcTry, Goto, Take, Drop, DropNested, DropReentrant, Collect, AfterGc, ReleaseCurrent, CanBeRemoved, None
  <2>2. Locked(t)'
    BY <1>15 DEF GcTry, Goto, Take, Drop, DropNested, DropReentrant, Collect, AfterGc, ReleaseCurrent, CanBeRemoved, None
  <2>3. Walking(t)'
    BY <1>15 DEF GcTry, Goto, Take, Drop, DropNested, DropReentrant, Collect, AfterGc, ReleaseCurrent, CanBeRemoved, None
  <2>4. Owns(t)'
    BY <1>15 DEF GcTry, Goto, Take, Drop, DropNested, DropReentrant, Collect, AfterGc, ReleaseCurrent, CanBeRemoved, None
  <2>5. Points(t)'
    BY <1>15 DEF GcTry, Goto, Take, Drop, DropNested, DropReentrant, Collect, AfterGc, ReleaseCurrent, CanBeRemoved, None
  <2> QED
    BY <2>1, <2>2, <2>3, <2>4, <2>5
<1>16. CASE GcLock(t)
  <2>1. Control(t)'
    BY <1>16 DEF GcLock, Goto, Take, Drop, DropNested, DropReentrant, None
  <2>2. Locked(t)'
    BY <1>16 DEF GcLock, Goto, Take, Drop, DropNested, DropReentrant, None
  <2>3. Walking(t)'
    BY <1>16 DEF GcLock, Goto, Take, Drop, DropNested, DropReentrant, None
  <2>4. Owns(t)'
    BY <1>16 DEF GcLock, Goto, Take, Drop, DropNested, DropReentrant, None
  <2>5. Points(t)'
    BY <1>16 DEF GcLock, Goto, Take, Drop, DropNested, DropReentrant, None
  <2> QED
    BY <2>1, <2>2, <2>3, <2>4, <2>5
<1>17. CASE Peek(t)
  <2>1. Control(t)'
    BY <1>17 DEF Peek, Goto, None
  <2>2. Locked(t)'
    BY <1>17 DEF Peek, Goto, None
  <2>3. Walking(t)'
    BY <1>17 DEF Peek, Goto, None
  <2>4. Owns(t)'
    BY <1>17 DEF Peek, Goto, None
  <2>5. Points(t)'
    BY ZenonT(40), <1>17 DEF Peek, Goto, None
  <2> QED
    BY <2>1, <2>2, <2>3, <2>4, <2>5
<1>18. CASE ReadFlag(t)
  <2>1. Control(t)'
    BY <1>18 DEF ReadFlag, Goto, Releases, None
  <2>2. Locked(t)'
    BY <1>18 DEF ReadFlag, Goto, Releases, None
  <2>3. Walking(t)'
    BY <1>18 DEF ReadFlag, Goto, Releases, None
  <2>4. Owns(t)'
    BY <1>18 DEF ReadFlag, Goto, Releases, None
  <2>5. Points(t)'
    BY <1>18 DEF ReadFlag, Goto, Releases, None
  <2> QED
    BY <2>1, <2>2, <2>3, <2>4, <2>5
<1>19. CASE Decrement(t)
  <2>1. Control(t)'
    <3>1. /\ pc[t] = "dec" /\ gc' = gc /\ op'[t] = IF pc'[t] = "idle" THEN "none" ELSE op[t]
          /\ pc'[t] \in {"count", AfterRelease(t)}
      BY <1>19 DEF Decrement, Goto, AfterRelease
    <3>2. CASE pc'[t] = "count"
      BY <3>1, <3>2
    <3>3. CASE pc'[t] = AfterRelease(t)
      BY <3>1, <3>3 DEF AfterRelease
    <3> QED
      BY <3>1, <3>2, <3>3
  <2>2. Locked(t)'
    BY <1>19 DEF Decrement, Goto, Releases, AfterRelease, None
  <2>3. Walking(t)'
    BY SMTT(30), <1>19 DEF Decrement, Goto, Releases, AfterRelease, None
  <2>4. Owns(t)'
    BY <1>19 DEF Decrement, Goto, Releases, AfterRelease, None
  <2>5. Points(t)'
    BY <1>19 DEF Decrement, Goto, Releases, AfterRelease, None
  <2> QED
    BY <2>1, <2>2, <2>3, <2>4, <2>5
<1>20. CASE Count(t)
  <2>1. Control(t)'
    BY <1>20 DEF Count, Goto, Releases, AfterRelease, None
  <2>2. Locked(t)'
    BY <1>20 DEF Count, Goto, Releases, AfterRelease, None
  <2>3. Walking(t)'
    BY <1>20 DEF Count, Goto, Releases, AfterRelease, None
  <2>4. Owns(t)'
    BY <1>20 DEF Count, Goto, Releases, AfterRelease, None
  <2>5. Points(t)'
    BY <1>20 DEF Count, Goto, Releases, AfterRelease, None
  <2> QED
    BY <2>1, <2>2, <2>3, <2>4, <2>5
<1>21. CASE Try(t)
  <2>1. Control(t)'
    BY <1>21 DEF Try, Goto, CanBeRemoved, None
  <2>2. Locked(t)'
    BY <1>21 DEF Try, Goto, CanBeRemoved, None
  <2>3. Walking(t)'
    BY <1>21 DEF Try, Goto, CanBeRemoved, None
  <2>4. Owns(t)'
    BY <1>21 DEF Try, Goto, CanBeRemoved, None
  <2>5. Points(t)'
    BY <1>21 DEF Try, Goto, CanBeRemoved, None
  <2> QED
    BY <2>1, <2>2, <2>3, <2>4, <2>5
<1>22. CASE On(t)
  <2>1. Control(t)'
    BY <1>22 DEF On, Goto, Take, Drop, DropNested, DropReentrant, None
  <2>2. Locked(t)'
    BY <1>22 DEF On, Goto, Take, Drop, DropNested, DropReentrant, None
  <2>3. Walking(t)'
    BY <1>22 DEF On, Goto, Take, Drop, DropNested, DropReentrant, None
  <2>4. Owns(t)'
    <3>1. pc'[t] = "idle" /\ op'[t] = "none" /\ gc'[t] = gc[t] /\ ~gc[t]
      BY <1>22 DEF On, Goto
    <3>2. CASE op[t] = "next"
      <4>1. slot' = [slot EXCEPT ![<<t, "cur">>] = slot[<<t, "next">>], ![<<t, "next">>] = None] /\ walk' = walk
        BY <1>22, <3>2 DEF On
      <4>2. /\ slot'[<<t, "next">>] = None /\ slot'[<<t, "gc">>] = slot[<<t, "gc">>]
            /\ at' = at
        BY <1>22, <4>1 DEF On
      <4> QED
        BY <3>1, <3>2, <4>1, <4>2
    <3>3. CASE op[t] = "done"
      <4>1. slot' = slot /\ slot[<<t, "cur">>] = None /\ at' = at
        BY <1>22, <3>3 DEF On
      <4> QED
        BY <3>1, <3>3, <4>1
    <3> QED
      BY <1>22, <3>2, <3>3 DEF On
  <2>5. Points(t)'
    BY <1>22 DEF On, Goto, Take, Drop, DropNested, DropReentrant, None
  <2> QED
    BY <2>1, <2>2, <2>3, <2>4, <2>5
<1>23. CASE Link(t)
  <2>1. Control(t)'
    BY <1>23 DEF Link, Goto, Take, Drop, DropNested, DropReentrant, LinkAndCollect, None
  <2>2. Locked(t)'
    BY <1>23 DEF Link, Goto, Take, Drop, DropNested, DropReentrant, LinkAndCollect, None
  <2>3. Walking(t)'
    BY <1>23 DEF Link, Goto, Take, Drop, DropNested, DropReentrant, LinkAndCollect, None
  <2>4. Owns(t)'
    BY <1>23 DEF Link, Goto, Take, Drop, DropNested, DropReentrant, LinkAndCollect, None
  <2>5. Points(t)'
    BY <1>23 DEF Link, Goto, Take, Drop, DropNested, DropReentrant, LinkAndCollect, None
  <2> QED
    BY <2>1, <2>2, <2>3, <2>4, <2>5
<1>24. CASE Unlink(t)
  <2>1. Control(t)'
    BY <1>24 DEF Unlink, Goto, Take, Drop, DropNested, DropReentrant, LinkAndCollect, None
  <2>2. Locked(t)'
    BY <1>24 DEF Unlink, Goto, Take, Drop, DropNested, DropReentrant, LinkAndCollect, None
  <2>3. Walking(t)'
    BY <1>24 DEF Unlink, Goto, Take, Drop, DropNested, DropReentrant, LinkAndCollect, None
  <2>4. Owns(t)'
    BY <1>24 DEF Unlink, Goto, Take, Drop, DropNested, DropReentrant, LinkAndCollect, None
  <2>5. Points(t)'
    BY <1>24 DEF Unlink, Goto, Take, Drop, DropNested, DropReentrant, LinkAndCollect, None
  <2> QED
    BY <2>1, <2>2, <2>3, <2>4, <2>5
<1>25. CASE Free(t)
  <2>1. Control(t)'
    BY <1>25 DEF Free, Goto, None
  <2>2. Locked(t)'
    BY <1>25 DEF Free, Goto, None
  <2>3. Walking(t)'
    BY <1>25 DEF Free, Goto, None
  <2>4. Owns(t)'
    BY <1>25 DEF Free, Goto, None
  <2>5. Points(t)'
    BY <1>25 DEF Free, Goto, None
  <2> QED
    BY <2>1, <2>2, <2>3, <2>4, <2>5
<1>26. CASE DelCas(t)
  <2>1. Control(t)'
    BY <1>26 DEF DelCas, Goto, CanBeRemoved, None
  <2>2. Locked(t)'
    BY <1>26 DEF DelCas, Goto, CanBeRemoved, None
  <2>3. Walking(t)'
    BY <1>26 DEF DelCas, Goto, CanBeRemoved, None
  <2>4. Owns(t)'
    BY <1>26 DEF DelCas, Goto, CanBeRemoved, None
  <2>5. Points(t)'
    BY <1>26 DEF DelCas, Goto, CanBeRemoved, None
  <2> QED
    BY <2>1, <2>2, <2>3, <2>4, <2>5
<1>27. CASE DelMark(t)
  <2>1. Control(t)'
    BY <1>27 DEF DelMark, Goto, None
  <2>2. Locked(t)'
    BY <1>27 DEF DelMark, Goto, None
  <2>3. Walking(t)'
    BY <1>27 DEF DelMark, Goto, None
  <2>4. Owns(t)'
    BY <1>27 DEF DelMark, Goto, None
  <2>5. Points(t)'
    BY <1>27 DEF DelMark, Goto, None
  <2> QED
    BY <2>1, <2>2, <2>3, <2>4, <2>5
<1> HIDE <1>g DEF Types, Refs, Slots, tables, counters, locks, locals, ghosts, Flow, Control, Locked, Walking, Owns, Points, LooksUp, Seeks, Removes
<1> QED
  BY <1>a, <1>1, <1>2, <1>3, <1>4, <1>5, <1>6, <1>7, <1>8, <1>9, <1>10, <1>11, <1>12, <1>13, <1>14, <1>15, <1>16, <1>17, <1>18, <1>19, <1>20, <1>21, <1>22, <1>23, <1>24, <1>25, <1>26, <1>27 DEF Begin, Continue

\* A lock is given up, kept, or taken when it is free.
Taken(lock, t) ==
  \/ lock'[t] \in {"no", lock[t]}
  \/ CanWrite(lock, t) \/ (lock'[t] = "r" /\ CanRead(lock, t))

LEMMA LocksTaken ==
  ASSUME Placed, NEW t \in Threads, Begin(t) \/ Continue(t)
  PROVE  Taken(indexLock, t) /\ Taken(listLock, t)
<1>a. Begin(t) \/ Continue(t)
  OBVIOUS
<1>g. Types /\ \A u \in Threads : Locked(u) /\ Control(u)
  BY DEF Placed, Flow
<1> USE <1>g DEF Types, tables, counters, locks, locals, ghosts, Taken, CanRead, CanWrite
<1>1. ASSUME NEW n \in Names, SetNew(t, n) PROVE Taken(indexLock, t) /\ Taken(listLock, t)
  BY <1>1 DEF SetNew, Call, MayAlter, Idle
<1>2. ASSUME NEW n \in Names, SetFound(t, n) PROVE Taken(indexLock, t) /\ Taken(listLock, t)
  BY <1>2 DEF SetFound, Call, MayAlter, Idle, Take, Drop, DropNested, DropReentrant
<1>3. ASSUME NEW n \in Names, Get(t, n) PROVE Taken(indexLock, t) /\ Taken(listLock, t)
  BY <1>3 DEF Get, Call, Idle, Take, Drop, DropNested, DropReentrant
<1>4. ASSUME NEW n \in Names, Del(t, n) PROVE Taken(indexLock, t) /\ Taken(listLock, t)
  BY <1>4 DEF Del, Call, MayAlter, Idle
<1>5. ASSUME NEW v \in Threads, NEW s \in {"held", "cur"}, Dup(t, s, v) PROVE Taken(indexLock, t) /\ Taken(listLock, t)
  BY <1>5 DEF Dup, Idle
<1>6. CASE Entries(t)
  BY <1>6 DEF Entries, Call, MayAlter, Idle
<1>7. CASE Release(t)
  BY <1>7 DEF Release, Idle
<1>8. ASSUME NEW mode \in {"r", "w", "z"}, WalkStart(t, mode) PROVE Taken(indexLock, t) /\ Taken(listLock, t)
  BY <1>8 DEF WalkStart, Call, Idle, Take, Drop, DropNested, DropReentrant
<1>9. CASE WalkNext(t)
  BY <1>9 DEF WalkNext, Idle, Take, Drop, DropNested, DropReentrant
<1>10. CASE WalkDone(t)
  BY <1>10 DEF WalkDone, Idle, ReleaseCurrent
<1>11. CASE Load(t)
  BY <1>11 DEF Load, Goto, Take, Drop, DropNested, DropReentrant, AfterRefusal
<1>12. CASE CasFails(t)
  BY <1>12 DEF CasFails, Goto, Swaps
<1>13. CASE Cas(t)
  BY <1>13 DEF Cas, Goto, Take, Drop, DropNested, DropReentrant, Acquires, ReleaseCurrent, Swaps
<1>14. CASE Advance(t)
  BY <1>14 DEF Advance, Goto, Take, Drop, DropNested, DropReentrant, Collect, AfterGc, ReleaseCurrent
<1>15. CASE GcTry(t)
  BY <1>15 DEF GcTry, Goto, Take, Drop, DropNested, DropReentrant, Collect, AfterGc, ReleaseCurrent, CanBeRemoved
<1>16. CASE GcLock(t)
  BY <1>16 DEF GcLock, Goto, Take, Drop, DropNested, DropReentrant
<1>17. CASE Peek(t)
  BY <1>17 DEF Peek, Goto
<1>18. CASE ReadFlag(t)
  BY <1>18 DEF ReadFlag, Goto, Releases
<1>19. CASE Decrement(t)
  BY <1>19 DEF Decrement, Goto, Releases, AfterRelease
<1>20. CASE Count(t)
  BY <1>20 DEF Count, Goto, Releases, AfterRelease
<1>21. CASE Try(t)
  BY <1>21 DEF Try, Goto, CanBeRemoved
<1>22. CASE On(t)
  BY <1>22 DEF On, Goto, Take, Drop, DropNested, DropReentrant
<1>23. CASE Link(t)
  BY <1>23 DEF Link, Goto, Take, Drop, DropNested, DropReentrant, LinkAndCollect
<1>24. CASE Unlink(t)
  BY <1>24 DEF Unlink, Goto, Take, Drop, DropNested, DropReentrant, LinkAndCollect
<1>25. CASE Free(t)
  BY <1>25 DEF Free, Goto
<1>26. CASE DelCas(t)
  BY <1>26 DEF DelCas, Goto, CanBeRemoved
<1>27. CASE DelMark(t)
  BY <1>27 DEF DelMark, Goto
<1> HIDE <1>g DEF Types, tables, counters, locks, locals, ghosts, Taken, CanRead, CanWrite
<1> QED
  BY <1>a, <1>1, <1>2, <1>3, <1>4, <1>5, <1>6, <1>7, <1>8, <1>9, <1>10, <1>11, <1>12, <1>13, <1>14, <1>15, <1>16, <1>17, <1>18, <1>19, <1>20, <1>21, <1>22, <1>23, <1>24, <1>25, <1>26, <1>27 DEF Begin, Continue

LEMMA PlacedInit == Init => Placed
<1> SUFFICES ASSUME Init PROVE Placed
  OBVIOUS
<1>1. Types
  BY Bounds DEF Init, Types, Refs, Slots, Known, Made, None, Labels, Ops, Items
<1>2. Exclusive
  BY DEF Init, Exclusive
<1>3. ASSUME NEW t \in Threads PROVE Flow(t)
  <2>1. \A s \in Slots : slot[<<t, s>>] = None
    BY DEF Init, Refs
  <2> QED
    BY <2>1 DEF Init, Flow, Control, Locked, Walking, Owns, Points, LooksUp, Seeks, Removes, Slots, None
<1> QED
  BY <1>1, <1>2, <1>3 DEF Placed

LEMMA PlacedStep == Placed /\ [Next]_vars => Placed'
<1> SUFFICES ASSUME Placed, [Next]_vars PROVE Placed'
  OBVIOUS
<1>1. ASSUME NEW t \in Threads, Begin(t) \/ Continue(t) PROVE Placed'
  <2>1. Types' /\ Flow(t)' /\ \A u \in Threads : u # t => Same(u)
    BY <1>1, TypesStep, OwnFlow, OthersSame
  <2>2. \A u \in Threads : Flow(u)'
    BY <2>1, SameFlow DEF Placed
  <2>3. Exclusive'
    <3>1. Taken(indexLock, t) /\ Taken(listLock, t)
      BY <1>1, LocksTaken
    <3>2. \A u \in Threads : u # t => indexLock'[u] = indexLock[u] /\ listLock'[u] = listLock[u]
      BY <2>1 DEF Same
    <3> QED
      BY <3>1, <3>2 DEF Placed, Exclusive, Taken, CanRead, CanWrite
  <2> QED
    BY <2>1, <2>2, <2>3 DEF Placed
<1>2. CASE UNCHANGED vars
  <2>1. Types' /\ Exclusive'
    BY <1>2 DEF Placed, Types, Exclusive, vars, tables, counters, locks, locals, Made, Known
  <2>2. ASSUME NEW t \in Threads PROVE Flow(t)'
    BY <1>2, SameFlow DEF Placed, Same, vars, locks, locals
  <2> QED
    BY <2>1, <2>2 DEF Placed
<1> QED
  BY <1>1, <1>2 DEF Next

-----------------------------------------------------------------------------
(* Reference counts.                                                       *)

\* A reference count is the number of references; while an item is deleted there is none,
\* and nobody can get one.
Counted(i) ==
  /\ IF refcount[i] = Deleting THEN Holders(i) = {} ELSE refcount[i] = Cardinality(Holders(i))
  /\ i \notin Made => refcount[i] = 0

Counting == \A i \in Items : Counted(i)

LEMMA FiniteHolders ==
  ASSUME NEW i
  PROVE  /\ IsFiniteSet(Holders(i)) /\ Cardinality(Holders(i)) \in Nat
         /\ IsFiniteSet(Holders(i)') /\ Cardinality(Holders(i)') \in Nat
         /\ Cardinality(Holders(i)) = 0 <=> Holders(i) = {}
<1>1. IsFiniteSet(Slots)
  <2>1. IsFiniteSet({"held"})
    BY FS_Singleton
  <2>2. IsFiniteSet({"held"} \cup {"cur"})
    BY <2>1, FS_AddElement
  <2>3. IsFiniteSet(({"held"} \cup {"cur"}) \cup {"next"})
    BY <2>2, FS_AddElement
  <2>4. IsFiniteSet((({"held"} \cup {"cur"}) \cup {"next"}) \cup {"gc"})
    BY <2>3, FS_AddElement
  <2>5. Slots = (({"held"} \cup {"cur"}) \cup {"next"}) \cup {"gc"}
    BY DEF Slots
  <2> QED
    BY <2>4, <2>5
<1>2. IsFiniteSet(Refs)
  BY <1>1, Bounds, FS_Product DEF Refs
<1>3. Holders(i) \in SUBSET Refs /\ Holders(i)' \in SUBSET Refs
  BY DEF Holders
<1>4. IsFiniteSet(Holders(i)) /\ IsFiniteSet(Holders(i)')
  BY <1>2, <1>3, FS_Subset
<1> QED
  BY <1>4, FS_CardinalityType, FS_EmptySet

\* Nobody holds an item that is being deleted, and the count of a held one is positive.
LEMMA Held ==
  ASSUME Types, Counting, NEW r \in Refs, slot[r] # None
  PROVE  slot[r] \in Made /\ slot[r] \in Items /\ refcount[slot[r]] > 0
<1> DEFINE i == slot[r]
<1>1. i \in Made /\ i \in Items
  BY Bounds DEF Types, Known, Made, Items
<1>2. r \in Holders(i)
  BY DEF Holders
<1>3. Cardinality(Holders(i)) # 0 /\ Cardinality(Holders(i)) \in Nat
  BY <1>2, FiniteHolders
<1> QED
  BY <1>1, <1>2, <1>3 DEF Counting, Counted

LEMMA CountUp ==
  ASSUME Types, Counting, NEW i \in Items, NEW r \in Refs, slot[r] = None,
         refcount[i] # Deleting, slot' = [slot EXCEPT ![r] = i],
         refcount' = [refcount EXCEPT ![i] = refcount[i] + 1],
         Made \subseteq Made', i \in Made'
  PROVE  Counting'
<1>1. i # None /\ refcount[i] = Cardinality(Holders(i)) /\ r \notin Holders(i)
  BY DEF Counting, Counted, Items, None, Holders
<1>2. Holders(i)' = Holders(i) \cup {r}
  BY DEF Holders, Types
<1>3. Cardinality(Holders(i)') = refcount[i] + 1 /\ refcount[i] \in Nat
  <2>1. Cardinality(Holders(i) \cup {r}) = Cardinality(Holders(i)) + 1
    BY <1>1, FiniteHolders, FS_AddElement
  <2> QED
    BY <1>1, <1>2, <2>1, FiniteHolders
<1>4. refcount'[i] = refcount[i] + 1 /\ refcount'[i] # Deleting
  BY <1>3 DEF Types, Deleting
<1>5. \A j \in Items : j # i => Holders(j)' = Holders(j) /\ refcount'[j] = refcount[j]
  BY DEF Holders, Types, Items, None
<1> QED
  BY <1>3, <1>4, <1>5 DEF Counting, Counted

LEMMA CountDown ==
  ASSUME Types, Counting, NEW r \in Refs, slot[r] # None,
         slot' = [slot EXCEPT ![r] = None],
         refcount' = [refcount EXCEPT ![slot[r]] = @ - 1], Made' = Made
  PROVE  Counting'
<1>1. PICK i \in Items : i = slot[r] /\ refcount[i] > 0
  BY Held
<1>2. refcount[i] = Cardinality(Holders(i)) /\ r \in Holders(i)
  BY <1>1 DEF Counting, Counted, Deleting, Holders
<1>3. Holders(i)' = Holders(i) \ {r}
  BY <1>1 DEF Holders, Types, Items, None
<1>4. Cardinality(Holders(i)') = refcount[i] - 1 /\ refcount[i] \in Nat
  <2>1. Cardinality(Holders(i) \ {r}) = Cardinality(Holders(i)) - 1
    BY <1>2, FiniteHolders, FS_RemoveElement
  <2> QED
    BY <1>2, <1>3, <2>1, FiniteHolders
<1>5. refcount'[i] = refcount[i] - 1 /\ refcount'[i] # Deleting
  BY <1>1, <1>4 DEF Types, Deleting
<1>6. \A j \in Items : j # i => Holders(j)' = Holders(j) /\ refcount'[j] = refcount[j]
  BY <1>1 DEF Holders, Types, Items, None
<1>7. i \in Made
  BY <1>1, Held
<1> QED
  BY <1>7, <1>4, <1>5, <1>6 DEF Counting, Counted

LEMMA CountMoved ==
  ASSUME Types, Counting, NEW q \in Refs, NEW r \in Refs, slot[q] = None,
         slot' = [slot EXCEPT ![q] = slot[r], ![r] = None], refcount' = refcount, Made' = Made
  PROVE  Counting'
<1>1. CASE slot[r] = None
  <2>1. slot' = slot
    BY <1>1 DEF Types
  <2>2. \A i \in Items : Holders(i)' = Holders(i)
    BY <2>1 DEF Holders
  <2> QED
    BY <2>2 DEF Counting, Counted
<1>2. CASE slot[r] # None
  <2>1. PICK i \in Items : i = slot[r] /\ q # r
    BY <1>2, Held
  <2>2. Holders(i)' = (Holders(i) \ {r}) \cup {q} /\ r \in Holders(i) /\ q \notin Holders(i)
    BY <1>2, <2>1 DEF Holders, Types, Items, None
  <2>3. IsFiniteSet(Holders(i) \ {r}) /\ Cardinality(Holders(i) \ {r}) = Cardinality(Holders(i)) - 1
    BY <2>2, FiniteHolders, FS_RemoveElement
  <2>4. Cardinality(Holders(i)') = Cardinality(Holders(i)) - 1 + 1
    BY <2>2, <2>3, FS_AddElement
  <2>5. Cardinality(Holders(i)') = Cardinality(Holders(i))
    BY <2>4, FiniteHolders
  <2>6. \A j \in Items : j # i => Holders(j)' = Holders(j)
    BY <2>1 DEF Holders, Types, Items, None
  <2>7. Holders(i) # {} /\ Holders(i)' # {}
    BY <2>2
  <2> QED
    BY <2>1, <2>5, <2>6, <2>7 DEF Counting, Counted
<1> QED
  BY <1>1, <1>2

LEMMA CountClosed ==
  ASSUME Types, Counting, NEW i \in Made, CanBeRemoved(i), slot' = slot,
         refcount' = [refcount EXCEPT ![i] = Deleting], Made' = Made
  PROVE  Counting'
<1>1. i \in Items /\ refcount[i] = 0
  BY Bounds DEF CanBeRemoved, Types, Made, Items
<1>2. Holders(i) = {}
  BY <1>1, FiniteHolders DEF Counting, Counted, Deleting
<1>3. Holders(i)' = {} /\ refcount'[i] = Deleting
  BY <1>1, <1>2 DEF Holders, Types
<1>4. \A j \in Items : j # i => Holders(j)' = Holders(j) /\ refcount'[j] = refcount[j]
  BY DEF Holders, Types
<1> QED
  BY <1>3, <1>4 DEF Counting, Counted

LEMMA CountStep ==
  ASSUME Placed, Counting, NEW t \in Threads, Begin(t) \/ Continue(t)
  PROVE  Counting'
<1>a. Begin(t) \/ Continue(t)
  OBVIOUS
<1>g. Types /\ Flow(t)
  BY DEF Placed
<1>s. slot' = slot /\ refcount' = refcount /\ Made' = Made => Counting'
  BY DEF Counting, Counted, Holders
<1> USE <1>g DEF tables, counters, locks, locals, ghosts, Made
<1>1. ASSUME NEW n \in Names, SetNew(t, n) PROVE Counting'
  <2>1. allocated' \in Items /\ allocated' \notin Made /\ allocated' \in Made' /\ Made \subseteq Made'
    BY <1>1, Bounds DEF SetNew, Types, Made, Items
  <2>5. PICK i \in Items : i = allocated' /\ i \notin Made /\ i \in Made' /\ Made \subseteq Made'
    BY <2>1
  <2>2. refcount[i] = 0
    BY <2>5 DEF Counting, Counted
  <2>3. refcount' = [refcount EXCEPT ![i] = refcount[i] + 1]
    BY <1>1, <2>2, <2>5 DEF SetNew
  <2>4. <<t, "held">> \in Refs /\ slot[<<t, "held">>] = None /\ slot' = [slot EXCEPT ![<<t, "held">>] = i]
    BY <1>1, <2>5 DEF SetNew, Refs, Slots
  <2> QED
    <3>1. refcount[i] # Deleting
      BY <2>2 DEF Deleting
    <3> QED
      BY <2>5, <2>3, <2>4, <3>1, CountUp, <1>g
<1>2. ASSUME NEW n \in Names, SetFound(t, n) PROVE Counting'
  BY <1>2, <1>s DEF SetFound, Call, MayAlter, Idle, Take, Drop, DropNested, DropReentrant
<1>3. ASSUME NEW n \in Names, Get(t, n) PROVE Counting'
  BY <1>3, <1>s DEF Get, Call, Idle, Take, Drop, DropNested, DropReentrant
<1>4. ASSUME NEW n \in Names, Del(t, n) PROVE Counting'
  BY <1>4, <1>s DEF Del, Call, MayAlter, Idle
<1>5. ASSUME NEW v \in Threads, NEW s \in {"held", "cur"}, Dup(t, s, v) PROVE Counting'
  <2>1. <<t, s>> \in Refs /\ <<v, "held">> \in Refs /\ slot[<<t, s>>] # None
    BY <1>5 DEF Dup, Refs, Slots
  <2>2. PICK i \in Items : i = slot[<<t, s>>] /\ i \in Made /\ refcount[i] > 0
    BY <2>1, Held
  <2>3. /\ refcount' = [refcount EXCEPT ![i] = refcount[i] + 1] /\ slot[<<v, "held">>] = None
        /\ slot' = [slot EXCEPT ![<<v, "held">>] = i] /\ Made' = Made
    BY <1>5, <2>2 DEF Dup, Made, tables
  <2> QED
    <3>1. refcount[i] # Deleting
      BY <2>1, <2>2 DEF Deleting, Types
    <3> QED
      BY <2>1, <2>2, <2>3, <3>1, CountUp, <1>g
<1>6. CASE Entries(t)
  BY <1>6, <1>s DEF Entries, Call, MayAlter, Idle
<1>7. CASE Release(t)
  BY <1>7, <1>s DEF Release, Idle
<1>8. ASSUME NEW mode \in {"r", "w", "z"}, WalkStart(t, mode) PROVE Counting'
  BY <1>8, <1>s DEF WalkStart, Call, Idle, Take, Drop, DropNested, DropReentrant
<1>9. CASE WalkNext(t)
  BY <1>9, <1>s DEF WalkNext, Idle, Take, Drop, DropNested, DropReentrant
<1>10. CASE WalkDone(t)
  BY <1>10, <1>s DEF WalkDone, Idle, ReleaseCurrent
<1>11. CASE Load(t)
  BY <1>11, <1>s DEF Load, Goto, Take, Drop, DropNested, DropReentrant, AfterRefusal
<1>12. CASE CasFails(t)
  BY <1>12, <1>s DEF CasFails, Goto, Swaps
<1>13. CASE Cas(t)
  <2> DEFINE r == <<t, Acquires(t)>>
  <2>1. PICK i \in Items : i = at[t] /\ i \in Made /\ refcount[i] = seen[t] /\ seen[t] \in Nat
    BY <1>13, Bounds DEF Cas, Swaps, Flow, Points, Types, Known, Made, Items
  <2>2. r \in Refs /\ slot[r] = None
    BY <1>13 DEF Cas, Flow, Control, Owns, Acquires, Refs, Slots, LooksUp, Seeks
  <2> HIDE DEF r
  <2>3. /\ refcount' = [refcount EXCEPT ![i] = refcount[i] + 1]
        /\ slot' = [slot EXCEPT ![r] = i] /\ Made' = Made
    BY <1>13, <2>1 DEF Cas, r, Made, tables
  <2> QED
    <3>1. refcount[i] # Deleting
      BY <2>1, <2>2 DEF Deleting, Types
    <3> QED
      BY <2>1, <2>2, <2>3, <3>1, CountUp, <1>g
<1>14. CASE Advance(t)
  BY <1>14, <1>s DEF Advance, Goto, Take, Drop, DropNested, DropReentrant, Collect, AfterGc, ReleaseCurrent
<1>15. CASE GcTry(t)
  <2>1. at[t] \in Made
    BY <1>15 DEF GcTry, Flow, Points, Control, Types, Known
  <2>2. slot' = slot /\ Made' = Made
    BY <1>15 DEF GcTry, Made, tables
  <2>3. refcount' = refcount \/ (CanBeRemoved(at[t]) /\ refcount' = [refcount EXCEPT ![at[t]] = Deleting])
    BY <1>15 DEF GcTry
  <2> QED
    BY <2>1, <2>2, <2>3, CountClosed, <1>s
<1>16. CASE GcLock(t)
  BY <1>16, <1>s DEF GcLock, Goto, Take, Drop, DropNested, DropReentrant
<1>17. CASE Peek(t)
  BY <1>17, <1>s DEF Peek, Goto
<1>18. CASE ReadFlag(t)
  BY <1>18, <1>s DEF ReadFlag, Goto, Releases
<1>19. CASE Decrement(t)
  <2> DEFINE r == <<t, Releases(t)>>
  <2>1. r \in Refs /\ slot[r] # None
    BY <1>19 DEF Decrement, Flow, Control, Owns, Releases, Refs, Slots, Seeks
  <2> HIDE DEF r
  <2>2. /\ refcount' = [refcount EXCEPT ![slot[r]] = @ - 1]
        /\ slot' = [slot EXCEPT ![r] = None] /\ Made' = Made
    BY <1>19 DEF Decrement, r, Made, tables
  <2> QED
    BY <2>1, <2>2, CountDown
<1>20. CASE Count(t)
  BY <1>20, <1>s DEF Count, Goto, Releases, AfterRelease
<1>21. CASE Try(t)
  <2>1. it[t] \in Made
    BY <1>21 DEF Try, Flow, Points, Walking, Types, Known
  <2>2. slot' = slot /\ Made' = Made
    BY <1>21 DEF Try, Made, tables
  <2>3. refcount' = refcount \/ (CanBeRemoved(it[t]) /\ refcount' = [refcount EXCEPT ![it[t]] = Deleting])
    BY <1>21 DEF Try
  <2> QED
    BY <2>1, <2>2, <2>3, CountClosed, <1>s
<1>22. CASE On(t)
  <2>1. <<t, "cur">> \in Refs /\ <<t, "next">> \in Refs /\ refcount' = refcount /\ Made' = Made
    BY <1>22 DEF On, Refs, Slots, Made, tables
  <2>2. CASE op[t] = "next"
    <3>1. /\ slot[<<t, "cur">>] = None
          /\ slot' = [slot EXCEPT ![<<t, "cur">>] = slot[<<t, "next">>], ![<<t, "next">>] = None]
      BY <1>22, <2>2 DEF On, Flow, Owns, Seeks
    <3> QED
      BY <2>1, <3>1, CountMoved
  <2>3. CASE op[t] # "next"
    <3>1. slot' = slot
      BY <1>22, <2>3 DEF On
    <3> QED
      BY <2>1, <3>1, <1>s
  <2> QED
    BY <2>2, <2>3
<1>23. CASE Link(t)
  BY <1>23, <1>s DEF Link, Goto, Take, Drop, DropNested, DropReentrant, LinkAndCollect
<1>24. CASE Unlink(t)
  BY <1>24, <1>s DEF Unlink, Goto, Take, Drop, DropNested, DropReentrant, LinkAndCollect
<1>25. CASE Free(t)
  BY <1>25, <1>s DEF Free, Goto
<1>26. CASE DelCas(t)
  <2>1. it[t] \in Made
    BY <1>26 DEF DelCas, Flow, Points, Removes, Types, Known
  <2>2. slot' = slot /\ Made' = Made
    BY <1>26 DEF DelCas, Made, tables
  <2>3. refcount' = refcount \/ (CanBeRemoved(it[t]) /\ refcount' = [refcount EXCEPT ![it[t]] = Deleting])
    BY <1>26 DEF DelCas
  <2> QED
    BY <2>1, <2>2, <2>3, CountClosed, <1>s
<1>27. CASE DelMark(t)
  BY <1>27, <1>s DEF DelMark, Goto
<1> HIDE <1>g DEF tables, counters, locks, locals, ghosts, Made
<1> QED
  BY <1>a, <1>1, <1>2, <1>3, <1>4, <1>5, <1>6, <1>7, <1>8, <1>9, <1>10, <1>11, <1>12, <1>13, <1>14, <1>15, <1>16, <1>17, <1>18, <1>19, <1>20, <1>21, <1>22, <1>23, <1>24, <1>25, <1>26, <1>27 DEF Begin, Continue

-----------------------------------------------------------------------------
(* The index, the list, and the items that are on their way into it or out of it.   *)

\* The item of thread t is not in the list: not yet, or not any more.
Off(t) ==
  \/ pc[t] \in {"link", "free"}
  \/ gc[t] /\ op[t] \in {"del", "next", "done"}

OffItems == {it[t] : t \in {u \in Threads : Off(u)}}

Stored ==
  /\ \A n, m \in Names : index[n] = index[m] /\ index[n] # None => n = m
  /\ \A j, k \in DOMAIN list : list[j] = list[k] => j = k
  /\ Listed = Made \ (freed \cup OffItems)
  /\ \A i \in Indexed : i \notin marked /\ refcount[i] # Deleting
  /\ \A i \in freed : refcount[i] = Deleting

\* What a thread knows of the items that it points to.
Uses(t) ==
  /\ LooksUp(t) => at[t] \in Indexed
  /\ at[t] # None /\ ~LooksUp(t) => at[t] \in Listed
  /\ pc[t] = "gcTry" => at[t] \in marked
  /\ slot[<<t, "cur">>] # None => slot[<<t, "cur">>] \in Listed
  /\ slot[<<t, "next">>] # None => slot[<<t, "next">>] \in Listed
  /\ pc[t] \in {"delCas", "delMark"} => it[t] \notin marked /\ refcount[it[t]] # Deleting
  /\ pc[t] = "unlink" \/ (Removes(t) /\ Off(t)) => refcount[it[t]] = Deleting
  /\ Removes(t) => it[t] \notin Indexed \cup freed
  /\ mine[t] => it[t] \in marked \ freed /\ refcount[it[t]] # Deleting
  /\ mine[t] /\ slot[<<t, "cur">>] # None => it[t] = slot[<<t, "cur">>]

\* No two threads remove the same item, or add it.
OneRemover ==
  \A t, u \in Threads :
    t # u /\ it[t] = it[u] =>
      /\ ~((Removes(t) \/ mine[t]) /\ (Removes(u) \/ mine[u]))
      /\ ~(pc[t] = "link" /\ pc[u] = "link")

Consistent == Placed /\ Counting /\ Stored /\ OneRemover /\ \A t \in Threads : Uses(t)

LEMMA Domain ==
  ASSUME NEW S, list \in Seq(S)
  PROVE  /\ DOMAIN list = 1 .. Len(list) /\ Len(list) \in Nat
         /\ list \in [1 .. Len(list) -> S]
         /\ \A i : i \in Listed <=> \E k \in 1 .. Len(list) : list[k] = i
         /\ Listed \subseteq S
<1>1. DOMAIN list = 1 .. Len(list) /\ Len(list) \in Nat /\ list \in [1 .. Len(list) -> S]
  OBVIOUS
<1> QED
  BY <1>1 DEF Listed

\* The list with an item at its end.
LEMMA Longer ==
  ASSUME list \in Seq(Made), NEW i, i \in Made', Made \subseteq Made', list' = Append(list, i), i \notin Listed,
         \A j, k \in DOMAIN list : list[j] = list[k] => j = k
  PROVE  /\ Listed' = Listed \cup {i}
         /\ \A j, k \in DOMAIN list' : list'[j] = list'[k] => j = k
<1>1. /\ list' \in Seq(Made') /\ Len(list') = Len(list) + 1 /\ Len(list) \in Nat
      /\ \A k \in 1 .. Len(list) : list'[k] = list[k]
      /\ list'[Len(list) + 1] = i
  <2>1. list \in Seq(Made')
    BY Domain
  <2> QED
    BY <2>1, Domain
<1>2. DOMAIN list = 1 .. Len(list) /\ DOMAIN list' = 1 .. Len(list) + 1
  BY <1>1, Domain
<1>3. 1 .. Len(list) + 1 = (1 .. Len(list)) \cup {Len(list) + 1} /\ Len(list) + 1 \notin 1 .. Len(list)
  BY <1>1
<1>4. \A k \in 1 .. Len(list) : list'[k] # i
  BY <1>1, <1>2 DEF Listed
<1> QED
  BY <1>1, <1>2, <1>3, <1>4 DEF Listed

\* Where the items of the shorter list were.
LEMMA Shorter ==
  ASSUME list \in Seq(Made), NEW p \in DOMAIN list, list' = Unlinked(list[p]),
         \A j, k \in DOMAIN list : list[j] = list[k] => j = k
  PROVE  /\ DOMAIN list' = 1 .. (Len(list) - 1)
         /\ \A k \in 1 .. (Len(list) - 1) : list'[k] = IF k < p THEN list[k] ELSE list[k + 1]
<1>1. DOMAIN list = 1 .. Len(list) /\ Len(list) \in Nat /\ p \in 1 .. Len(list)
  BY Domain
<1>2. DOMAIN list' = 1 .. (Len(list) - 1)
  BY DEF Unlinked
<1>3. ASSUME NEW k \in 1 .. (Len(list) - 1)
      PROVE  list'[k] = IF k < p THEN list[k] ELSE list[k + 1]
  <2>1. (\E j \in 1 .. k : list[j] = list[p]) <=> ~(k < p)
    <3>1. ASSUME NEW j \in 1 .. k, list[j] = list[p] PROVE j = p
      BY <1>1, <3>1
    <3>2. k \in Nat /\ p \in Nat /\ (~(k < p) => p \in 1 .. k)
      BY <1>1
    <3> QED
      BY <3>1, <3>2
  <2>2. list'[k] = IF \E j \in 1 .. k : list[j] = list[p] THEN list[k + 1] ELSE list[k]
    BY DEF Unlinked
  <2> QED
    BY <2>1, <2>2
<1> QED
  BY <1>2, <1>3

LEMMA Removal ==
  ASSUME list \in Seq(Made), NEW i \in Listed, list' = Unlinked(i),
         \A j, k \in DOMAIN list : list[j] = list[k] => j = k
  PROVE  /\ Listed' = Listed \ {i}
         /\ \A j, k \in DOMAIN list' : list'[j] = list'[k] => j = k
<1>1. PICK p \in DOMAIN list : list[p] = i
  BY DEF Listed
<1>2. DOMAIN list = 1 .. Len(list) /\ Len(list) \in Nat /\ p \in 1 .. Len(list)
  BY Domain
<1>3. /\ DOMAIN list' = 1 .. (Len(list) - 1)
      /\ \A k \in 1 .. (Len(list) - 1) : list'[k] = IF k < p THEN list[k] ELSE list[k + 1]
  BY <1>1, Shorter
<1> DEFINE Old(k) == IF k < p THEN k ELSE k + 1
<1>4. /\ \A k \in 1 .. (Len(list) - 1) : Old(k) \in 1 .. Len(list) /\ Old(k) # p /\ list'[k] = list[Old(k)]
      /\ \A j, k \in 1 .. (Len(list) - 1) : Old(j) = Old(k) => j = k
      /\ \A m \in 1 .. Len(list) : m # p => \E k \in 1 .. (Len(list) - 1) : Old(k) = m
  <2>1. \A k \in 1 .. (Len(list) - 1) : Old(k) \in 1 .. Len(list) /\ Old(k) # p /\ list'[k] = list[Old(k)]
    BY <1>2, <1>3
  <2>2. \A j, k \in 1 .. (Len(list) - 1) : Old(j) = Old(k) => j = k
    BY <1>2
  <2>3. ASSUME NEW m \in 1 .. Len(list), m # p PROVE \E k \in 1 .. (Len(list) - 1) : Old(k) = m
    <3>1. CASE m < p
      <4>1. m \in 1 .. (Len(list) - 1) /\ Old(m) = m
        BY <1>2, <3>1
      <4> QED
        BY <4>1
    <3>2. CASE m > p
      <4>1. m - 1 \in 1 .. (Len(list) - 1) /\ Old(m - 1) = m
        BY <1>2, <3>2
      <4> QED
        BY <4>1
    <3> QED
      BY <1>2, <2>3, <3>1, <3>2
  <2> QED
    BY <2>1, <2>2, <2>3
<1> HIDE DEF Old
<1>5. Listed' = {list'[k] : k \in DOMAIN list'} /\ Listed = {list[k] : k \in DOMAIN list}
  BY DEF Listed
<1>6. ASSUME NEW x \in Listed' PROVE x \in Listed \ {i}
  <2>1. PICK k \in 1 .. (Len(list) - 1) : list'[k] = x
    BY <1>3, <1>5
  <2> QED
    BY <1>1, <1>2, <1>4, <1>5, <2>1
<1>7. ASSUME NEW x \in Listed, x # i PROVE x \in Listed'
  <2>1. PICK m \in 1 .. Len(list) : list[m] = x
    BY <1>2, <1>5
  <2>2. PICK k \in 1 .. (Len(list) - 1) : Old(k) = m
    BY <1>1, <1>4, <1>7, <2>1
  <2>3. list'[k] = x /\ k \in DOMAIN list'
    BY <1>3, <1>4, <2>1, <2>2
  <2> QED
    BY <1>5, <2>3
<1>8. ASSUME NEW j \in DOMAIN list', NEW k \in DOMAIN list', list'[j] = list'[k]
      PROVE  j = k
  <2>1. list[Old(j)] = list[Old(k)] /\ Old(j) \in DOMAIN list /\ Old(k) \in DOMAIN list
    BY <1>2, <1>3, <1>4, <1>8
  <2>2. Old(j) = Old(k)
    BY <2>1
  <2> QED
    BY <1>3, <1>4, <2>2
<1> QED
  BY <1>6, <1>7, <1>8

\* An item is not its own successor.
LEMMA Onward ==
  ASSUME list \in Seq(Made), \A j, k \in DOMAIN list : list[j] = list[k] => j = k,
         NEW i \in Made
  PROVE  Successor(i) # i
<1>1. i # None
  BY DEF Made, None
<1>2. CASE \E k \in DOMAIN list : Follows(k, i)
  <2>1. PICK k \in DOMAIN list : Follows(k, i) /\ Successor(i) = list[k]
    BY <1>2 DEF Successor
  <2>2. k > 1 /\ list[k - 1] = i /\ k \in 1 .. Len(list) /\ Len(list) \in Nat
    BY <1>1, <2>1, Domain DEF Follows
  <2>3. k - 1 \in DOMAIN list /\ k - 1 # k
    BY <2>2, Domain
  <2> QED
    BY <2>1, <2>2, <2>3
<1>3. CASE ~ \E k \in DOMAIN list : Follows(k, i)
  BY <1>1, <1>3 DEF Successor
<1> QED
  BY <1>2, <1>3

\* What a step of thread t does to the tables, the marks and the counts.
Closes(t, i) ==
  /\ refcount[i] = 0
  /\ \/ pc[t] \in {"delCas", "try"} /\ it[t] = i
     \/ pc[t] = "gcTry" /\ at[t] = i

IndexEffect(t) ==
  /\ \A i \in Made : i \in Indexed' => i \in Indexed
  /\ \A i \in Indexed : i \in Indexed' \/ CanWrite(indexLock, t)

MarkEffect(t) ==
  /\ \A i : i \in marked' <=> i \in marked \/ (pc[t] = "delMark" /\ i = it[t])
  /\ \A i : i \in freed' <=>
       i \in freed \/ (pc[t] = "free" /\ i = it[t]) \/ (pc[t] = "gcTry" /\ Closes(t, i))

CountEffect(t) == \A i \in Made : refcount'[i] = Deleting <=> refcount[i] = Deleting \/ Closes(t, i)

LEMMA IndexStep ==
  ASSUME Placed, NEW t \in Threads, Begin(t) \/ Continue(t)
  PROVE  IndexEffect(t)
<1>a. Begin(t) \/ Continue(t)
  OBVIOUS
<1>g. Types /\ \A u \in Threads : Flow(u)
  BY DEF Placed
<1> USE <1>g DEF Types, tables, counters, locks, locals, ghosts, IndexEffect
<1>1. ASSUME NEW n \in Names, SetNew(t, n) PROVE IndexEffect(t)
  <2>1. allocated' \notin Made /\ index' = [index EXCEPT ![n] = allocated'] /\ index[n] = None
    BY <1>1 DEF SetNew, Made
  <2> QED
    BY <2>1 DEF Indexed
<1>2. ASSUME NEW n \in Names, SetFound(t, n) PROVE IndexEffect(t)
  <2>1. index' = index
    BY <1>2 DEF SetFound, Call, MayAlter, Idle, Take, Drop, DropNested, DropReentrant
  <2> QED
    BY <2>1 DEF Indexed
<1>3. ASSUME NEW n \in Names, Get(t, n) PROVE IndexEffect(t)
  <2>1. index' = index
    BY <1>3 DEF Get, Call, Idle, Take, Drop, DropNested, DropReentrant
  <2> QED
    BY <2>1 DEF Indexed
<1>4. ASSUME NEW n \in Names, Del(t, n) PROVE IndexEffect(t)
  <2>1. CanWrite(indexLock, t) /\ index' = [index EXCEPT ![n] = None]
    BY <1>4 DEF Del
  <2> QED
    BY <2>1 DEF Indexed
<1>5. ASSUME NEW v \in Threads, NEW s \in {"held", "cur"}, Dup(t, s, v) PROVE IndexEffect(t)
  <2>1. index' = index
    BY <1>5 DEF Dup, Idle
  <2> QED
    BY <2>1 DEF Indexed
<1>6. CASE Entries(t)
  <2>1. index' = index
    BY <1>6 DEF Entries, Call, MayAlter, Idle
  <2> QED
    BY <2>1 DEF Indexed
<1>7. CASE Release(t)
  <2>1. index' = index
    BY <1>7 DEF Release, Idle
  <2> QED
    BY <2>1 DEF Indexed
<1>8. ASSUME NEW mode \in {"r", "w", "z"}, WalkStart(t, mode) PROVE IndexEffect(t)
  <2>1. index' = index
    BY <1>8 DEF WalkStart, Call, Idle, Take, Drop, DropNested, DropReentrant
  <2> QED
    BY <2>1 DEF Indexed
<1>9. CASE WalkNext(t)
  <2>1. index' = index
    BY <1>9 DEF WalkNext, Idle, Take, Drop, DropNested, DropReentrant
  <2> QED
    BY <2>1 DEF Indexed
<1>10. CASE WalkDone(t)
  <2>1. index' = index
    BY <1>10 DEF WalkDone, Idle, ReleaseCurrent
  <2> QED
    BY <2>1 DEF Indexed
<1>11. CASE Load(t)
  <2>1. index' = index
    BY <1>11 DEF Load, Goto, Take, Drop, DropNested, DropReentrant, AfterRefusal
  <2> QED
    BY <2>1 DEF Indexed
<1>12. CASE CasFails(t)
  <2>1. index' = index
    BY <1>12 DEF CasFails, Goto, Swaps
  <2> QED
    BY <2>1 DEF Indexed
<1>13. CASE Cas(t)
  <2>1. index' = index
    BY <1>13 DEF Cas, Goto, Take, Drop, DropNested, DropReentrant, Acquires, ReleaseCurrent, Swaps
  <2> QED
    BY <2>1 DEF Indexed
<1>14. CASE Advance(t)
  <2>1. index' = index
    BY <1>14 DEF Advance, Goto, Take, Drop, DropNested, DropReentrant, Collect, AfterGc, ReleaseCurrent
  <2> QED
    BY <2>1 DEF Indexed
<1>15. CASE GcTry(t)
  <2>1. index' = index
    BY <1>15 DEF GcTry, Goto, Take, Drop, DropNested, DropReentrant, Collect, AfterGc, ReleaseCurrent, CanBeRemoved
  <2> QED
    BY <2>1 DEF Indexed
<1>16. CASE GcLock(t)
  <2>1. index' = index
    BY <1>16 DEF GcLock, Goto, Take, Drop, DropNested, DropReentrant
  <2> QED
    BY <2>1 DEF Indexed
<1>17. CASE Peek(t)
  <2>1. index' = index
    BY <1>17 DEF Peek, Goto
  <2> QED
    BY <2>1 DEF Indexed
<1>18. CASE ReadFlag(t)
  <2>1. index' = index
    BY <1>18 DEF ReadFlag, Goto, Releases
  <2> QED
    BY <2>1 DEF Indexed
<1>19. CASE Decrement(t)
  <2>1. index' = index
    BY <1>19 DEF Decrement, Goto, Releases, AfterRelease
  <2> QED
    BY <2>1 DEF Indexed
<1>20. CASE Count(t)
  <2>1. index' = index
    BY <1>20 DEF Count, Goto, Releases, AfterRelease
  <2> QED
    BY <2>1 DEF Indexed
<1>21. CASE Try(t)
  <2>1. index' = index
    BY <1>21 DEF Try, Goto, CanBeRemoved
  <2> QED
    BY <2>1 DEF Indexed
<1>22. CASE On(t)
  <2>1. index' = index
    BY <1>22 DEF On, Goto, Take, Drop, DropNested, DropReentrant
  <2> QED
    BY <2>1 DEF Indexed
<1>23. CASE Link(t)
  <2>1. index' = index
    BY <1>23 DEF Link, Goto, Take, Drop, DropNested, DropReentrant, LinkAndCollect
  <2> QED
    BY <2>1 DEF Indexed
<1>24. CASE Unlink(t)
  <2>1. index' = index
    BY <1>24 DEF Unlink, Goto, Take, Drop, DropNested, DropReentrant, LinkAndCollect
  <2> QED
    BY <2>1 DEF Indexed
<1>25. CASE Free(t)
  <2>1. index' = index
    BY <1>25 DEF Free, Goto
  <2> QED
    BY <2>1 DEF Indexed
<1>26. CASE DelCas(t)
  <2>1. index' = index
    BY <1>26 DEF DelCas, Goto, CanBeRemoved
  <2> QED
    BY <2>1 DEF Indexed
<1>27. CASE DelMark(t)
  <2>1. index' = index
    BY <1>27 DEF DelMark, Goto
  <2> QED
    BY <2>1 DEF Indexed
<1> HIDE <1>g DEF Types, tables, counters, locks, locals, ghosts, IndexEffect
<1> QED
  BY <1>a, <1>1, <1>2, <1>3, <1>4, <1>5, <1>6, <1>7, <1>8, <1>9, <1>10, <1>11, <1>12, <1>13, <1>14, <1>15, <1>16, <1>17, <1>18, <1>19, <1>20, <1>21, <1>22, <1>23, <1>24, <1>25, <1>26, <1>27 DEF Begin, Continue

LEMMA MarkStep ==
  ASSUME Placed, NEW t \in Threads, Begin(t) \/ Continue(t)
  PROVE  MarkEffect(t)
<1>a. Begin(t) \/ Continue(t)
  OBVIOUS
<1>c. Control(t)
  BY DEF Placed, Flow
<1>g. Types /\ \A u \in Threads : Flow(u)
  BY DEF Placed
<1> USE <1>g, <1>c DEF Types, tables, counters, locks, locals, ghosts, MarkEffect, Closes, Control
<1>1. ASSUME NEW n \in Names, SetNew(t, n) PROVE MarkEffect(t)
  BY <1>1 DEF SetNew, Call, MayAlter, Idle
<1>2. ASSUME NEW n \in Names, SetFound(t, n) PROVE MarkEffect(t)
  BY <1>2 DEF SetFound, Call, MayAlter, Idle, Take, Drop, DropNested, DropReentrant
<1>3. ASSUME NEW n \in Names, Get(t, n) PROVE MarkEffect(t)
  BY <1>3 DEF Get, Call, Idle, Take, Drop, DropNested, DropReentrant
<1>4. ASSUME NEW n \in Names, Del(t, n) PROVE MarkEffect(t)
  BY <1>4 DEF Del, Call, MayAlter, Idle
<1>5. ASSUME NEW v \in Threads, NEW s \in {"held", "cur"}, Dup(t, s, v) PROVE MarkEffect(t)
  BY <1>5 DEF Dup, Idle
<1>6. CASE Entries(t)
  BY <1>6 DEF Entries, Call, MayAlter, Idle
<1>7. CASE Release(t)
  BY <1>7 DEF Release, Idle
<1>8. ASSUME NEW mode \in {"r", "w", "z"}, WalkStart(t, mode) PROVE MarkEffect(t)
  BY <1>8 DEF WalkStart, Call, Idle, Take, Drop, DropNested, DropReentrant
<1>9. CASE WalkNext(t)
  BY <1>9 DEF WalkNext, Idle, Take, Drop, DropNested, DropReentrant
<1>10. CASE WalkDone(t)
  BY <1>10 DEF WalkDone, Idle, ReleaseCurrent
<1>11. CASE Load(t)
  BY <1>11 DEF Load, Goto, Take, Drop, DropNested, DropReentrant, AfterRefusal
<1>12. CASE CasFails(t)
  BY <1>12 DEF CasFails, Goto, Swaps
<1>13. CASE Cas(t)
  BY <1>13 DEF Cas, Goto, Take, Drop, DropNested, DropReentrant, Acquires, ReleaseCurrent, Swaps
<1>14. CASE Advance(t)
  BY <1>14 DEF Advance, Goto, Take, Drop, DropNested, DropReentrant, Collect, AfterGc, ReleaseCurrent
<1>15. CASE GcTry(t)
  BY <1>15 DEF GcTry, Goto, Take, Drop, DropNested, DropReentrant, Collect, AfterGc, ReleaseCurrent, CanBeRemoved
<1>16. CASE GcLock(t)
  BY <1>16 DEF GcLock, Goto, Take, Drop, DropNested, DropReentrant
<1>17. CASE Peek(t)
  BY <1>17 DEF Peek, Goto
<1>18. CASE ReadFlag(t)
  BY <1>18 DEF ReadFlag, Goto, Releases
<1>19. CASE Decrement(t)
  BY <1>19 DEF Decrement, Goto, Releases, AfterRelease
<1>20. CASE Count(t)
  BY <1>20 DEF Count, Goto, Releases, AfterRelease
<1>21. CASE Try(t)
  BY <1>21 DEF Try, Goto, CanBeRemoved
<1>22. CASE On(t)
  BY <1>22 DEF On, Goto, Take, Drop, DropNested, DropReentrant
<1>23. CASE Link(t)
  BY <1>23 DEF Link, Goto, Take, Drop, DropNested, DropReentrant, LinkAndCollect
<1>24. CASE Unlink(t)
  BY <1>24 DEF Unlink, Goto, Take, Drop, DropNested, DropReentrant, LinkAndCollect
<1>25. CASE Free(t)
  BY <1>25 DEF Free, Goto
<1>26. CASE DelCas(t)
  BY <1>26 DEF DelCas, Goto, CanBeRemoved
<1>27. CASE DelMark(t)
  BY <1>27 DEF DelMark, Goto
<1> HIDE <1>g, <1>c DEF Types, tables, counters, locks, locals, ghosts, MarkEffect, Closes, Control
<1> QED
  BY <1>a, <1>1, <1>2, <1>3, <1>4, <1>5, <1>6, <1>7, <1>8, <1>9, <1>10, <1>11, <1>12, <1>13, <1>14, <1>15, <1>16, <1>17, <1>18, <1>19, <1>20, <1>21, <1>22, <1>23, <1>24, <1>25, <1>26, <1>27 DEF Begin, Continue

LEMMA CountsStep ==
  ASSUME Placed, Counting, NEW t \in Threads, Begin(t) \/ Continue(t)
  PROVE  CountEffect(t)
<1>a. Begin(t) \/ Continue(t)
  OBVIOUS
<1>m. Made \subseteq Items
  BY Bounds DEF Placed, Types, Made, Items
<1>g. Types /\ \A u \in Threads : Flow(u)
  BY DEF Placed
<1> USE <1>g, <1>m DEF Types, tables, counters, locks, locals, ghosts, CountEffect, Deleting
<1>1. ASSUME NEW n \in Names, SetNew(t, n) PROVE CountEffect(t)
  <2>1. refcount' = [refcount EXCEPT ![allocated'] = 1] /\ allocated' \notin Made /\ pc[t] = "idle"
    BY <1>1 DEF SetNew, Made, MayAlter, Idle
  <2> QED
    BY <2>1 DEF Closes
<1>2. ASSUME NEW n \in Names, SetFound(t, n) PROVE CountEffect(t)
  <2>1. refcount' = refcount /\ ~ \E i \in Made : Closes(t, i)
    BY <1>2 DEF SetFound, Call, MayAlter, Idle, Take, Drop, DropNested, DropReentrant, Closes
  <2> QED
    BY <2>1
<1>3. ASSUME NEW n \in Names, Get(t, n) PROVE CountEffect(t)
  <2>1. refcount' = refcount /\ ~ \E i \in Made : Closes(t, i)
    BY <1>3 DEF Get, Call, Idle, Take, Drop, DropNested, DropReentrant, Closes
  <2> QED
    BY <2>1
<1>4. ASSUME NEW n \in Names, Del(t, n) PROVE CountEffect(t)
  <2>1. refcount' = refcount /\ ~ \E i \in Made : Closes(t, i)
    BY <1>4 DEF Del, Call, MayAlter, Idle, Closes
  <2> QED
    BY <2>1
<1>5. ASSUME NEW v \in Threads, NEW s \in {"held", "cur"}, Dup(t, s, v) PROVE CountEffect(t)
  <2>1. <<t, s>> \in Refs /\ slot[<<t, s>>] # None /\ pc[t] = "idle"
    BY <1>5 DEF Dup, Refs, Slots, Idle
  <2>2. refcount[slot[<<t, s>>]] > 0 /\ refcount' = [refcount EXCEPT ![slot[<<t, s>>]] = @ + 1] /\ slot[<<t, s>>] \in Items
    BY <1>5, <2>1, Held DEF Dup
  <2> QED
    BY <2>1, <2>2 DEF Closes
<1>6. CASE Entries(t)
  <2>1. refcount' = refcount /\ ~ \E i \in Made : Closes(t, i)
    BY <1>6 DEF Entries, Call, MayAlter, Idle, Closes
  <2> QED
    BY <2>1
<1>7. CASE Release(t)
  <2>1. refcount' = refcount /\ ~ \E i \in Made : Closes(t, i)
    BY <1>7 DEF Release, Idle, Closes
  <2> QED
    BY <2>1
<1>8. ASSUME NEW mode \in {"r", "w", "z"}, WalkStart(t, mode) PROVE CountEffect(t)
  <2>1. refcount' = refcount /\ ~ \E i \in Made : Closes(t, i)
    BY <1>8 DEF WalkStart, Call, Idle, Take, Drop, DropNested, DropReentrant, Closes
  <2> QED
    BY <2>1
<1>9. CASE WalkNext(t)
  <2>1. refcount' = refcount /\ ~ \E i \in Made : Closes(t, i)
    BY <1>9 DEF WalkNext, Idle, Take, Drop, DropNested, DropReentrant, Closes
  <2> QED
    BY <2>1
<1>10. CASE WalkDone(t)
  <2>1. refcount' = refcount /\ ~ \E i \in Made : Closes(t, i)
    BY <1>10 DEF WalkDone, Idle, ReleaseCurrent, Closes
  <2> QED
    BY <2>1
<1>11. CASE Load(t)
  <2>1. refcount' = refcount /\ ~ \E i \in Made : Closes(t, i)
    BY <1>11 DEF Load, Goto, Take, Drop, DropNested, DropReentrant, AfterRefusal, Closes
  <2> QED
    BY <2>1
<1>12. CASE CasFails(t)
  <2>1. refcount' = refcount /\ ~ \E i \in Made : Closes(t, i)
    BY <1>12 DEF CasFails, Goto, Swaps, Closes
  <2> QED
    BY <2>1
<1>13. CASE Cas(t)
  <2>1. at[t] \in Items /\ refcount[at[t]] = seen[t] /\ seen[t] \in Nat /\ refcount' = [refcount EXCEPT ![at[t]] = seen[t] + 1] /\ pc[t] = "cas"
    BY <1>13, <1>m DEF Cas, Swaps, Flow, Points, Known
  <2> QED
    BY <2>1 DEF Closes
<1>14. CASE Advance(t)
  <2>1. refcount' = refcount /\ ~ \E i \in Made : Closes(t, i)
    BY <1>14 DEF Advance, Goto, Take, Drop, DropNested, DropReentrant, Collect, AfterGc, ReleaseCurrent, Closes
  <2> QED
    BY <2>1
<1>15. CASE GcTry(t)
  BY <1>15 DEF GcTry, CanBeRemoved, Closes
<1>16. CASE GcLock(t)
  <2>1. refcount' = refcount /\ ~ \E i \in Made : Closes(t, i)
    BY <1>16 DEF GcLock, Goto, Take, Drop, DropNested, DropReentrant, Closes
  <2> QED
    BY <2>1
<1>17. CASE Peek(t)
  <2>1. refcount' = refcount /\ ~ \E i \in Made : Closes(t, i)
    BY <1>17 DEF Peek, Goto, Closes
  <2> QED
    BY <2>1
<1>18. CASE ReadFlag(t)
  <2>1. refcount' = refcount /\ ~ \E i \in Made : Closes(t, i)
    BY <1>18 DEF ReadFlag, Goto, Releases, Closes
  <2> QED
    BY <2>1
<1>19. CASE Decrement(t)
  <2>1. <<t, Releases(t)>> \in Refs /\ slot[<<t, Releases(t)>>] # None /\ pc[t] = "dec"
    BY <1>19 DEF Decrement, Flow, Control, Owns, Releases, Refs, Slots, Seeks
  <2>2. /\ refcount[slot[<<t, Releases(t)>>]] > 0 /\ slot[<<t, Releases(t)>>] \in Items
        /\ refcount' = [refcount EXCEPT ![slot[<<t, Releases(t)>>]] = @ - 1]
    BY <1>19, <2>1, Held DEF Decrement
  <2> QED
    BY <2>1, <2>2 DEF Closes
<1>20. CASE Count(t)
  <2>1. refcount' = refcount /\ ~ \E i \in Made : Closes(t, i)
    BY <1>20 DEF Count, Goto, Releases, AfterRelease, Closes
  <2> QED
    BY <2>1
<1>21. CASE Try(t)
  <2>1. pc[t] = "try"
    BY <1>21 DEF Try
  <2>2. \A i \in Made : Closes(t, i) <=> refcount[i] = 0 /\ it[t] = i
    BY <2>1 DEF Closes
  <2>3. CASE refcount[it[t]] = 0
    <3>1. refcount' = [refcount EXCEPT ![it[t]] = Deleting]
      BY <1>21, <2>3 DEF Try, CanBeRemoved
    <3> QED
      BY <2>2, <2>3, <3>1
  <2>4. CASE refcount[it[t]] # 0
    <3>1. refcount' = refcount
      BY <1>21, <2>4 DEF Try, CanBeRemoved
    <3> QED
      BY <2>2, <2>4, <3>1
  <2> QED
    BY <2>3, <2>4
<1>22. CASE On(t)
  <2>1. refcount' = refcount /\ ~ \E i \in Made : Closes(t, i)
    BY <1>22 DEF On, Goto, Take, Drop, DropNested, DropReentrant, Closes
  <2> QED
    BY <2>1
<1>23. CASE Link(t)
  <2>1. refcount' = refcount /\ ~ \E i \in Made : Closes(t, i)
    BY <1>23 DEF Link, Goto, Take, Drop, DropNested, DropReentrant, LinkAndCollect, Closes
  <2> QED
    BY <2>1
<1>24. CASE Unlink(t)
  <2>1. refcount' = refcount /\ ~ \E i \in Made : Closes(t, i)
    BY <1>24 DEF Unlink, Goto, Take, Drop, DropNested, DropReentrant, LinkAndCollect, Closes
  <2> QED
    BY <2>1
<1>25. CASE Free(t)
  <2>1. refcount' = refcount /\ ~ \E i \in Made : Closes(t, i)
    BY <1>25 DEF Free, Goto, Closes
  <2> QED
    BY <2>1
<1>26. CASE DelCas(t)
  <2>1. pc[t] = "delCas"
    BY <1>26 DEF DelCas
  <2>2. \A i \in Made : Closes(t, i) <=> refcount[i] = 0 /\ it[t] = i
    BY <2>1 DEF Closes
  <2>3. CASE refcount[it[t]] = 0
    <3>1. refcount' = [refcount EXCEPT ![it[t]] = Deleting]
      BY <1>26, <2>3 DEF DelCas, CanBeRemoved
    <3> QED
      BY <2>2, <2>3, <3>1
  <2>4. CASE refcount[it[t]] # 0
    <3>1. refcount' = refcount
      BY <1>26, <2>4 DEF DelCas, CanBeRemoved
    <3> QED
      BY <2>2, <2>4, <3>1
  <2> QED
    BY <2>3, <2>4
<1>27. CASE DelMark(t)
  <2>1. refcount' = refcount /\ ~ \E i \in Made : Closes(t, i)
    BY <1>27 DEF DelMark, Goto, Closes
  <2> QED
    BY <2>1
<1> HIDE <1>g, <1>m DEF Types, tables, counters, locks, locals, ghosts, CountEffect, Deleting
<1> QED
  BY <1>a, <1>1, <1>2, <1>3, <1>4, <1>5, <1>6, <1>7, <1>8, <1>9, <1>10, <1>11, <1>12, <1>13, <1>14, <1>15, <1>16, <1>17, <1>18, <1>19, <1>20, <1>21, <1>22, <1>23, <1>24, <1>25, <1>26, <1>27 DEF Begin, Continue

\* The list without the order: each item once, those that it should hold, and none
\* disappears that somebody holds.
ListEffect(t) ==
  /\ \A j, k \in DOMAIN list' : list'[j] = list'[k] => j = k
  /\ \A i \in Listed : i \in Listed' \/ (CanWrite(listLock, t) /\ ~(refcount[i] > 0))
  /\ Listed' = (Made \ (freed \cup OffItems))'

LEMMA Linked ==
  ASSUME Consistent, NEW t \in Threads, pc[t] = "link"
  PROVE  it[t] \in Made /\ refcount[it[t]] > 0 /\ it[t] \notin freed
<1>1. slot[<<t, "held">>] = it[t] /\ it[t] # None /\ <<t, "held">> \in Refs
  BY DEF Consistent, Placed, Flow, Owns, Points, Refs, Slots
<1>2. it[t] \in Made /\ refcount[it[t]] > 0
  BY <1>1, Held DEF Consistent, Placed
<1> QED
  BY <1>2 DEF Consistent, Stored, Deleting

\* No other thread keeps off the list what thread t adds or removes.
LEMMA OneOff ==
  ASSUME Consistent, NEW t \in Threads, pc[t] \in {"link", "unlink"}, NEW u \in Threads, u # t, Off(u)
  PROVE  it[u] # it[t]
<1> SUFFICES ASSUME it[u] = it[t] PROVE FALSE
  OBVIOUS
<1>1. OneRemover /\ Uses(t) /\ Uses(u)
  BY DEF Consistent
<1>2. pc[u] = "link" \/ (Removes(u) /\ refcount[it[u]] = Deleting)
  BY <1>1 DEF Off, Removes, Uses
<1>3. pc[t] = "link" \/ (Removes(t) /\ refcount[it[t]] = Deleting)
  BY <1>1 DEF Removes, Uses
<1>4. /\ pc[t] = "link" => refcount[it[t]] # Deleting
      /\ pc[u] = "link" => refcount[it[u]] # Deleting
  BY Linked DEF Deleting
<1> QED
  BY <1>1, <1>2, <1>3, <1>4 DEF OneRemover

LEMMA ListStep ==
  ASSUME Consistent, NEW t \in Threads, Begin(t) \/ Continue(t)
  PROVE  ListEffect(t)
<1>a. Begin(t) \/ Continue(t)
  OBVIOUS
<1>g. /\ Types /\ Stored /\ Exclusive
      /\ \A u \in Threads : Flow(u) /\ Uses(u) /\ Control(u) /\ Points(u) /\ Locked(u)
  BY DEF Consistent, Placed, Flow
<1>d. \A u \in Threads : u # t => (Off(u)' <=> Off(u)) /\ it'[u] = it[u]
  BY OthersSame DEF Consistent, Same, Off
<1>e. Off(t)' /\ ~Off(t) => OffItems' = OffItems \cup {it'[t]}
  BY <1>d DEF OffItems
<1>f. Off(t) /\ ~Off(t)' => /\ OffItems' \cup {it[t]} = OffItems
                            /\ (\A u \in Threads : u # t /\ Off(u) => it[u] # it[t]) => it[t] \notin OffItems'
  BY <1>d DEF OffItems
<1>h. (Off(t)' <=> Off(t)) /\ (Off(t) => it'[t] = it[t]) => OffItems' = OffItems
  BY <1>d DEF OffItems
<1>q. /\ list' = list /\ freed' = freed /\ Made' = Made
      /\ (Off(t)' <=> Off(t)) /\ (Off(t) => it'[t] = it[t])
      => ListEffect(t)
  <2> SUFFICES ASSUME list' = list, freed' = freed, Made' = Made, Off(t)' <=> Off(t), Off(t) => it'[t] = it[t]
               PROVE  ListEffect(t)
    OBVIOUS
  <2>1. OffItems' = OffItems
    BY <1>h
  <2>2. Listed' = Listed
    BY DEF Listed
  <2> QED
    BY <2>1, <2>2, <1>g DEF Stored, ListEffect
<1> USE <1>g DEF Types, tables, counters, locks, locals, ghosts
<1>1. ASSUME NEW n \in Names, SetNew(t, n) PROVE ListEffect(t)
  <2>1. list' = list /\ freed' = freed /\ ~Off(t) /\ Off(t)' /\ it'[t] = allocated'
    BY <1>1 DEF SetNew, MayAlter, Idle, Call, Off, Control
  <2>2. Made' = Made \cup {allocated'} /\ allocated' \notin Made
    BY <1>1, Bounds DEF SetNew, Made
  <2>3. Listed' = Listed /\ Listed \subseteq Made
    BY <2>1, Domain DEF Listed
  <2>4. OffItems' = OffItems \cup {allocated'}
    BY <2>1, <1>e
  <2> QED
    BY <2>1, <2>2, <2>3, <2>4 DEF ListEffect, Stored
<1>2. ASSUME NEW n \in Names, SetFound(t, n) PROVE ListEffect(t)
  <2>1. list' = list /\ freed' = freed /\ Made' = Made
    BY <1>2 DEF SetFound, Call, MayAlter, Idle, Take, Drop, DropNested, DropReentrant, Made
  <2>2. (Off(t)' <=> Off(t)) /\ (Off(t) => it'[t] = it[t])
    BY <1>2 DEF SetFound, Call, MayAlter, Idle, Take, Drop, DropNested, DropReentrant, Off, Control
  <2> QED
    BY <2>1, <2>2, <1>q
<1>3. ASSUME NEW n \in Names, Get(t, n) PROVE ListEffect(t)
  <2>1. list' = list /\ freed' = freed /\ Made' = Made
    BY <1>3 DEF Get, Call, Idle, Take, Drop, DropNested, DropReentrant, Made
  <2>2. (Off(t)' <=> Off(t)) /\ (Off(t) => it'[t] = it[t])
    BY <1>3 DEF Get, Call, Idle, Take, Drop, DropNested, DropReentrant, Off, Control
  <2> QED
    BY <2>1, <2>2, <1>q
<1>4. ASSUME NEW n \in Names, Del(t, n) PROVE ListEffect(t)
  <2>1. list' = list /\ freed' = freed /\ Made' = Made
    BY <1>4 DEF Del, Call, MayAlter, Idle, Made
  <2>2. (Off(t)' <=> Off(t)) /\ (Off(t) => it'[t] = it[t])
    BY <1>4 DEF Del, Call, MayAlter, Idle, Off, Control
  <2> QED
    BY <2>1, <2>2, <1>q
<1>5. ASSUME NEW v \in Threads, NEW s \in {"held", "cur"}, Dup(t, s, v) PROVE ListEffect(t)
  <2>1. list' = list /\ freed' = freed /\ Made' = Made
    BY <1>5 DEF Dup, Idle, Made
  <2>2. (Off(t)' <=> Off(t)) /\ (Off(t) => it'[t] = it[t])
    BY <1>5 DEF Dup, Idle, Off, Control
  <2> QED
    BY <2>1, <2>2, <1>q
<1>6. CASE Entries(t)
  <2>1. list' = list /\ freed' = freed /\ Made' = Made
    BY <1>6 DEF Entries, Call, MayAlter, Idle, Made
  <2>2. (Off(t)' <=> Off(t)) /\ (Off(t) => it'[t] = it[t])
    BY <1>6 DEF Entries, Call, MayAlter, Idle, Off, Control
  <2> QED
    BY <2>1, <2>2, <1>q
<1>7. CASE Release(t)
  <2>1. list' = list /\ freed' = freed /\ Made' = Made
    BY <1>7 DEF Release, Idle, Made
  <2>2. (Off(t)' <=> Off(t)) /\ (Off(t) => it'[t] = it[t])
    BY <1>7 DEF Release, Idle, Off, Control
  <2> QED
    BY <2>1, <2>2, <1>q
<1>8. ASSUME NEW mode \in {"r", "w", "z"}, WalkStart(t, mode) PROVE ListEffect(t)
  <2>1. list' = list /\ freed' = freed /\ Made' = Made
    BY <1>8 DEF WalkStart, Call, Idle, Take, Drop, DropNested, DropReentrant, Made
  <2>2. (Off(t)' <=> Off(t)) /\ (Off(t) => it'[t] = it[t])
    BY <1>8 DEF WalkStart, Call, Idle, Take, Drop, DropNested, DropReentrant, Off, Control
  <2> QED
    BY <2>1, <2>2, <1>q
<1>9. CASE WalkNext(t)
  <2>1. list' = list /\ freed' = freed /\ Made' = Made
    BY <1>9 DEF WalkNext, Idle, Take, Drop, DropNested, DropReentrant, Made
  <2>2. (Off(t)' <=> Off(t)) /\ (Off(t) => it'[t] = it[t])
    BY <1>9 DEF WalkNext, Idle, Take, Drop, DropNested, DropReentrant, Off, Control
  <2> QED
    BY <2>1, <2>2, <1>q
<1>10. CASE WalkDone(t)
  <2>1. list' = list /\ freed' = freed /\ Made' = Made
    BY <1>10 DEF WalkDone, Idle, ReleaseCurrent, Made
  <2>2. (Off(t)' <=> Off(t)) /\ (Off(t) => it'[t] = it[t])
    BY <1>10 DEF WalkDone, Idle, ReleaseCurrent, Off, Control
  <2> QED
    BY <2>1, <2>2, <1>q
<1>11. CASE Load(t)
  <2>1. list' = list /\ freed' = freed /\ Made' = Made
    BY <1>11 DEF Load, Goto, Take, Drop, DropNested, DropReentrant, AfterRefusal, Made
  <2>2. (Off(t)' <=> Off(t)) /\ (Off(t) => it'[t] = it[t])
    BY <1>11 DEF Load, Goto, Take, Drop, DropNested, DropReentrant, AfterRefusal, Off, Control
  <2> QED
    BY <2>1, <2>2, <1>q
<1>12. CASE CasFails(t)
  <2>1. list' = list /\ freed' = freed /\ Made' = Made
    BY <1>12 DEF CasFails, Goto, Swaps, Made
  <2>2. (Off(t)' <=> Off(t)) /\ (Off(t) => it'[t] = it[t])
    BY <1>12 DEF CasFails, Goto, Swaps, Off, Control
  <2> QED
    BY <2>1, <2>2, <1>q
<1>13. CASE Cas(t)
  <2>1. list' = list /\ freed' = freed /\ Made' = Made
    BY <1>13 DEF Cas, Goto, Take, Drop, DropNested, DropReentrant, Acquires, ReleaseCurrent, Swaps, Made
  <2>2. (Off(t)' <=> Off(t)) /\ (Off(t) => it'[t] = it[t])
    BY <1>13 DEF Cas, Goto, Take, Drop, DropNested, DropReentrant, Acquires, ReleaseCurrent, Swaps, Off, Control
  <2> QED
    BY <2>1, <2>2, <1>q
<1>14. CASE Advance(t)
  <2>1. list' = list /\ freed' = freed /\ Made' = Made
    BY <1>14 DEF Advance, Goto, Take, Drop, DropNested, DropReentrant, Collect, AfterGc, ReleaseCurrent, Made
  <2>2. (Off(t)' <=> Off(t)) /\ (Off(t) => it'[t] = it[t])
    BY <1>14 DEF Advance, Goto, Take, Drop, DropNested, DropReentrant, Collect, AfterGc, ReleaseCurrent, Off, Control
  <2> QED
    BY <2>1, <2>2, <1>q
<1>15. CASE GcTry(t)
  <2>1. (Off(t)' <=> Off(t)) /\ it' = it /\ Made' = Made /\ gc[t] /\ pc[t] = "gcTry"
    <3>1. gc[t] /\ pc[t] = "gcTry"
      BY <1>15 DEF GcTry, Control
    <3>2. /\ pc'[t] \in {"load", AfterGc(t)} /\ it' = it /\ Made' = Made
          /\ pc'[t] = "load" => gc'[t] /\ op' = op
          /\ pc'[t] = AfterGc(t) /\ AfterGc(t) # "load" => ~gc'[t]
      BY <1>15 DEF GcTry, Collect, AfterGc, Goto, Made
    <3> QED
      BY <3>1, <3>2 DEF AfterGc, Off, Control
  <2>2. OffItems' = OffItems
    BY <2>1, <1>h
  <2>3. CASE ~CanBeRemoved(at[t])
    <3>1. list' = list /\ freed' = freed
      BY <1>15, <2>3 DEF GcTry
    <3> QED
      BY <2>1, <3>1, <1>q
  <2>4. CASE CanBeRemoved(at[t])
    <3>0. PICK i : i = at[t]
      OBVIOUS
    <3>1. list' = Unlinked(i) /\ freed' = freed \cup {i} /\ refcount[i] = 0
      BY <1>15, <2>4, <3>0 DEF GcTry, CanBeRemoved
    <3>2. i \in Listed
      BY <2>1, <3>0 DEF Uses, Points, LooksUp
    <3>3. /\ Listed' = Listed \ {i}
          /\ \A j, k \in DOMAIN list' : list'[j] = list'[k] => j = k
      BY <3>1, <3>2, Removal DEF Stored
    <3>4. CanWrite(listLock, t)
      BY <2>1 DEF CanWrite, Exclusive, Locked
    <3> QED
      BY <2>1, <2>2, <3>1, <3>2, <3>3, <3>4 DEF ListEffect, Stored
  <2> QED
    BY <2>3, <2>4
<1>16. CASE GcLock(t)
  <2>1. list' = list /\ freed' = freed /\ Made' = Made
    BY <1>16 DEF GcLock, Goto, Take, Drop, DropNested, DropReentrant, Made
  <2>2. (Off(t)' <=> Off(t)) /\ (Off(t) => it'[t] = it[t])
    BY <1>16 DEF GcLock, Goto, Take, Drop, DropNested, DropReentrant, Off, Control
  <2> QED
    BY <2>1, <2>2, <1>q
<1>17. CASE Peek(t)
  <2>1. list' = list /\ freed' = freed /\ Made' = Made
    BY <1>17 DEF Peek, Goto, Made
  <2>2. (Off(t)' <=> Off(t)) /\ (Off(t) => it'[t] = it[t])
    BY <1>17 DEF Peek, Goto, Off, Control
  <2> QED
    BY <2>1, <2>2, <1>q
<1>18. CASE ReadFlag(t)
  <2>1. list' = list /\ freed' = freed /\ Made' = Made
    BY <1>18 DEF ReadFlag, Goto, Releases, Made
  <2>2. (Off(t)' <=> Off(t)) /\ (Off(t) => it'[t] = it[t])
    BY <1>18 DEF ReadFlag, Goto, Releases, Off, Control
  <2> QED
    BY <2>1, <2>2, <1>q
<1>19. CASE Decrement(t)
  <2>1. list' = list /\ freed' = freed /\ Made' = Made
    BY <1>19 DEF Decrement, Goto, Releases, AfterRelease, Made
  <2>2. (Off(t)' <=> Off(t)) /\ (Off(t) => it'[t] = it[t])
    BY <1>19 DEF Decrement, Goto, Releases, AfterRelease, Off, Control
  <2> QED
    BY <2>1, <2>2, <1>q
<1>20. CASE Count(t)
  <2>1. list' = list /\ freed' = freed /\ Made' = Made
    BY <1>20 DEF Count, Goto, Releases, AfterRelease, Made
  <2>2. (Off(t)' <=> Off(t)) /\ (Off(t) => it'[t] = it[t])
    BY <1>20 DEF Count, Goto, Releases, AfterRelease, Off, Control
  <2> QED
    BY <2>1, <2>2, <1>q
<1>21. CASE Try(t)
  <2>1. list' = list /\ freed' = freed /\ Made' = Made
    BY <1>21 DEF Try, Goto, CanBeRemoved, Made
  <2>2. (Off(t)' <=> Off(t)) /\ (Off(t) => it'[t] = it[t])
    BY <1>21 DEF Try, Goto, CanBeRemoved, Off, Control
  <2> QED
    BY <2>1, <2>2, <1>q
<1>22. CASE On(t)
  <2>1. list' = list /\ freed' = freed /\ Made' = Made
    BY <1>22 DEF On, Goto, Take, Drop, DropNested, DropReentrant, Made
  <2>2. (Off(t)' <=> Off(t)) /\ (Off(t) => it'[t] = it[t])
    BY <1>22 DEF On, Goto, Take, Drop, DropNested, DropReentrant, Off, Control
  <2> QED
    BY <2>1, <2>2, <1>q
<1>23. CASE Link(t)
  <2>0. PICK i : i = it[t]
    OBVIOUS
  <2>1. i \in Made /\ i \notin freed
    BY <1>23, <2>0, Linked DEF Link
  <2>2. Off(t) /\ ~Off(t)' /\ list' = Append(list, i) /\ freed' = freed /\ Made' = Made
    <3>1. op[t] = "set" /\ ~gc[t] /\ pc[t] = "link"
      BY <1>23 DEF Link, Control
    <3>2. pc'[t] \in {"advance", "idle"} /\ op'[t] \in {"set", "none"} /\ list' = Append(list, i)
      BY <1>23, <2>0, <3>1 DEF Link, LinkAndCollect, Goto
    <3> QED
      BY <1>23, <3>1, <3>2 DEF Link, Off, Made
  <2>3. i \in OffItems /\ i \notin Listed
    BY <2>0, <2>2 DEF Stored, OffItems
  <2>4. /\ Listed' = Listed \cup {i}
        /\ \A j, k \in DOMAIN list' : list'[j] = list'[k] => j = k
    BY <2>1, <2>2, <2>3, Longer DEF Stored
  <2>5. \A u \in Threads : u # t /\ Off(u) => it[u] # i
    BY <1>23, <2>0, OneOff DEF Link
  <2>6. OffItems' = OffItems \ {i}
    BY <2>0, <2>2, <2>5, <1>f
  <2> QED
    BY <2>1, <2>2, <2>3, <2>4, <2>6 DEF ListEffect, Stored
<1>24. CASE Unlink(t)
  <2>0. PICK i : i = it[t]
    OBVIOUS
  <2>1. i \in Made /\ refcount[i] = Deleting /\ i \notin freed /\ ~Off(t)
    BY <1>24, <2>0 DEF Unlink, Uses, Removes, Points, Known, Off, Control
  <2>2. Off(t)' /\ it'[t] = i /\ list' = Unlinked(i) /\ freed' = freed /\ Made' = Made /\ CanWrite(listLock, t)
    <3>1. op[t] \in {"del", "next", "done"} /\ pc[t] = "unlink"
      BY <1>24 DEF Unlink, Control
    <3>2. /\ pc'[t] = "free" \/ (gc'[t] /\ op' = op)
          /\ list' = Unlinked(i) /\ CanWrite(listLock, t)
      BY <1>24, <2>0, <3>1 DEF Unlink, LinkAndCollect, Goto
    <3> QED
      BY <1>24, <2>0, <3>1, <3>2 DEF Unlink, Off, Made
  <2>3. i \notin OffItems
    BY <1>24, <2>0, <2>1, OneOff DEF Unlink, OffItems
  <2>4. i \in Listed
    BY <2>1, <2>3 DEF Stored
  <2>5. /\ Listed' = Listed \ {i}
        /\ \A j, k \in DOMAIN list' : list'[j] = list'[k] => j = k
    BY <2>2, <2>4, Removal DEF Stored
  <2>6. OffItems' = OffItems \cup {i}
    BY <2>1, <2>2, <1>e
  <2> QED
    BY <2>1, <2>2, <2>5, <2>6 DEF ListEffect, Stored, Deleting
<1>25. CASE Free(t)
  <2>1. Off(t) /\ ~Off(t)' /\ list' = list /\ freed' = freed \cup {it[t]} /\ Made' = Made
    <3>1. ~gc[t] /\ pc[t] = "free"
      BY <1>25 DEF Free, Control
    <3> QED
      BY <1>25, <3>1 DEF Free, Goto, Off, Made
  <2>2. Listed' = Listed
    BY <2>1 DEF Listed
  <2>3. OffItems' \cup {it[t]} = OffItems
    BY <2>1, <1>f
  <2> QED
    BY <2>1, <2>2, <2>3 DEF ListEffect, Stored
<1>26. CASE DelCas(t)
  <2>1. list' = list /\ freed' = freed /\ Made' = Made
    BY <1>26 DEF DelCas, Goto, CanBeRemoved, Made
  <2>2. (Off(t)' <=> Off(t)) /\ (Off(t) => it'[t] = it[t])
    BY <1>26 DEF DelCas, Goto, CanBeRemoved, Off, Control
  <2> QED
    BY <2>1, <2>2, <1>q
<1>27. CASE DelMark(t)
  <2>1. list' = list /\ freed' = freed /\ Made' = Made
    BY <1>27 DEF DelMark, Goto, Made
  <2>2. (Off(t)' <=> Off(t)) /\ (Off(t) => it'[t] = it[t])
    BY <1>27 DEF DelMark, Goto, Off, Control
  <2> QED
    BY <2>1, <2>2, <1>q
<1> HIDE <1>g DEF Types, tables, counters, locks, locals, ghosts
<1> QED
  BY <1>a, <1>1, <1>2, <1>3, <1>4, <1>5, <1>6, <1>7, <1>8, <1>9, <1>10, <1>11, <1>12, <1>13, <1>14, <1>15, <1>16, <1>17, <1>18, <1>19, <1>20, <1>21, <1>22, <1>23, <1>24, <1>25, <1>26, <1>27 DEF Begin, Continue

\* A new item is unmarked and in use, and an entry of the index stays the only one of its item.
NewEffect ==
  /\ Made \subseteq Made'
  /\ \A i \in Made' \ Made : i \notin marked' /\ i \notin freed' /\ refcount'[i] = 1
  /\ \A n, m \in Names : index'[n] = index'[m] /\ index'[n] # None => n = m

LEMMA NewStep ==
  ASSUME Consistent, NEW t \in Threads, Begin(t) \/ Continue(t)
  PROVE  NewEffect
<1>a. Begin(t) \/ Continue(t)
  OBVIOUS
<1>g. Types /\ Stored
  BY DEF Consistent, Placed
<1> USE <1>g DEF Types, Stored, NewEffect, tables, counters, locks, locals, ghosts
<1>1. ASSUME NEW n \in Names, SetNew(t, n) PROVE NewEffect
  <2>0. PICK i : i = allocated'
    OBVIOUS
  <2>1. /\ Made' = Made \cup {i} /\ i \notin Made /\ i \in Items
        /\ marked' = marked /\ freed' = freed /\ refcount' = [refcount EXCEPT ![i] = 1]
        /\ index' = [index EXCEPT ![n] = i]
    BY <1>1, <2>0, Bounds DEF SetNew, Made, Items
  <2>2. \A m \in Names : index[m] # i
    BY <2>1 DEF Known, None, Items
  <2> QED
    BY <2>1, <2>2
<1>2. ASSUME NEW n \in Names, SetFound(t, n) PROVE NewEffect
  <2>1. allocated' = allocated /\ index' = index
    BY <1>2 DEF SetFound, Call, MayAlter, Idle, Take, Drop, DropNested, DropReentrant
  <2> QED
    BY <2>1 DEF Made
<1>3. ASSUME NEW n \in Names, Get(t, n) PROVE NewEffect
  <2>1. allocated' = allocated /\ index' = index
    BY <1>3 DEF Get, Call, Idle, Take, Drop, DropNested, DropReentrant
  <2> QED
    BY <2>1 DEF Made
<1>4. ASSUME NEW n \in Names, Del(t, n) PROVE NewEffect
  <2>1. allocated' = allocated /\ index' = [index EXCEPT ![n] = None]
    BY <1>4 DEF Del
  <2> QED
    BY <2>1 DEF Made
<1>5. ASSUME NEW v \in Threads, NEW s \in {"held", "cur"}, Dup(t, s, v) PROVE NewEffect
  <2>1. allocated' = allocated /\ index' = index
    BY <1>5 DEF Dup, Idle
  <2> QED
    BY <2>1 DEF Made
<1>6. CASE Entries(t)
  <2>1. allocated' = allocated /\ index' = index
    BY <1>6 DEF Entries, Call, MayAlter, Idle
  <2> QED
    BY <2>1 DEF Made
<1>7. CASE Release(t)
  <2>1. allocated' = allocated /\ index' = index
    BY <1>7 DEF Release, Idle
  <2> QED
    BY <2>1 DEF Made
<1>8. ASSUME NEW mode \in {"r", "w", "z"}, WalkStart(t, mode) PROVE NewEffect
  <2>1. allocated' = allocated /\ index' = index
    BY <1>8 DEF WalkStart, Call, Idle, Take, Drop, DropNested, DropReentrant
  <2> QED
    BY <2>1 DEF Made
<1>9. CASE WalkNext(t)
  <2>1. allocated' = allocated /\ index' = index
    BY <1>9 DEF WalkNext, Idle, Take, Drop, DropNested, DropReentrant
  <2> QED
    BY <2>1 DEF Made
<1>10. CASE WalkDone(t)
  <2>1. allocated' = allocated /\ index' = index
    BY <1>10 DEF WalkDone, Idle, ReleaseCurrent
  <2> QED
    BY <2>1 DEF Made
<1>11. CASE Load(t)
  <2>1. allocated' = allocated /\ index' = index
    BY <1>11 DEF Load, Goto, Take, Drop, DropNested, DropReentrant, AfterRefusal
  <2> QED
    BY <2>1 DEF Made
<1>12. CASE CasFails(t)
  <2>1. allocated' = allocated /\ index' = index
    BY <1>12 DEF CasFails, Goto, Swaps
  <2> QED
    BY <2>1 DEF Made
<1>13. CASE Cas(t)
  <2>1. allocated' = allocated /\ index' = index
    BY <1>13 DEF Cas, Goto, Take, Drop, DropNested, DropReentrant, Acquires, ReleaseCurrent, Swaps
  <2> QED
    BY <2>1 DEF Made
<1>14. CASE Advance(t)
  <2>1. allocated' = allocated /\ index' = index
    BY <1>14 DEF Advance, Goto, Take, Drop, DropNested, DropReentrant, Collect, AfterGc, ReleaseCurrent
  <2> QED
    BY <2>1 DEF Made
<1>15. CASE GcTry(t)
  <2>1. allocated' = allocated /\ index' = index
    BY <1>15 DEF GcTry, Goto, Take, Drop, DropNested, DropReentrant, Collect, AfterGc, ReleaseCurrent, CanBeRemoved
  <2> QED
    BY <2>1 DEF Made
<1>16. CASE GcLock(t)
  <2>1. allocated' = allocated /\ index' = index
    BY <1>16 DEF GcLock, Goto, Take, Drop, DropNested, DropReentrant
  <2> QED
    BY <2>1 DEF Made
<1>17. CASE Peek(t)
  <2>1. allocated' = allocated /\ index' = index
    BY <1>17 DEF Peek, Goto
  <2> QED
    BY <2>1 DEF Made
<1>18. CASE ReadFlag(t)
  <2>1. allocated' = allocated /\ index' = index
    BY <1>18 DEF ReadFlag, Goto, Releases
  <2> QED
    BY <2>1 DEF Made
<1>19. CASE Decrement(t)
  <2>1. allocated' = allocated /\ index' = index
    BY <1>19 DEF Decrement, Goto, Releases, AfterRelease
  <2> QED
    BY <2>1 DEF Made
<1>20. CASE Count(t)
  <2>1. allocated' = allocated /\ index' = index
    BY <1>20 DEF Count, Goto, Releases, AfterRelease
  <2> QED
    BY <2>1 DEF Made
<1>21. CASE Try(t)
  <2>1. allocated' = allocated /\ index' = index
    BY <1>21 DEF Try, Goto, CanBeRemoved
  <2> QED
    BY <2>1 DEF Made
<1>22. CASE On(t)
  <2>1. allocated' = allocated /\ index' = index
    BY <1>22 DEF On, Goto, Take, Drop, DropNested, DropReentrant
  <2> QED
    BY <2>1 DEF Made
<1>23. CASE Link(t)
  <2>1. allocated' = allocated /\ index' = index
    BY <1>23 DEF Link, Goto, Take, Drop, DropNested, DropReentrant, LinkAndCollect
  <2> QED
    BY <2>1 DEF Made
<1>24. CASE Unlink(t)
  <2>1. allocated' = allocated /\ index' = index
    BY <1>24 DEF Unlink, Goto, Take, Drop, DropNested, DropReentrant, LinkAndCollect
  <2> QED
    BY <2>1 DEF Made
<1>25. CASE Free(t)
  <2>1. allocated' = allocated /\ index' = index
    BY <1>25 DEF Free, Goto
  <2> QED
    BY <2>1 DEF Made
<1>26. CASE DelCas(t)
  <2>1. allocated' = allocated /\ index' = index
    BY <1>26 DEF DelCas, Goto, CanBeRemoved
  <2> QED
    BY <2>1 DEF Made
<1>27. CASE DelMark(t)
  <2>1. allocated' = allocated /\ index' = index
    BY <1>27 DEF DelMark, Goto
  <2> QED
    BY <2>1 DEF Made
<1> HIDE <1>g DEF Types, Stored, NewEffect, tables, counters, locks, locals, ghosts
<1> QED
  BY <1>a, <1>1, <1>2, <1>3, <1>4, <1>5, <1>6, <1>7, <1>8, <1>9, <1>10, <1>11, <1>12, <1>13, <1>14, <1>15, <1>16, <1>17, <1>18, <1>19, <1>20, <1>21, <1>22, <1>23, <1>24, <1>25, <1>26, <1>27 DEF Begin, Continue

LEMMA StoredStep ==
  ASSUME Consistent, NEW t \in Threads, Begin(t) \/ Continue(t)
  PROVE  Stored'
<1>g. Types /\ Types' /\ Stored /\ Uses(t) /\ Flow(t) /\ Placed /\ Counting
  BY TypesStep DEF Consistent, Placed
<1>1. IndexEffect(t) /\ MarkEffect(t) /\ CountEffect(t) /\ ListEffect(t) /\ NewEffect
  BY <1>g, IndexStep, MarkStep, CountsStep, ListStep, NewStep
<1>2. ASSUME NEW i \in Indexed' PROVE i \notin marked' /\ refcount'[i] # Deleting
  <2>1. i \in Made'
    BY <1>g DEF Types, Indexed, Known
  <2>2. CASE i \notin Made
    BY <1>1, <2>1, <2>2 DEF NewEffect, Deleting
  <2>3. CASE i \in Made
    <3>1. i \in Indexed /\ i \notin marked /\ refcount[i] # Deleting
      BY <1>1, <1>2, <1>g, <2>3 DEF IndexEffect, Stored
    <3>2. ~(pc[t] = "delMark" /\ i = it[t])
      BY <1>g, <3>1 DEF Uses, Removes
    <3>3. ~Closes(t, i)
      BY <1>g, <3>1 DEF Closes, Uses, Removes, Flow, Walking
    <3> QED
      BY <1>1, <2>3, <3>1, <3>2, <3>3 DEF MarkEffect, CountEffect
  <2> QED
    BY <2>2, <2>3
<1>3. ASSUME NEW i \in freed' PROVE refcount'[i] = Deleting
  <2>1. i \in Made
    BY <1>1, <1>g DEF Types, NewEffect
  <2>2. refcount[i] = Deleting \/ Closes(t, i)
    <3>1. CASE i \in freed
      BY <1>g, <3>1 DEF Stored
    <3>2. CASE pc[t] = "free" /\ i = it[t]
      BY <1>g, <3>2 DEF Uses, Removes, Off
    <3> QED
      BY <1>1, <1>3, <3>1, <3>2 DEF MarkEffect
  <2> QED
    BY <1>1, <2>1, <2>2 DEF CountEffect
<1> QED
  BY <1>1, <1>2, <1>3 DEF Stored, NewEffect, ListEffect

\* What the step makes of what another thread knows.
LEMMA OthersUse ==
  ASSUME Consistent, NEW t \in Threads, Begin(t) \/ Continue(t), NEW u \in Threads, u # t
  PROVE  Uses(u)'
<1>g. /\ Types /\ Stored /\ Uses(t) /\ Uses(u) /\ Flow(t) /\ Flow(u) /\ Exclusive /\ OneRemover /\ Placed /\ Counting
  BY DEF Consistent, Placed
<1>1. IndexEffect(t) /\ MarkEffect(t) /\ CountEffect(t) /\ ListEffect(t)
  BY <1>g, IndexStep, MarkStep, CountsStep, ListStep
<1>2. /\ Same(u) /\ (LooksUp(u)' <=> LooksUp(u)) /\ (Removes(u)' <=> Removes(u)) /\ (Off(u)' <=> Off(u))
      /\ at'[u] = at[u] /\ it'[u] = it[u] /\ pc'[u] = pc[u] /\ mine'[u] = mine[u]
      /\ slot'[<<u, "cur">>] = slot[<<u, "cur">>] /\ slot'[<<u, "next">>] = slot[<<u, "next">>]
  BY OthersSame, <1>g DEF Same, LooksUp, Removes, Off
<1>3. LooksUp(u) => at[u] \in Indexed'
  BY <1>g, <1>1 DEF Uses, IndexEffect, Flow, Locked, CanWrite
<1>4. at[u] # None /\ ~LooksUp(u) => at[u] \in Listed'
  <2>1. at[u] # None /\ ~LooksUp(u) => at[u] \in Listed /\ listLock[u] # "no"
    BY <1>g DEF Uses, Flow, Points, Locked, Seeks
  <2> QED
    BY <1>1, <2>1 DEF ListEffect, CanWrite
<1>5. pc[u] = "gcTry" => at[u] \in marked'
  BY <1>g, <1>1 DEF Uses, MarkEffect
<1>6. \A s \in {"cur", "next"} : slot[<<u, s>>] # None => slot[<<u, s>>] \in Listed'
  <2>1. \A s \in {"cur", "next"} : slot[<<u, s>>] # None => slot[<<u, s>>] \in Listed /\ refcount[slot[<<u, s>>]] > 0
    BY <1>g, Held DEF Uses, Refs, Slots
  <2> QED
    BY <1>1, <2>1 DEF ListEffect
<1>7. Removes(u) \/ mine[u] => it[u] \in Made
  BY <1>g DEF Flow, Points, Types, Known
<1>8. Removes(u) \/ mine[u] => /\ ~(pc[t] \in {"delCas", "delMark", "free"} /\ it[t] = it[u])
                               /\ ~(pc[t] = "try" /\ it[t] = it[u])
  BY <1>g DEF OneRemover, Removes, Flow, Walking
<1>9. Removes(u) \/ mine[u] => ~Closes(t, it[u])
  <2>1. pc[t] = "gcTry" => at[t] \in marked /\ listLock[t] = "w"
    BY <1>g DEF Uses, Flow, Control, Locked
  <2>2. mine[u] => listLock[u] = "w"
    BY <1>g DEF Flow, Walking, Locked
  <2>3. Removes(u) => it[u] \notin marked \/ refcount[it[u]] = Deleting
    BY <1>g DEF Removes, Uses, Off
  <2> QED
    BY <1>8, <1>g, <2>1, <2>2, <2>3 DEF Closes, Exclusive, Deleting
<1>10. pc[u] \in {"delCas", "delMark"} => it[u] \notin marked' /\ refcount'[it[u]] # Deleting
  BY <1>g, <1>1, <1>7, <1>8, <1>9 DEF Uses, Removes, MarkEffect, CountEffect
<1>11. pc[u] = "unlink" \/ (Removes(u) /\ Off(u)) => refcount'[it[u]] = Deleting
  BY <1>g, <1>1, <1>7 DEF Uses, Removes, CountEffect
<1>12. Removes(u) => it[u] \notin Indexed' \cup freed'
  BY <1>g, <1>1, <1>7, <1>8, <1>9 DEF Uses, IndexEffect, MarkEffect
<1>13. mine[u] => it[u] \in marked' \ freed' /\ refcount'[it[u]] # Deleting
  BY <1>g, <1>1, <1>7, <1>8, <1>9 DEF Uses, MarkEffect, CountEffect
<1>14. mine[u] /\ slot[<<u, "cur">>] # None => it[u] = slot[<<u, "cur">>]
  BY <1>g DEF Uses
<1> QED
  BY <1>2, <1>3, <1>4, <1>5, <1>6, <1>10, <1>11, <1>12, <1>13, <1>14 DEF Uses

LEMMA OwnUse ==
  ASSUME Consistent, NEW t \in Threads, Begin(t) \/ Continue(t)
  PROVE  Uses(t)'
<1>a. Begin(t) \/ Continue(t)
  OBVIOUS
<1>g. /\ Types /\ Stored /\ Uses(t) /\ Control(t) /\ Walking(t) /\ Owns(t) /\ Points(t) /\ Exclusive /\ Placed /\ Counting
  BY DEF Consistent, Placed, Flow
<1>e. IndexEffect(t) /\ MarkEffect(t) /\ CountEffect(t) /\ ListEffect(t)
  BY <1>g, IndexStep, MarkStep, CountsStep, ListStep
<1>i. /\ index' = index => Indexed' = Indexed
      /\ list' = list => Listed' = Listed
  BY DEF Indexed, Listed
<1>j. /\ \A i : Successor(i) \in Listed \cup {None}
      /\ \A n \in Names : index[n] # None => index[n] \in Indexed
  BY <1>g, Lists DEF Types, Indexed
<1>k. (Removes(t) \/ mine[t]) /\ pc[t] \notin {"delCas", "try", "gcTry"}
      => (refcount'[it[t]] = Deleting <=> refcount[it[t]] = Deleting)
  <2>1. Removes(t) \/ mine[t] => it[t] \in Made
    BY <1>g DEF Points, Types, Known
  <2> QED
    BY <1>e, <2>1 DEF CountEffect, Closes
<1>m. Made \subseteq Items
  BY <1>g, Bounds DEF Types, Made, Items
<1> USE <1>g DEF Types, tables, counters, locks, locals, ghosts, Refs, Slots, None, Uses, LooksUp, Removes, Off, Control, Walking, Owns, Points, Seeks
<1>1. ASSUME NEW n \in Names, SetNew(t, n) PROVE Uses(t)'
  BY <1>1, <1>i, <1>j DEF SetNew, Call, MayAlter, Idle
<1>2. ASSUME NEW n \in Names, SetFound(t, n) PROVE Uses(t)'
  BY <1>2, <1>i, <1>j DEF SetFound, Call, MayAlter, Idle, Take, Drop, DropNested, DropReentrant
<1>3. ASSUME NEW n \in Names, Get(t, n) PROVE Uses(t)'
  BY <1>3, <1>i, <1>j DEF Get, Call, Idle, Take, Drop, DropNested, DropReentrant
<1>4. ASSUME NEW n \in Names, Del(t, n) PROVE Uses(t)'
  <2>1. /\ pc'[t] = "delCas" /\ op'[t] = "del" /\ it'[t] = index[n] /\ index[n] \in Indexed
        /\ index' = [index EXCEPT ![n] = None] /\ ~gc[t] /\ ~mine[t] /\ at[t] = None
        /\ UNCHANGED <<at, gc, mine, slot, list, marked, freed, refcount>>
    BY <1>4, <1>j DEF Del, Call, MayAlter, Idle
  <2>2. it'[t] \notin marked /\ refcount[it'[t]] # Deleting /\ it'[t] \notin freed /\ it'[t] # None
    BY <1>4, <2>1 DEF Stored, Del
  <2>3. it'[t] \notin Indexed'
    BY <2>1, <2>2 DEF Stored, Indexed
  <2>4. Listed' = Listed
    BY <2>1, <1>i
  <2> QED
    BY <2>1, <2>2, <2>3, <2>4
<1>5. ASSUME NEW v \in Threads, NEW s \in {"held", "cur"}, Dup(t, s, v) PROVE Uses(t)'
  BY <1>5, <1>i, <1>j DEF Dup, Idle
<1>6. CASE Entries(t)
  BY <1>6, <1>i, <1>j DEF Entries, Call, MayAlter, Idle
<1>7. CASE Release(t)
  BY <1>7, <1>i, <1>j DEF Release, Idle
<1>8. ASSUME NEW mode \in {"r", "w", "z"}, WalkStart(t, mode) PROVE Uses(t)'
  BY <1>8, <1>i, <1>j DEF WalkStart, Call, Idle, Take, Drop, DropNested, DropReentrant
<1>9. CASE WalkNext(t)
  BY <1>9, <1>i, <1>j DEF WalkNext, Idle, Take, Drop, DropNested, DropReentrant
<1>10. CASE WalkDone(t)
  BY <1>10, <1>i, <1>j DEF WalkDone, Idle, ReleaseCurrent
<1>11. CASE Load(t)
  BY <1>11, <1>i, <1>j DEF Load, Goto, Take, Drop, DropNested, DropReentrant, AfterRefusal
<1>12. CASE CasFails(t)
  BY <1>12, <1>i, <1>j DEF CasFails, Goto, Swaps
<1>13. CASE Cas(t)
  <2>1. /\ slot' = [slot EXCEPT ![<<t, Acquires(t)>>] = at[t]] /\ pc[t] = "cas"
        /\ UNCHANGED <<index, list, marked, freed, it, gc, mine>>
        /\ (IF gc[t] THEN at' = at /\ pc'[t] = "flag" /\ op' = op
            ELSE at'[t] = None /\ pc'[t] \in {"peek", "flag", "idle"} /\ op'[t] \in {op[t], "none"})
    BY <1>13 DEF Cas, Goto, ReleaseCurrent
  <2>2. Indexed' = Indexed /\ Listed' = Listed
    BY <2>1, <1>i
  <2>3. ~LooksUp(t) => at[t] \in Listed
    BY <2>1
  <2>4. \A s \in {"cur", "next"} : slot'[<<t, s>>] # None => slot'[<<t, s>>] \in Listed
    <3>1. \A s \in {"cur", "next"} : s # Acquires(t) => slot'[<<t, s>>] = slot[<<t, s>>]
      BY <2>1
    <3>2. Acquires(t) \in {"cur", "next"} => slot'[<<t, Acquires(t)>>] = at[t] /\ ~LooksUp(t)
      BY <2>1 DEF Acquires
    <3>3. ASSUME NEW s \in {"cur", "next"}, slot'[<<t, s>>] # None PROVE slot'[<<t, s>>] \in Listed
      <4>1. CASE s = Acquires(t)
        BY <2>3, <3>2, <4>1
      <4>2. CASE s # Acquires(t)
        BY <3>1, <3>3, <4>2
      <4> QED
        BY <4>1, <4>2
    <3> QED
      BY <3>3
  <2>5. ~mine[t]
    BY <2>1
  <2>6. Removes(t)' => Removes(t) /\ (Off(t)' <=> Off(t)) /\ pc'[t] = "flag"
    BY <2>1
  <2>7. Removes(t) => refcount'[it[t]] = Deleting
    BY <2>1, <1>k
  <2> QED
    BY <2>1, <2>2, <2>3, <2>4, <2>5, <2>6, <2>7
<1>14. CASE Advance(t)
  BY <1>14, <1>i, <1>j DEF Advance, Goto, Take, Drop, DropNested, DropReentrant, Collect, AfterGc, ReleaseCurrent
<1>15. CASE GcTry(t)
  <2>0. gc[t] /\ pc[t] = "gcTry" /\ at[t] \in Listed /\ at[t] \in Made /\ at[t] \in marked /\ ~mine[t]
    BY <1>15 DEF GcTry, Known
  <2>1. /\ UNCHANGED <<index, slot, marked, it, mine>>
        /\ pc'[t] \in {"load", AfterGc(t)}
        /\ pc'[t] = "load" => gc'[t] /\ op' = op
        /\ pc'[t] # "load" => ~gc'[t] /\ op'[t] \in {op[t], "none"} /\ at'[t] = None
        /\ at'[t] \in {None, Successor(at[t])}
    BY <1>15 DEF GcTry, Collect, AfterGc, Goto
  <2>2. Indexed' = Indexed
    BY <2>1, <1>i
  <2>3. at'[t] # None => at'[t] \in Listed'
    <3>1. Successor(at[t]) # at[t]
      BY <2>0, Onward DEF Stored
    <3>2. CASE CanBeRemoved(at[t])
      <4>0. PICK i : i = at[t]
        OBVIOUS
      <4>1. list' = Unlinked(i) /\ i \in Listed
        BY <1>15, <2>0, <3>2, <4>0 DEF GcTry
      <4>2. Listed' = Listed \ {i}
        BY <4>1, Removal DEF Stored
      <4> QED
        BY <2>1, <3>1, <4>0, <4>2, <1>j
    <3>3. CASE ~CanBeRemoved(at[t])
      <4>1. list' = list
        BY <1>15, <3>3 DEF GcTry
      <4> QED
        BY <2>1, <4>1, <1>j, <1>i
    <3> QED
      BY <3>2, <3>3
  <2>4. \A s \in {"cur", "next"} : slot[<<t, s>>] # None => slot[<<t, s>>] \in Listed'
    <3>1. \A s \in {"cur", "next"} : slot[<<t, s>>] # None => refcount[slot[<<t, s>>]] > 0 /\ slot[<<t, s>>] \in Listed
      BY <1>g, Held
    <3> QED
      BY <3>1, <1>e DEF ListEffect
  <2>5. Removes(t)' => Removes(t) /\ Off(t) /\ it'[t] = it[t] /\ it[t] \in Made
    BY <2>0, <2>1 DEF AfterGc, Known
  <2>6. Removes(t) => refcount[it[t]] = Deleting /\ it[t] \in Made
    BY <2>0 DEF Known
  <2>7. Removes(t) => refcount'[it[t]] = Deleting /\ it[t] \notin freed'
    BY <1>e, <2>0, <2>6 DEF CountEffect, MarkEffect, Closes, Deleting
  <2>8. pc'[t] \notin {"gcTry", "delCas", "delMark", "unlink"} /\ ~LooksUp(t)'
    BY <2>1 DEF AfterGc
  <2> QED
    BY <2>1, <2>2, <2>3, <2>4, <2>5, <2>7, <2>8, <2>0
<1>16. CASE GcLock(t)
  BY <1>16, <1>i, <1>j DEF GcLock, Goto, Take, Drop, DropNested, DropReentrant
<1>17. CASE Peek(t)
  <2> DEFINE i == slot[<<t, "cur">>]
  <2>1. i # None /\ i \in Listed /\ ~gc[t] /\ ~mine[t] /\ at[t] = None
    BY <1>17 DEF Peek
  <2>2. /\ pc'[t] = "flag" /\ op' = op /\ mine'[t] = (i \in marked) /\ it'[t] = IF i \in marked THEN i ELSE None
        /\ UNCHANGED <<index, list, slot, marked, freed, refcount, at, gc>>
    BY <1>17 DEF Peek, Goto
  <2>3. refcount[i] > 0
    BY <1>g, <2>1, Held
  <2>4. refcount[i] # Deleting /\ i \notin freed
    BY <2>3 DEF Stored, Deleting
  <2>5. Indexed' = Indexed /\ Listed' = Listed
    BY <2>2, <1>i
  <2> QED
    <3>1. CASE i \in marked
      <4>1. mine'[t] /\ it'[t] = i
        BY <2>2, <3>1
      <4> QED
        BY <2>1, <2>2, <2>4, <2>5, <3>1, <4>1
    <3>2. CASE i \notin marked
      <4>1. ~mine'[t]
        BY <2>2, <3>2
      <4> QED
        BY <2>1, <2>2, <2>5, <4>1
    <3> QED
      BY <3>1, <3>2
<1>18. CASE ReadFlag(t)
  BY <1>18, <1>i, <1>j DEF ReadFlag, Goto, Releases
<1>19. CASE Decrement(t)
  <2>1. /\ slot' = [slot EXCEPT ![<<t, Releases(t)>>] = None] /\ pc[t] = "dec"
        /\ UNCHANGED <<index, list, marked, freed, it, gc, mine, at>>
        /\ pc'[t] \in {"count", "advance", "idle", "try", "on"}
        /\ op'[t] \in {op[t], "none"}
        /\ pc'[t] # "idle" => op'[t] = op[t]
    BY <1>19 DEF Decrement, Goto, AfterRelease
  <2>2. Indexed' = Indexed /\ Listed' = Listed
    BY <2>1, <1>i
  <2>3. \A s \in {"cur", "next"} : slot'[<<t, s>>] \in {None, slot[<<t, s>>]}
    BY <2>1
  <2>4. Removes(t) \/ mine[t] => (refcount'[it[t]] = Deleting <=> refcount[it[t]] = Deleting)
    BY <2>1, <1>k
  <2>5. (Removes(t)' => Removes(t) /\ Off(t)) /\ ~LooksUp(t)' /\ (at[t] # None => ~LooksUp(t))
    BY <2>1
  <2> QED
    BY <2>1, <2>2, <2>3, <2>4, <2>5
<1>20. CASE Count(t)
  BY <1>20, <1>i, <1>j DEF Count, Goto, Releases, AfterRelease
<1>21. CASE Try(t)
  <2>1. /\ pc[t] = "try" /\ ~gc[t] /\ mine[t] /\ at[t] = None /\ it[t] \in Made
        /\ ~mine'[t] /\ UNCHANGED <<index, list, slot, marked, freed, at, gc>>
        /\ \/ pc'[t] = "on" /\ op' = op
           \/ pc'[t] = "unlink" /\ op' = op /\ it' = it /\ refcount' = [refcount EXCEPT ![it[t]] = Deleting]
    BY <1>21 DEF Try, Goto, Known
  <2>2. Indexed' = Indexed /\ Listed' = Listed
    BY <2>1, <1>i
  <2>3. it[t] \notin Indexed /\ it[t] \notin freed /\ it[t] \in Items
    BY <2>1, <1>m DEF Stored
  <2>4. pc'[t] = "unlink" => refcount'[it[t]] = Deleting
    BY <2>1, <2>3
  <2> QED
    BY <2>1, <2>2, <2>3, <2>4
<1>22. CASE On(t)
  BY <1>22, <1>i, <1>j DEF On, Goto, Take, Drop, DropNested, DropReentrant
<1>23. CASE Link(t)
  <2>1. /\ pc[t] = "link" /\ ~gc[t] /\ ~mine[t] /\ at[t] = None /\ op[t] = "set"
        /\ pc'[t] \in {"idle", "advance"} /\ op'[t] \in {"none", "set"} /\ slot' = slot /\ at' = at /\ mine' = mine
    BY <1>23 DEF Link, LinkAndCollect, Goto
  <2>2. \A s \in {"cur", "next"} : slot[<<t, s>>] # None => slot[<<t, s>>] \in Listed'
    <3>1. \A s \in {"cur", "next"} : slot[<<t, s>>] # None => refcount[slot[<<t, s>>]] > 0 /\ slot[<<t, s>>] \in Listed
      BY <1>g, Held
    <3> QED
      BY <3>1, <1>e DEF ListEffect
  <2> QED
    BY <2>1, <2>2
<1>24. CASE Unlink(t)
  <2>1. /\ pc[t] = "unlink" /\ ~gc[t] /\ ~mine[t] /\ at[t] = None
        /\ pc'[t] \in {"free", "advance"} /\ op' = op
        /\ UNCHANGED <<index, marked, freed, refcount, slot, at, mine, it>>
    BY <1>24 DEF Unlink, LinkAndCollect, Goto
  <2>2. \A s \in {"cur", "next"} : slot[<<t, s>>] # None => slot[<<t, s>>] \in Listed'
    <3>1. \A s \in {"cur", "next"} : slot[<<t, s>>] # None => refcount[slot[<<t, s>>]] > 0 /\ slot[<<t, s>>] \in Listed
      BY <1>g, Held
    <3> QED
      BY <3>1, <1>e DEF ListEffect
  <2>3. Indexed' = Indexed
    BY <2>1, <1>i
  <2>4. refcount[it[t]] = Deleting /\ it[t] \notin Indexed \cup freed
    BY <2>1
  <2> QED
    BY <2>1, <2>2, <2>3, <2>4
<1>25. CASE Free(t)
  BY <1>25, <1>i, <1>j DEF Free, Goto
<1>26. CASE DelCas(t)
  <2>1. /\ pc[t] = "delCas" /\ ~gc[t] /\ ~mine[t] /\ at[t] = None /\ it[t] \in Made
        /\ UNCHANGED <<index, list, slot, marked, freed, at, gc, it, mine>> /\ op' = op
        /\ \/ pc'[t] = "delMark" /\ refcount' = refcount
           \/ pc'[t] = "unlink" /\ refcount' = [refcount EXCEPT ![it[t]] = Deleting]
    BY <1>26 DEF DelCas, Goto, Known
  <2>2. Indexed' = Indexed /\ Listed' = Listed
    BY <2>1, <1>i
  <2>3. it[t] \notin Indexed /\ it[t] \notin freed /\ it[t] \in Items
    BY <2>1, <1>m DEF Stored
  <2>4. pc'[t] = "unlink" => refcount'[it[t]] = Deleting
    BY <2>1, <2>3
  <2> QED
    BY <2>1, <2>2, <2>3, <2>4
<1>27. CASE DelMark(t)
  BY <1>27, <1>i, <1>j DEF DelMark, Goto
<1> HIDE <1>g DEF Types, tables, counters, locks, locals, ghosts, Refs, Slots, None, Uses, LooksUp, Removes, Off, Control, Walking, Owns, Points, Seeks
<1> QED
  BY <1>a, <1>1, <1>2, <1>3, <1>4, <1>5, <1>6, <1>7, <1>8, <1>9, <1>10, <1>11, <1>12, <1>13, <1>14, <1>15, <1>16, <1>17, <1>18, <1>19, <1>20, <1>21, <1>22, <1>23, <1>24, <1>25, <1>26, <1>27 DEF Begin, Continue

\* Which item a thread comes to remove or to add.
NewTarget(t) ==
  /\ Removes(t)' \/ mine'[t] =>
       \/ it'[t] = it[t] /\ (Removes(t) \/ mine[t])
       \/ it'[t] \in Indexed
       \/ it'[t] \in marked /\ refcount[it'[t]] > 0 /\ listLock[t] = "w"
  /\ pc'[t] = "link" => it'[t] \notin Known

LEMMA TargetStep ==
  ASSUME Consistent, NEW t \in Threads, Begin(t) \/ Continue(t)
  PROVE  NewTarget(t)
<1>a. Begin(t) \/ Continue(t)
  OBVIOUS
<1>g. Types /\ Control(t) /\ Walking(t) /\ Owns(t) /\ Points(t) /\ Locked(t) /\ Counting
  BY DEF Consistent, Placed, Flow
<1> USE <1>g DEF Types, tables, counters, locks, locals, ghosts, Refs, Slots, None, Removes, Control, Walking, Owns, Points, Seeks, NewTarget
<1>1. ASSUME NEW n \in Names, SetNew(t, n) PROVE NewTarget(t)
  <2>1. it'[t] = allocated' /\ allocated' \notin Made /\ allocated' # None
    BY <1>1, Bounds DEF SetNew, Made
  <2> QED
    BY <1>1, <2>1 DEF SetNew, MayAlter, Idle, Call, Known
<1>2. ASSUME NEW n \in Names, SetFound(t, n) PROVE NewTarget(t)
  BY <1>2 DEF SetFound, Call, MayAlter, Idle, Take, Drop, DropNested, DropReentrant
<1>3. ASSUME NEW n \in Names, Get(t, n) PROVE NewTarget(t)
  BY <1>3 DEF Get, Call, Idle, Take, Drop, DropNested, DropReentrant
<1>4. ASSUME NEW n \in Names, Del(t, n) PROVE NewTarget(t)
  <2>1. index[n] \in Indexed
    BY <1>4 DEF Del, Indexed
  <2> QED
    BY <1>4, <2>1 DEF Del, Call
<1>5. ASSUME NEW v \in Threads, NEW s \in {"held", "cur"}, Dup(t, s, v) PROVE NewTarget(t)
  BY <1>5 DEF Dup, Idle
<1>6. CASE Entries(t)
  BY <1>6 DEF Entries, Call, MayAlter, Idle
<1>7. CASE Release(t)
  BY <1>7 DEF Release, Idle
<1>8. ASSUME NEW mode \in {"r", "w", "z"}, WalkStart(t, mode) PROVE NewTarget(t)
  BY <1>8 DEF WalkStart, Call, Idle, Take, Drop, DropNested, DropReentrant
<1>9. CASE WalkNext(t)
  BY <1>9 DEF WalkNext, Idle, Take, Drop, DropNested, DropReentrant
<1>10. CASE WalkDone(t)
  BY <1>10 DEF WalkDone, Idle, ReleaseCurrent
<1>11. CASE Load(t)
  BY <1>11 DEF Load, Goto, Take, Drop, DropNested, DropReentrant, AfterRefusal
<1>12. CASE CasFails(t)
  BY <1>12 DEF CasFails, Goto, Swaps
<1>13. CASE Cas(t)
  BY <1>13 DEF Cas, Goto, Take, Drop, DropNested, DropReentrant, Acquires, ReleaseCurrent, Swaps
<1>14. CASE Advance(t)
  BY <1>14 DEF Advance, Goto, Take, Drop, DropNested, DropReentrant, Collect, AfterGc, ReleaseCurrent
<1>15. CASE GcTry(t)
  BY <1>15 DEF GcTry, Goto, Take, Drop, DropNested, DropReentrant, Collect, AfterGc, ReleaseCurrent, CanBeRemoved
<1>16. CASE GcLock(t)
  BY <1>16 DEF GcLock, Goto, Take, Drop, DropNested, DropReentrant
<1>17. CASE Peek(t)
  <2>1. slot[<<t, "cur">>] # None /\ listLock[t] = "w"
    BY <1>17 DEF Peek, Locked
  <2>2. refcount[slot[<<t, "cur">>]] > 0
    BY <1>g, <2>1, Held
  <2>3. Removes(t)' \/ mine'[t] => slot[<<t, "cur">>] \in marked /\ it'[t] = slot[<<t, "cur">>]
    BY <1>17 DEF Peek, Goto
  <2> QED
    BY <1>17, <2>1, <2>2, <2>3 DEF Peek, Goto
<1>18. CASE ReadFlag(t)
  BY <1>18 DEF ReadFlag, Goto, Releases
<1>19. CASE Decrement(t)
  BY <1>19 DEF Decrement, Goto, Releases, AfterRelease
<1>20. CASE Count(t)
  BY <1>20 DEF Count, Goto, Releases, AfterRelease
<1>21. CASE Try(t)
  BY <1>21 DEF Try, Goto, CanBeRemoved
<1>22. CASE On(t)
  BY <1>22 DEF On, Goto, Take, Drop, DropNested, DropReentrant
<1>23. CASE Link(t)
  BY <1>23 DEF Link, Goto, Take, Drop, DropNested, DropReentrant, LinkAndCollect
<1>24. CASE Unlink(t)
  BY <1>24 DEF Unlink, Goto, Take, Drop, DropNested, DropReentrant, LinkAndCollect
<1>25. CASE Free(t)
  BY <1>25 DEF Free, Goto
<1>26. CASE DelCas(t)
  BY <1>26 DEF DelCas, Goto, CanBeRemoved
<1>27. CASE DelMark(t)
  BY <1>27 DEF DelMark, Goto
<1> HIDE <1>g DEF Types, tables, counters, locks, locals, ghosts, Refs, Slots, None, Removes, Control, Walking, Owns, Points, Seeks, NewTarget
<1> QED
  BY <1>a, <1>1, <1>2, <1>3, <1>4, <1>5, <1>6, <1>7, <1>8, <1>9, <1>10, <1>11, <1>12, <1>13, <1>14, <1>15, <1>16, <1>17, <1>18, <1>19, <1>20, <1>21, <1>22, <1>23, <1>24, <1>25, <1>26, <1>27 DEF Begin, Continue

LEMMA RemoverStep ==
  ASSUME Consistent, NEW t \in Threads, Begin(t) \/ Continue(t)
  PROVE  OneRemover'
<1>g. Types /\ Stored /\ Exclusive /\ OneRemover /\ Placed /\ \A u \in Threads : Uses(u) /\ Walking(u) /\ Locked(u)
  BY DEF Consistent, Placed, Flow
<1>1. NewTarget(t)
  BY TargetStep
<1>2. \A u \in Threads : u # t => /\ (Removes(u)' <=> Removes(u)) /\ mine'[u] = mine[u]
                                  /\ pc'[u] = pc[u] /\ it'[u] = it[u]
  BY ZenonT(40), <1>g, OthersSame DEF Same, Removes
<1>3. ASSUME NEW u \in Threads, u # t, it'[t] = it[u], Removes(t)' \/ mine'[t], Removes(u) \/ mine[u]
      PROVE  FALSE
  <2>1. CASE it'[t] = it[t] /\ (Removes(t) \/ mine[t])
    BY <1>3, <1>g, <2>1 DEF OneRemover
  <2>2. CASE it'[t] \in Indexed
    <3>1. it[u] \notin Indexed
      BY <1>3, <1>g DEF Uses, Stored
    <3> QED
      BY <1>3, <2>2, <3>1
  <2>3. CASE it'[t] \in marked /\ refcount[it'[t]] > 0 /\ listLock[t] = "w"
    <3>1. ~mine[u]
      BY <1>3, <1>g, <2>3 DEF Exclusive, Walking, Locked
    <3>2. it[u] \notin marked \/ refcount[it[u]] = Deleting
      BY <1>3, <1>g, <3>1 DEF Removes, Uses, Off
    <3> QED
      BY <1>3, <2>3, <3>2 DEF Deleting
  <2> QED
    BY <1>1, <1>3, <2>1, <2>2, <2>3 DEF NewTarget
<1>4. ASSUME NEW u \in Threads, pc'[t] = "link" PROVE it'[t] # it[u]
  BY <1>1, <1>4, <1>g DEF NewTarget, Types
<1> QED
  BY <1>2, <1>3, <1>4, <1>g DEF OneRemover

LEMMA ConsistentInit == Init => Consistent
<1> SUFFICES ASSUME Init PROVE Consistent
  OBVIOUS
<1>1. Placed
  BY PlacedInit
<1>2. \A r \in Refs : slot[r] = None
  BY DEF Init
<1>3. Counting
  <2> SUFFICES ASSUME NEW i \in Items PROVE Counted(i)
    BY DEF Counting
  <2>1. Holders(i) = {}
    BY <1>2 DEF Holders, Items, None
  <2>2. refcount[i] = 0 /\ Cardinality(Holders(i)) = 0
    BY <2>1, FS_EmptySet DEF Init
  <2> QED
    BY <2>2 DEF Counted, Deleting
<1>4. Indexed = {} /\ Listed = {} /\ OffItems = {} /\ Made = {} /\ marked = {} /\ freed = {} /\ list = <<>>
  BY DEF Init, Indexed, Listed, OffItems, Off, Made
<1>5. Stored
  BY <1>4 DEF Stored, Init
<1>6. OneRemover
  BY DEF OneRemover, Init, Removes
<1>7. ASSUME NEW t \in Threads PROVE Uses(t)
  BY <1>2 DEF Init, Uses, LooksUp, Removes, Off, Refs, Slots
<1> QED
  BY <1>1, <1>3, <1>5, <1>6, <1>7 DEF Consistent

LEMMA ConsistentStep == Consistent /\ [Next]_vars => Consistent'
<1> SUFFICES ASSUME Consistent, [Next]_vars PROVE Consistent'
  OBVIOUS
<1>1. ASSUME NEW t \in Threads, Begin(t) \/ Continue(t) PROVE Consistent'
  <2>1. Placed'
    BY <1>1, PlacedStep DEF Consistent
  <2>2. Counting'
    BY <1>1, CountStep DEF Consistent
  <2>3. Stored' /\ OneRemover'
    BY <1>1, StoredStep, RemoverStep
  <2>4. \A u \in Threads : Uses(u)'
    BY <1>1, OwnUse, OthersUse
  <2> QED
    BY <2>1, <2>2, <2>3, <2>4 DEF Consistent
<1>2. CASE UNCHANGED vars
  <2>1. UNCHANGED <<index, list, allocated, freed, refcount, marked, pc, op, at, it, gc, mine, slot>>
    BY <1>2 DEF vars, tables, locals
  <2>2. Placed'
    BY <1>2, PlacedStep DEF Consistent
  <2>3. Made' = Made /\ Listed' = Listed /\ Indexed' = Indexed /\ (\A i \in Items : Holders(i)' = Holders(i))
    BY <2>1 DEF Made, Listed, Indexed, Holders
  <2>4. \A t \in Threads : (Off(t)' <=> Off(t)) /\ (Removes(t)' <=> Removes(t)) /\ (LooksUp(t)' <=> LooksUp(t))
    BY <2>1 DEF Off, Removes, LooksUp
  <2>5. OffItems' = OffItems
    BY <2>1, <2>4 DEF OffItems
  <2>6. Counting' /\ Stored'
    BY <2>1, <2>3, <2>5 DEF Consistent, Counting, Counted, Stored
  <2>7. OneRemover'
    BY <2>1, <2>4 DEF Consistent, OneRemover
  <2>8. ASSUME NEW t \in Threads PROVE Uses(t)'
    BY <2>1, <2>3, <2>4 DEF Consistent, Uses
  <2> QED
    BY <2>2, <2>6, <2>7, <2>8 DEF Consistent
<1> QED
  BY <1>1, <1>2 DEF Next

LEMMA Consistency == Spec => []Consistent
<1>1. Init => Consistent
  BY ConsistentInit
<1>2. Consistent /\ [Next]_vars => Consistent'
  BY ConsistentStep
<1> QED
  BY <1>1, <1>2, PTL DEF Spec

-----------------------------------------------------------------------------
(* The theorems.                                                           *)

\* item_release, item_free_with_hooks and the collection: whatever a thread is about to touch
\* was not freed.
THEOREM NothingFreedIsUsed == Spec => []NoUseAfterFree
<1>1. ASSUME Consistent PROVE NoUseAfterFree
  <2> SUFFICES ASSUME NEW t \in Threads
               PROVE  Touches(t) \cap freed = {} /\ \A s \in Slots : slot[<<t, s>>] \notin freed
    BY DEF NoUseAfterFree
  <2>1. Types /\ Stored /\ Uses(t) /\ Counting /\ Control(t) /\ Walking(t) /\ Owns(t) /\ Points(t)
    BY <1>1 DEF Consistent, Placed, Flow
  <2>2. None \notin freed
    BY <2>1 DEF Types, Made, None
  <2>3. \A s \in Slots : slot[<<t, s>>] \notin freed
    <3> SUFFICES ASSUME NEW s \in Slots, slot[<<t, s>>] # None PROVE slot[<<t, s>>] \notin freed
      BY <2>2
    <3>1. refcount[slot[<<t, s>>]] > 0
      BY <2>1, Held DEF Refs
    <3> QED
      BY <2>1, <3>1 DEF Stored, Deleting
  <2>4. Listed \cap freed = {} /\ Indexed \cap freed = {}
    BY <2>1 DEF Stored
  <2>5. at[t] \notin freed
    BY <2>1, <2>2, <2>4 DEF Uses
  <2>6. Successor(at[t]) \notin freed
    BY <2>1, <2>2, <2>4, Lists DEF Types
  <2>7. pc[t] \in {"try", "delCas", "delMark", "link", "unlink", "free"} => it[t] \notin freed
    <3>1. CASE pc[t] = "link"
      BY <1>1, <3>1, Linked
    <3>2. CASE pc[t] # "link"
      BY <2>1, <3>2 DEF Uses, Removes, Walking
    <3> QED
      BY <3>1, <3>2
  <2>8. Releases(t) \in Slots /\ "cur" \in Slots
    BY DEF Releases, Slots
  <2>9. Touches(t) \cap freed = {}
    BY <2>3, <2>5, <2>6, <2>7, <2>8 DEF Touches
  <2> QED
    BY <2>3, <2>9
<1> QED
  BY <1>1, Consistency, PTL

\* item_acquire, item_release and check_and_acquire: their atomic instructions add up.
THEOREM CountsAreTrue == Spec => []RefcountIsHolders
<1>1. ASSUME Consistent PROVE RefcountIsHolders
  BY <1>1 DEF Consistent, Counting, Counted, RefcountIsHolders
<1> QED
  BY <1>1, Consistency, PTL

\* item_del takes an item out of the index before it marks or frees it.
THEOREM FoundIsUsable == Spec => []IndexedIsUsable
<1>1. ASSUME Consistent PROVE IndexedIsUsable
  <2> SUFFICES ASSUME NEW i \in Indexed PROVE i \notin marked /\ refcount[i] >= 0
    BY DEF IndexedIsUsable
  <2>1. i \in Items /\ i \notin marked /\ refcount[i] # Deleting
    BY <1>1, Bounds DEF Consistent, Placed, Types, Stored, Indexed, Known, Made, Items
  <2>2. refcount[i] = Cardinality(Holders(i))
    BY <1>1, <2>1 DEF Consistent, Counting, Counted
  <2> QED
    BY <2>1, <2>2, FiniteHolders
<1> QED
  BY <1>1, Consistency, PTL


-----------------------------------------------------------------------------
(* The counters entries and referenced.                                    *)

Dels == {t \in Threads : Deletes(t)}
Positive == {i \in Items : refcount[i] > 0}
Counts == {t \in Threads : pc[t] = "count"}

EntriesExact == entries = Cardinality(Indexed) + Cardinality(Dels)
ReferencedExact == referenced = Cardinality(Positive) + Cardinality(Counts)

LEMMA FiniteParts ==
  ASSUME Types
  PROVE  /\ IsFiniteSet(Indexed) /\ Cardinality(Indexed) \in Nat
         /\ IsFiniteSet(Dels) /\ Cardinality(Dels) \in Nat
         /\ IsFiniteSet(Positive) /\ Cardinality(Positive) \in Nat
         /\ IsFiniteSet(Counts) /\ Cardinality(Counts) \in Nat
<1>1. Indexed \in SUBSET Items /\ Positive \in SUBSET Items /\ IsFiniteSet(Items)
  BY Bounds, FS_Interval DEF Types, Indexed, Positive, Known, Made, Items
<1>2. Dels \in SUBSET Threads /\ Counts \in SUBSET Threads /\ IsFiniteSet(Threads)
  BY Bounds DEF Dels, Counts
<1>3. IsFiniteSet(Indexed) /\ IsFiniteSet(Positive) /\ IsFiniteSet(Dels) /\ IsFiniteSet(Counts)
  BY <1>1, <1>2, FS_Subset
<1> QED
  BY <1>3, FS_CardinalityType

\* Two sets and a step: each keeps its members, or one element comes or goes.
LEMMA Grows ==
  ASSUME NEW S, IsFiniteSet(S), NEW x, x \notin S, NEW T, T = S \cup {x}
  PROVE  Cardinality(T) = Cardinality(S) + 1
BY FS_AddElement

LEMMA Shrinks ==
  ASSUME NEW S, IsFiniteSet(S), NEW x \in S, NEW T, T = S \ {x}
  PROVE  Cardinality(T) = Cardinality(S) - 1
BY FS_RemoveElement

\* What a step does to the index, to the deletions under way and to entries.
EntryEffect(t) ==
  \/ Indexed' = Indexed /\ (op'[t] = "del" <=> op[t] = "del") /\ entries' = entries
  \/ /\ \E i : i \notin Indexed /\ Indexed' = Indexed \cup {i}
     /\ op[t] # "del" /\ op'[t] # "del" /\ entries' = entries + 1
  \/ /\ \E i \in Indexed : Indexed' = Indexed \ {i}
     /\ op[t] # "del" /\ op'[t] = "del" /\ entries' = entries
  \/ Indexed' = Indexed /\ op[t] = "del" /\ op'[t] # "del" /\ entries' = entries - 1

LEMMA EntryStep ==
  ASSUME Consistent, NEW t \in Threads, Begin(t) \/ Continue(t)
  PROVE  EntryEffect(t)
<1>a. Begin(t) \/ Continue(t)
  OBVIOUS
<1>g. Types /\ Stored /\ Control(t) /\ Walking(t) /\ Owns(t)
  BY DEF Consistent, Placed, Flow
<1> USE <1>g DEF Types, Known, tables, counters, locks, locals, ghosts, Control, Walking, EntryEffect
<1>1. ASSUME NEW n \in Names, SetNew(t, n) PROVE EntryEffect(t)
  <2>1. allocated' \notin Made /\ allocated' # None /\ index' = [index EXCEPT ![n] = allocated'] /\ index[n] = None
    BY <1>1 DEF SetNew, Made, None
  <2>2. Indexed' = Indexed \cup {allocated'} /\ allocated' \notin Indexed
    BY <2>1 DEF Indexed
  <2>3. op[t] # "del" /\ op'[t] # "del" /\ entries' = entries + 1
    BY <1>1 DEF SetNew, MayAlter, Idle, Call
  <2> QED
    BY <2>2, <2>3
<1>2. ASSUME NEW n \in Names, SetFound(t, n) PROVE EntryEffect(t)
  <2>1. index' = index
    BY <1>2 DEF SetFound, Call, MayAlter, Idle, Take, Drop, DropNested, DropReentrant
  <2>2. Indexed' = Indexed
    BY <2>1 DEF Indexed
  <2> QED
    BY <1>2, <2>2 DEF SetFound, Call, MayAlter, Idle, Take, Drop, DropNested, DropReentrant
<1>3. ASSUME NEW n \in Names, Get(t, n) PROVE EntryEffect(t)
  <2>1. index' = index
    BY <1>3 DEF Get, Call, Idle, Take, Drop, DropNested, DropReentrant
  <2>2. Indexed' = Indexed
    BY <2>1 DEF Indexed
  <2> QED
    BY <1>3, <2>2 DEF Get, Call, Idle, Take, Drop, DropNested, DropReentrant
<1>4. ASSUME NEW n \in Names, Del(t, n) PROVE EntryEffect(t)
  <2>1. index[n] \in Indexed /\ index' = [index EXCEPT ![n] = None]
    BY <1>4 DEF Del, Indexed
  <2>2. Indexed' = Indexed \ {index[n]}
    BY <2>1 DEF Indexed, Stored
  <2>3. op[t] # "del" /\ op'[t] = "del" /\ entries' = entries
    BY <1>4 DEF Del, MayAlter, Idle, Call
  <2> QED
    BY <2>1, <2>2, <2>3
<1>5. ASSUME NEW v \in Threads, NEW s \in {"held", "cur"}, Dup(t, s, v) PROVE EntryEffect(t)
  <2>1. index' = index
    BY <1>5 DEF Dup, Idle
  <2>2. Indexed' = Indexed
    BY <2>1 DEF Indexed
  <2> QED
    BY <1>5, <2>2 DEF Dup, Idle
<1>6. CASE Entries(t)
  <2>1. index' = index
    BY <1>6 DEF Entries, Call, MayAlter, Idle
  <2>2. Indexed' = Indexed
    BY <2>1 DEF Indexed
  <2> QED
    BY <1>6, <2>2 DEF Entries, Call, MayAlter, Idle
<1>7. CASE Release(t)
  <2>1. index' = index
    BY <1>7 DEF Release, Idle
  <2>2. Indexed' = Indexed
    BY <2>1 DEF Indexed
  <2> QED
    BY <1>7, <2>2 DEF Release, Idle
<1>8. ASSUME NEW mode \in {"r", "w", "z"}, WalkStart(t, mode) PROVE EntryEffect(t)
  <2>1. index' = index
    BY <1>8 DEF WalkStart, Call, Idle, Take, Drop, DropNested, DropReentrant
  <2>2. Indexed' = Indexed
    BY <2>1 DEF Indexed
  <2> QED
    BY <1>8, <2>2 DEF WalkStart, Call, Idle, Take, Drop, DropNested, DropReentrant
<1>9. CASE WalkNext(t)
  <2>1. index' = index
    BY <1>9 DEF WalkNext, Idle, Take, Drop, DropNested, DropReentrant
  <2>2. Indexed' = Indexed
    BY <2>1 DEF Indexed
  <2> QED
    BY <1>9, <2>2 DEF WalkNext, Idle, Take, Drop, DropNested, DropReentrant
<1>10. CASE WalkDone(t)
  <2>1. index' = index
    BY <1>10 DEF WalkDone, Idle, ReleaseCurrent
  <2>2. Indexed' = Indexed
    BY <2>1 DEF Indexed
  <2> QED
    BY <1>10, <2>2 DEF WalkDone, Idle, ReleaseCurrent
<1>11. CASE Load(t)
  <2>1. index' = index
    BY <1>11 DEF Load, Goto, Take, Drop, DropNested, DropReentrant, AfterRefusal
  <2>2. Indexed' = Indexed
    BY <2>1 DEF Indexed
  <2> QED
    BY <1>11, <2>2 DEF Load, Goto, Take, Drop, DropNested, DropReentrant, AfterRefusal
<1>12. CASE CasFails(t)
  <2>1. index' = index
    BY <1>12 DEF CasFails, Goto, Swaps
  <2>2. Indexed' = Indexed
    BY <2>1 DEF Indexed
  <2> QED
    BY <1>12, <2>2 DEF CasFails, Goto, Swaps
<1>13. CASE Cas(t)
  <2>1. index' = index
    BY <1>13 DEF Cas, Goto, Take, Drop, DropNested, DropReentrant, Acquires, ReleaseCurrent, Swaps
  <2>2. Indexed' = Indexed
    BY <2>1 DEF Indexed
  <2> QED
    BY <1>13, <2>2 DEF Cas, Goto, Take, Drop, DropNested, DropReentrant, Acquires, ReleaseCurrent, Swaps
<1>14. CASE Advance(t)
  <2>1. index' = index
    BY <1>14 DEF Advance, Goto, Take, Drop, DropNested, DropReentrant, Collect, AfterGc, ReleaseCurrent
  <2>2. Indexed' = Indexed
    BY <2>1 DEF Indexed
  <2> QED
    BY <1>14, <2>2 DEF Advance, Goto, Take, Drop, DropNested, DropReentrant, Collect, AfterGc, ReleaseCurrent
<1>15. CASE GcTry(t)
  <2>1. index' = index
    BY <1>15 DEF GcTry, Goto, Take, Drop, DropNested, DropReentrant, Collect, AfterGc, ReleaseCurrent, CanBeRemoved
  <2>2. Indexed' = Indexed
    BY <2>1 DEF Indexed
  <2> QED
    BY <1>15, <2>2 DEF GcTry, Goto, Take, Drop, DropNested, DropReentrant, Collect, AfterGc, ReleaseCurrent, CanBeRemoved
<1>16. CASE GcLock(t)
  <2>1. index' = index
    BY <1>16 DEF GcLock, Goto, Take, Drop, DropNested, DropReentrant
  <2>2. Indexed' = Indexed
    BY <2>1 DEF Indexed
  <2> QED
    BY <1>16, <2>2 DEF GcLock, Goto, Take, Drop, DropNested, DropReentrant
<1>17. CASE Peek(t)
  <2>1. index' = index
    BY <1>17 DEF Peek, Goto
  <2>2. Indexed' = Indexed
    BY <2>1 DEF Indexed
  <2> QED
    BY <1>17, <2>2 DEF Peek, Goto
<1>18. CASE ReadFlag(t)
  <2>1. index' = index
    BY <1>18 DEF ReadFlag, Goto, Releases
  <2>2. Indexed' = Indexed
    BY <2>1 DEF Indexed
  <2> QED
    BY <1>18, <2>2 DEF ReadFlag, Goto, Releases
<1>19. CASE Decrement(t)
  <2>1. index' = index
    BY <1>19 DEF Decrement, Goto, Releases, AfterRelease
  <2>2. Indexed' = Indexed
    BY <2>1 DEF Indexed
  <2> QED
    BY <1>19, <2>2 DEF Decrement, Goto, Releases, AfterRelease
<1>20. CASE Count(t)
  <2>1. index' = index
    BY <1>20 DEF Count, Goto, Releases, AfterRelease
  <2>2. Indexed' = Indexed
    BY <2>1 DEF Indexed
  <2> QED
    BY <1>20, <2>2 DEF Count, Goto, Releases, AfterRelease
<1>21. CASE Try(t)
  <2>1. index' = index
    BY <1>21 DEF Try, Goto, CanBeRemoved
  <2>2. Indexed' = Indexed
    BY <2>1 DEF Indexed
  <2> QED
    BY <1>21, <2>2 DEF Try, Goto, CanBeRemoved
<1>22. CASE On(t)
  <2>1. index' = index
    BY <1>22 DEF On, Goto, Take, Drop, DropNested, DropReentrant
  <2>2. Indexed' = Indexed
    BY <2>1 DEF Indexed
  <2> QED
    BY <1>22, <2>2 DEF On, Goto, Take, Drop, DropNested, DropReentrant
<1>23. CASE Link(t)
  <2>1. index' = index
    BY <1>23 DEF Link, Goto, Take, Drop, DropNested, DropReentrant, LinkAndCollect
  <2>2. Indexed' = Indexed
    BY <2>1 DEF Indexed
  <2> QED
    BY <1>23, <2>2 DEF Link, Goto, Take, Drop, DropNested, DropReentrant, LinkAndCollect
<1>24. CASE Unlink(t)
  <2>1. index' = index
    BY <1>24 DEF Unlink, Goto, Take, Drop, DropNested, DropReentrant, LinkAndCollect
  <2>2. Indexed' = Indexed
    BY <2>1 DEF Indexed
  <2> QED
    BY <1>24, <2>2 DEF Unlink, Goto, Take, Drop, DropNested, DropReentrant, LinkAndCollect
<1>25. CASE Free(t)
  <2>1. index' = index
    BY <1>25 DEF Free, Goto
  <2>2. Indexed' = Indexed
    BY <2>1 DEF Indexed
  <2> QED
    BY <1>25, <2>2 DEF Free, Goto
<1>26. CASE DelCas(t)
  <2>1. index' = index
    BY <1>26 DEF DelCas, Goto, CanBeRemoved
  <2>2. Indexed' = Indexed
    BY <2>1 DEF Indexed
  <2> QED
    BY <1>26, <2>2 DEF DelCas, Goto, CanBeRemoved
<1>27. CASE DelMark(t)
  <2>1. index' = index
    BY <1>27 DEF DelMark, Goto
  <2>2. Indexed' = Indexed
    BY <2>1 DEF Indexed
  <2> QED
    BY <1>27, <2>2 DEF DelMark, Goto
<1> HIDE <1>g DEF Types, Known, tables, counters, locks, locals, ghosts, Control, Walking, EntryEffect
<1> QED
  BY <1>a, <1>1, <1>2, <1>3, <1>4, <1>5, <1>6, <1>7, <1>8, <1>9, <1>10, <1>11, <1>12, <1>13, <1>14, <1>15, <1>16, <1>17, <1>18, <1>19, <1>20, <1>21, <1>22, <1>23, <1>24, <1>25, <1>26, <1>27 DEF Begin, Continue

\* What a step does to the referenced items, to the releases under way and to referenced.
ReferenceEffect(t) ==
  \/ Positive' = Positive /\ (pc'[t] = "count" <=> pc[t] = "count") /\ referenced' = referenced
  \/ /\ \E i \in Items \ Positive : Positive' = Positive \cup {i}
     /\ pc[t] # "count" /\ pc'[t] # "count" /\ referenced' = referenced + 1
  \/ /\ \E i \in Positive : Positive' = Positive \ {i}
     /\ pc[t] # "count" /\ pc'[t] = "count" /\ referenced' = referenced
  \/ Positive' = Positive /\ pc[t] = "count" /\ pc'[t] # "count" /\ referenced' = referenced - 1

LEMMA ReferenceStep ==
  ASSUME Consistent, NEW t \in Threads, Begin(t) \/ Continue(t)
  PROVE  ReferenceEffect(t)
<1>a. Begin(t) \/ Continue(t)
  OBVIOUS
<1>g. Types /\ Counting /\ Control(t) /\ Walking(t) /\ Owns(t) /\ Points(t)
  BY DEF Consistent, Placed, Flow
<1> USE <1>g DEF Types, Known, tables, counters, locks, locals, ghosts, Control, ReferenceEffect
<1>1. ASSUME NEW n \in Names, SetNew(t, n) PROVE ReferenceEffect(t)
  <2>1. PICK i \in Items : i = allocated' /\ i \notin Made
    BY <1>1, Bounds DEF SetNew, Made, Items
  <2>2. refcount[i] = 0
    BY <2>1 DEF Counting, Counted
  <2>3. refcount' = [refcount EXCEPT ![i] = 1]
    BY <1>1, <2>1 DEF SetNew
  <2>4. i \in Items \ Positive /\ Positive' = Positive \cup {i}
    BY <2>2, <2>3 DEF Positive
  <2>5. pc[t] # "count" /\ pc'[t] # "count" /\ referenced' = referenced + 1
    BY <1>1 DEF SetNew, MayAlter, Idle, Call
  <2> QED
    BY <2>4, <2>5
<1>2. ASSUME NEW n \in Names, SetFound(t, n) PROVE ReferenceEffect(t)
  <2>1. refcount' = refcount
    BY <1>2 DEF SetFound, Call, MayAlter, Idle, Take, Drop, DropNested, DropReentrant
  <2>2. Positive' = Positive
    BY <2>1 DEF Positive
  <2> QED
    BY <1>2, <2>2 DEF SetFound, Call, MayAlter, Idle, Take, Drop, DropNested, DropReentrant
<1>3. ASSUME NEW n \in Names, Get(t, n) PROVE ReferenceEffect(t)
  <2>1. refcount' = refcount
    BY <1>3 DEF Get, Call, Idle, Take, Drop, DropNested, DropReentrant
  <2>2. Positive' = Positive
    BY <2>1 DEF Positive
  <2> QED
    BY <1>3, <2>2 DEF Get, Call, Idle, Take, Drop, DropNested, DropReentrant
<1>4. ASSUME NEW n \in Names, Del(t, n) PROVE ReferenceEffect(t)
  <2>1. refcount' = refcount
    BY <1>4 DEF Del, Call, MayAlter, Idle
  <2>2. Positive' = Positive
    BY <2>1 DEF Positive
  <2> QED
    BY <1>4, <2>2 DEF Del, Call, MayAlter, Idle
<1>5. ASSUME NEW v \in Threads, NEW s \in {"held", "cur"}, Dup(t, s, v) PROVE ReferenceEffect(t)
  <2>1. <<t, s>> \in Refs /\ slot[<<t, s>>] # None
    BY <1>5 DEF Dup, Refs, Slots
  <2>2. PICK i \in Items : i = slot[<<t, s>>] /\ refcount[i] > 0
    BY <2>1, Held
  <2>3. refcount' = [refcount EXCEPT ![i] = @ + 1] /\ referenced' = referenced /\ pc' = pc
    BY <1>5, <2>2 DEF Dup
  <2>4. Positive' = Positive
    BY <2>2, <2>3 DEF Positive
  <2> QED
    BY <2>3, <2>4
<1>6. CASE Entries(t)
  <2>1. refcount' = refcount
    BY <1>6 DEF Entries, Call, MayAlter, Idle
  <2>2. Positive' = Positive
    BY <2>1 DEF Positive
  <2> QED
    BY <1>6, <2>2 DEF Entries, Call, MayAlter, Idle
<1>7. CASE Release(t)
  <2>1. refcount' = refcount
    BY <1>7 DEF Release, Idle
  <2>2. Positive' = Positive
    BY <2>1 DEF Positive
  <2> QED
    BY <1>7, <2>2 DEF Release, Idle
<1>8. ASSUME NEW mode \in {"r", "w", "z"}, WalkStart(t, mode) PROVE ReferenceEffect(t)
  <2>1. refcount' = refcount
    BY <1>8 DEF WalkStart, Call, Idle, Take, Drop, DropNested, DropReentrant
  <2>2. Positive' = Positive
    BY <2>1 DEF Positive
  <2> QED
    BY <1>8, <2>2 DEF WalkStart, Call, Idle, Take, Drop, DropNested, DropReentrant
<1>9. CASE WalkNext(t)
  <2>1. refcount' = refcount
    BY <1>9 DEF WalkNext, Idle, Take, Drop, DropNested, DropReentrant
  <2>2. Positive' = Positive
    BY <2>1 DEF Positive
  <2> QED
    BY <1>9, <2>2 DEF WalkNext, Idle, Take, Drop, DropNested, DropReentrant
<1>10. CASE WalkDone(t)
  <2>1. refcount' = refcount
    BY <1>10 DEF WalkDone, Idle, ReleaseCurrent
  <2>2. Positive' = Positive
    BY <2>1 DEF Positive
  <2> QED
    BY <1>10, <2>2 DEF WalkDone, Idle, ReleaseCurrent
<1>11. CASE Load(t)
  <2>1. refcount' = refcount
    BY <1>11 DEF Load, Goto, Take, Drop, DropNested, DropReentrant, AfterRefusal
  <2>2. Positive' = Positive
    BY <2>1 DEF Positive
  <2> QED
    BY <1>11, <2>2 DEF Load, Goto, Take, Drop, DropNested, DropReentrant, AfterRefusal
<1>12. CASE CasFails(t)
  <2>1. refcount' = refcount
    BY <1>12 DEF CasFails, Goto, Swaps
  <2>2. Positive' = Positive
    BY <2>1 DEF Positive
  <2> QED
    BY <1>12, <2>2 DEF CasFails, Goto, Swaps
<1>13. CASE Cas(t)
  <2>1. PICK i \in Items : i = at[t] /\ refcount[i] = seen[t] /\ seen[t] \in Nat
    BY <1>13, Bounds DEF Cas, Swaps, Points, Made, Items
  <2>2. /\ refcount' = [refcount EXCEPT ![i] = seen[t] + 1]
        /\ referenced' = IF seen[t] = 0 THEN referenced + 1 ELSE referenced
    BY <1>13, <2>1 DEF Cas
  <2>3. pc[t] # "count" /\ pc'[t] # "count"
    BY <1>13 DEF Cas, Goto, ReleaseCurrent
  <2>4. CASE seen[t] = 0
    <3>1. i \in Items \ Positive /\ Positive' = Positive \cup {i}
      BY <2>1, <2>2, <2>4 DEF Positive
    <3> QED
      BY <2>2, <2>3, <2>4, <3>1
  <2>5. CASE seen[t] # 0
    <3>1. refcount[i] > 0 /\ seen[t] + 1 > 0
      BY <2>1, <2>5
    <3>2. Positive' = Positive
      BY <2>2, <3>1 DEF Positive
    <3> QED
      BY <2>2, <2>3, <2>5, <3>2
  <2> QED
    BY <2>4, <2>5
<1>14. CASE Advance(t)
  <2>1. refcount' = refcount
    BY <1>14 DEF Advance, Goto, Take, Drop, DropNested, DropReentrant, Collect, AfterGc, ReleaseCurrent
  <2>2. Positive' = Positive
    BY <2>1 DEF Positive
  <2> QED
    BY <1>14, <2>2 DEF Advance, Goto, Take, Drop, DropNested, DropReentrant, Collect, AfterGc, ReleaseCurrent
<1>15. CASE GcTry(t)
  <2>1. refcount' = refcount \/ (refcount[at[t]] = 0 /\ refcount' = [refcount EXCEPT ![at[t]] = Deleting])
    BY <1>15 DEF GcTry, CanBeRemoved
  <2>2. ASSUME NEW j \in Items PROVE refcount'[j] > 0 <=> refcount[j] > 0
    <3>1. refcount'[j] = refcount[j] \/ (refcount[j] = 0 /\ refcount'[j] = Deleting)
      BY <2>1
    <3> QED
      BY <3>1 DEF Deleting
  <2>3. Positive' = Positive
    BY <2>2 DEF Positive
  <2> QED
    BY <1>15, <2>3 DEF GcTry, Goto, Take, Drop, DropNested, DropReentrant, Collect, AfterGc, ReleaseCurrent, CanBeRemoved
<1>16. CASE GcLock(t)
  <2>1. refcount' = refcount
    BY <1>16 DEF GcLock, Goto, Take, Drop, DropNested, DropReentrant
  <2>2. Positive' = Positive
    BY <2>1 DEF Positive
  <2> QED
    BY <1>16, <2>2 DEF GcLock, Goto, Take, Drop, DropNested, DropReentrant
<1>17. CASE Peek(t)
  <2>1. refcount' = refcount
    BY <1>17 DEF Peek, Goto
  <2>2. Positive' = Positive
    BY <2>1 DEF Positive
  <2> QED
    BY <1>17, <2>2 DEF Peek, Goto
<1>18. CASE ReadFlag(t)
  <2>1. refcount' = refcount
    BY <1>18 DEF ReadFlag, Goto, Releases
  <2>2. Positive' = Positive
    BY <2>1 DEF Positive
  <2> QED
    BY <1>18, <2>2 DEF ReadFlag, Goto, Releases
<1>19. CASE Decrement(t)
  <2> DEFINE r == <<t, Releases(t)>>
  <2>1. r \in Refs /\ slot[r] # None
    BY <1>19 DEF Decrement, Owns, Releases, Refs, Slots, Seeks
  <2>2. PICK i \in Items : i = slot[r] /\ refcount[i] > 0
    BY <2>1, Held
  <2>3. refcount' = [refcount EXCEPT ![i] = @ - 1] /\ referenced' = referenced
    BY <1>19, <2>2 DEF Decrement
  <2>4. pc[t] # "count" /\ (pc'[t] = "count" <=> refcount[i] = 1)
    BY <1>19, <2>2 DEF Decrement, Goto, AfterRelease
  <2> HIDE DEF r
  <2>5. CASE refcount[i] = 1
    <3>1. i \in Positive /\ Positive' = Positive \ {i}
      BY <2>2, <2>3, <2>5 DEF Positive
    <3> QED
      BY <2>3, <2>4, <2>5, <3>1
  <2>6. CASE refcount[i] # 1
    <3>1. refcount[i] - 1 > 0
      BY <2>2, <2>6
    <3>2. Positive' = Positive
      BY <2>2, <2>3, <3>1 DEF Positive
    <3> QED
      BY <2>3, <2>4, <2>6, <3>2
  <2> QED
    BY <2>5, <2>6
<1>20. CASE Count(t)
  <2>1. refcount' = refcount
    BY <1>20 DEF Count, Goto, Releases, AfterRelease
  <2>2. Positive' = Positive
    BY <2>1 DEF Positive
  <2> QED
    BY <1>20, <2>2 DEF Count, Goto, Releases, AfterRelease
<1>21. CASE Try(t)
  <2>1. refcount' = refcount \/ (refcount[it[t]] = 0 /\ refcount' = [refcount EXCEPT ![it[t]] = Deleting])
    BY <1>21 DEF Try, CanBeRemoved
  <2>2. ASSUME NEW j \in Items PROVE refcount'[j] > 0 <=> refcount[j] > 0
    <3>1. refcount'[j] = refcount[j] \/ (refcount[j] = 0 /\ refcount'[j] = Deleting)
      BY <2>1
    <3> QED
      BY <3>1 DEF Deleting
  <2>3. Positive' = Positive
    BY <2>2 DEF Positive
  <2> QED
    BY <1>21, <2>3 DEF Try, Goto, CanBeRemoved
<1>22. CASE On(t)
  <2>1. refcount' = refcount
    BY <1>22 DEF On, Goto, Take, Drop, DropNested, DropReentrant
  <2>2. Positive' = Positive
    BY <2>1 DEF Positive
  <2> QED
    BY <1>22, <2>2 DEF On, Goto, Take, Drop, DropNested, DropReentrant
<1>23. CASE Link(t)
  <2>1. refcount' = refcount
    BY <1>23 DEF Link, Goto, Take, Drop, DropNested, DropReentrant, LinkAndCollect
  <2>2. Positive' = Positive
    BY <2>1 DEF Positive
  <2> QED
    BY <1>23, <2>2 DEF Link, Goto, Take, Drop, DropNested, DropReentrant, LinkAndCollect
<1>24. CASE Unlink(t)
  <2>1. refcount' = refcount
    BY <1>24 DEF Unlink, Goto, Take, Drop, DropNested, DropReentrant, LinkAndCollect
  <2>2. Positive' = Positive
    BY <2>1 DEF Positive
  <2> QED
    BY <1>24, <2>2 DEF Unlink, Goto, Take, Drop, DropNested, DropReentrant, LinkAndCollect
<1>25. CASE Free(t)
  <2>1. refcount' = refcount
    BY <1>25 DEF Free, Goto
  <2>2. Positive' = Positive
    BY <2>1 DEF Positive
  <2> QED
    BY <1>25, <2>2 DEF Free, Goto
<1>26. CASE DelCas(t)
  <2>1. refcount' = refcount \/ (refcount[it[t]] = 0 /\ refcount' = [refcount EXCEPT ![it[t]] = Deleting])
    BY <1>26 DEF DelCas, CanBeRemoved
  <2>2. ASSUME NEW j \in Items PROVE refcount'[j] > 0 <=> refcount[j] > 0
    <3>1. refcount'[j] = refcount[j] \/ (refcount[j] = 0 /\ refcount'[j] = Deleting)
      BY <2>1
    <3> QED
      BY <3>1 DEF Deleting
  <2>3. Positive' = Positive
    BY <2>2 DEF Positive
  <2> QED
    BY <1>26, <2>3 DEF DelCas, Goto, CanBeRemoved
<1>27. CASE DelMark(t)
  <2>1. refcount' = refcount
    BY <1>27 DEF DelMark, Goto
  <2>2. Positive' = Positive
    BY <2>1 DEF Positive
  <2> QED
    BY <1>27, <2>2 DEF DelMark, Goto
<1> HIDE <1>g DEF Types, Known, tables, counters, locks, locals, ghosts, Control, ReferenceEffect
<1> QED
  BY <1>a, <1>1, <1>2, <1>3, <1>4, <1>5, <1>6, <1>7, <1>8, <1>9, <1>10, <1>11, <1>12, <1>13, <1>14, <1>15, <1>16, <1>17, <1>18, <1>19, <1>20, <1>21, <1>22, <1>23, <1>24, <1>25, <1>26, <1>27 DEF Begin, Continue

LEMMA SumsStep ==
  ASSUME Consistent, Consistent', EntriesExact, ReferencedExact,
         NEW t \in Threads, Begin(t) \/ Continue(t)
  PROVE  EntriesExact' /\ ReferencedExact'
<1>1. \A u \in Threads : u # t => op'[u] = op[u] /\ pc'[u] = pc[u]
  BY OthersSame DEF Consistent, Same
<1>2. /\ IsFiniteSet(Indexed) /\ Cardinality(Indexed) \in Nat
      /\ IsFiniteSet(Dels) /\ Cardinality(Dels) \in Nat
      /\ IsFiniteSet(Positive) /\ Cardinality(Positive) \in Nat
      /\ IsFiniteSet(Counts) /\ Cardinality(Counts) \in Nat
  BY FiniteParts DEF Consistent, Placed
<1>3. EntriesExact'
  <2>1. EntryEffect(t)
    BY EntryStep
  <2>2. CASE op[t] = "del" <=> op'[t] = "del"
    <3>1. Dels' = Dels
      BY <1>1, <2>2 DEF Dels, Deletes
    <3>2. CASE Indexed' = Indexed /\ entries' = entries
      BY <3>1, <3>2 DEF EntriesExact
    <3>3. ASSUME NEW i, i \notin Indexed, Indexed' = Indexed \cup {i}, entries' = entries + 1
          PROVE  EntriesExact'
      <4>1. Cardinality(Indexed') = Cardinality(Indexed) + 1
        BY <1>2, <3>3, Grows
      <4> QED
        BY <1>2, <3>1, <3>3, <4>1 DEF EntriesExact
    <3> QED
      BY <2>1, <2>2, <3>2, <3>3 DEF EntryEffect
  <2>3. CASE op[t] # "del" /\ op'[t] = "del"
    <3>1. Dels' = Dels \cup {t} /\ t \notin Dels
      BY <1>1, <2>3 DEF Dels, Deletes
    <3>2. PICK i \in Indexed : Indexed' = Indexed \ {i} /\ entries' = entries
      BY <2>1, <2>3 DEF EntryEffect
    <3>3. Cardinality(Dels') = Cardinality(Dels) + 1 /\ Cardinality(Indexed') = Cardinality(Indexed) - 1
      BY <1>2, <3>1, <3>2, Grows, Shrinks
    <3> QED
      BY <1>2, <3>2, <3>3 DEF EntriesExact
  <2>4. CASE op[t] = "del" /\ op'[t] # "del"
    <3>1. Dels' = Dels \ {t} /\ t \in Dels
      BY <1>1, <2>4 DEF Dels, Deletes
    <3>2. Cardinality(Dels') = Cardinality(Dels) - 1
      BY <1>2, <3>1, Shrinks
    <3>3. Indexed' = Indexed /\ entries' = entries - 1
      BY <2>1, <2>4 DEF EntryEffect
    <3> QED
      BY <1>2, <3>2, <3>3 DEF EntriesExact
  <2> QED
    BY <2>2, <2>3, <2>4
<1>4. ReferencedExact'
  <2>1. ReferenceEffect(t)
    BY ReferenceStep
  <2>2. CASE pc[t] = "count" <=> pc'[t] = "count"
    <3>1. Counts' = Counts
      BY <1>1, <2>2 DEF Counts
    <3>2. CASE Positive' = Positive /\ referenced' = referenced
      BY <3>1, <3>2 DEF ReferencedExact
    <3>3. ASSUME NEW i \in Items \ Positive, Positive' = Positive \cup {i}, referenced' = referenced + 1
          PROVE  ReferencedExact'
      <4>1. Cardinality(Positive') = Cardinality(Positive) + 1
        BY <1>2, <3>3, Grows
      <4> QED
        BY <1>2, <3>1, <3>3, <4>1 DEF ReferencedExact
    <3> QED
      BY <2>1, <2>2, <3>2, <3>3 DEF ReferenceEffect
  <2>3. CASE pc[t] # "count" /\ pc'[t] = "count"
    <3>1. Counts' = Counts \cup {t} /\ t \notin Counts
      BY <1>1, <2>3 DEF Counts
    <3>2. PICK i \in Positive : Positive' = Positive \ {i} /\ referenced' = referenced
      BY <2>1, <2>3 DEF ReferenceEffect
    <3>3. Cardinality(Counts') = Cardinality(Counts) + 1 /\ Cardinality(Positive') = Cardinality(Positive) - 1
      BY <1>2, <3>1, <3>2, Grows, Shrinks
    <3> QED
      BY <1>2, <3>2, <3>3 DEF ReferencedExact
  <2>4. CASE pc[t] = "count" /\ pc'[t] # "count"
    <3>1. Counts' = Counts \ {t} /\ t \in Counts
      BY <1>1, <2>4 DEF Counts
    <3>2. Cardinality(Counts') = Cardinality(Counts) - 1
      BY <1>2, <3>1, Shrinks
    <3>3. Positive' = Positive /\ referenced' = referenced - 1
      BY <2>1, <2>4 DEF ReferenceEffect
    <3> QED
      BY <1>2, <3>2, <3>3 DEF ReferencedExact
  <2> QED
    BY <2>2, <2>3, <2>4
<1> QED
  BY <1>3, <1>4

\* Every step that changes the index, a reference count or a counter changes the others with it.
THEOREM CountersAreExact == Spec => []CountersExact
<1> DEFINE Exact == Consistent /\ EntriesExact /\ ReferencedExact
<1>1. Init => Exact
  <2> SUFFICES ASSUME Init PROVE Exact
    OBVIOUS
  <2>1. Consistent
    BY ConsistentInit
  <2>2. Indexed = {} /\ Dels = {} /\ Positive = {} /\ Counts = {}
    BY DEF Init, Indexed, Dels, Deletes, Positive, Counts
  <2>3. entries = 0 /\ referenced = 0
    BY DEF Init
  <2> QED
    <3>1. Cardinality({}) = 0
      BY FS_EmptySet
    <3>2. EntriesExact /\ ReferencedExact
      BY <2>2, <2>3, <3>1 DEF EntriesExact, ReferencedExact
    <3> QED
      BY <2>1, <3>2
<1>2. Exact /\ [Next]_vars => Exact'
  <2> SUFFICES ASSUME Exact, [Next]_vars PROVE Exact'
    OBVIOUS
  <2>1. Consistent'
    BY ConsistentStep
  <2>2. ASSUME NEW t \in Threads, Begin(t) \/ Continue(t) PROVE EntriesExact' /\ ReferencedExact'
    BY <2>1, <2>2, SumsStep
  <2>3. CASE UNCHANGED vars
    <3>1. UNCHANGED <<index, refcount, entries, referenced, pc, op>>
      BY <2>3 DEF vars, tables, counters
    <3>2. Indexed' = Indexed /\ Dels' = Dels /\ Positive' = Positive /\ Counts' = Counts
      BY <3>1 DEF Indexed, Dels, Deletes, Positive, Counts
    <3> QED
      BY <2>1, <3>1, <3>2 DEF EntriesExact, ReferencedExact
  <2> QED
    BY <2>1, <2>2, <2>3 DEF Next
<1>3. Exact => CountersExact
  BY DEF EntriesExact, ReferencedExact, CountersExact, Dels, Positive, Counts
<1> QED
  BY <1>1, <1>2, <1>3, PTL DEF Spec

-----------------------------------------------------------------------------
(* What waits for the collection.                                          *)

\* An item has left the index when it is marked, freed, or in a deletion under way.
Accounted ==
  \A i \in Made : i \in Indexed \cup marked \cup freed \/ \E t \in Threads : op[t] = "del" /\ it[t] = i

\* The marked items without references, and the releases that have yet to count one.
Zero == {i \in marked : refcount[i] = 0}
Late == {t \in Threads : pc[t] = "count" /\ saw[t]}

\* A thread that saw the flag has released an item that has it.
SawFlag ==
  /\ saw \in [Threads -> BOOLEAN]
  /\ \A t \in Threads : pc[t] = "dec" /\ saw[t] => slot[<<t, Releases(t)>>] \in marked

Collectible == SawFlag /\ (~raced => pending = Cardinality(Zero) - Cardinality(Late))

AccountEffect(t) ==
  /\ \A i \in Indexed : i \in Indexed' \/ (op'[t] = "del" /\ it'[t] = i)
  /\ op[t] = "del" => (op'[t] = "del" /\ it'[t] = it[t]) \/ it[t] \in marked' \cup freed'
  /\ \A i \in Made' : i \in Made \/ i \in Indexed'
  /\ marked \subseteq marked' /\ freed \subseteq freed'

LEMMA AccountStep ==
  ASSUME Consistent, NEW t \in Threads, Begin(t) \/ Continue(t)
  PROVE  AccountEffect(t)
<1>a. Begin(t) \/ Continue(t)
  OBVIOUS
<1>g. Types /\ Control(t) /\ Walking(t) /\ Owns(t)
  BY DEF Consistent, Placed, Flow
<1> USE <1>g DEF Types, Known, tables, counters, locks, locals, ghosts, Control, Walking, AccountEffect
<1>1. ASSUME NEW n \in Names, SetNew(t, n) PROVE AccountEffect(t)
  <2>1. allocated' # None /\ index' = [index EXCEPT ![n] = allocated'] /\ index[n] = None
    BY <1>1 DEF SetNew, None
  <2>2. Made' = Made \cup {allocated'}
    BY <1>1, Bounds DEF SetNew, Made
  <2>3. Indexed' = Indexed \cup {allocated'}
    BY <2>1 DEF Indexed
  <2>4. op[t] # "del" /\ marked' = marked /\ freed' = freed
    BY <1>1 DEF SetNew, MayAlter, Idle
  <2> QED
    BY <2>2, <2>3, <2>4
<1>2. ASSUME NEW n \in Names, SetFound(t, n) PROVE AccountEffect(t)
  <2>1. index' = index /\ Made' = Made
    BY <1>2 DEF SetFound, Call, MayAlter, Idle, Take, Drop, DropNested, DropReentrant, Made
  <2>2. Indexed' = Indexed
    BY <2>1 DEF Indexed
  <2>3. op[t] = "del" => (op'[t] = "del" /\ it'[t] = it[t]) \/ it[t] \in marked' \cup freed'
    BY <1>2 DEF SetFound, Call, MayAlter, Idle, Take, Drop, DropNested, DropReentrant
  <2>4. marked \subseteq marked' /\ freed \subseteq freed'
    BY <1>2 DEF SetFound, Call, MayAlter, Idle, Take, Drop, DropNested, DropReentrant
  <2> QED
    BY <2>1, <2>2, <2>3, <2>4
<1>3. ASSUME NEW n \in Names, Get(t, n) PROVE AccountEffect(t)
  <2>1. index' = index /\ Made' = Made
    BY <1>3 DEF Get, Call, Idle, Take, Drop, DropNested, DropReentrant, Made
  <2>2. Indexed' = Indexed
    BY <2>1 DEF Indexed
  <2>3. op[t] = "del" => (op'[t] = "del" /\ it'[t] = it[t]) \/ it[t] \in marked' \cup freed'
    BY <1>3 DEF Get, Call, Idle, Take, Drop, DropNested, DropReentrant
  <2>4. marked \subseteq marked' /\ freed \subseteq freed'
    BY <1>3 DEF Get, Call, Idle, Take, Drop, DropNested, DropReentrant
  <2> QED
    BY <2>1, <2>2, <2>3, <2>4
<1>4. ASSUME NEW n \in Names, Del(t, n) PROVE AccountEffect(t)
  <2>1. index' = [index EXCEPT ![n] = None] /\ Made' = Made
    BY <1>4 DEF Del, Made
  <2>2. \A i \in Indexed : i \in Indexed' \/ i = index[n]
    BY <2>1 DEF Indexed
  <2>3. op[t] # "del" /\ op'[t] = "del" /\ it'[t] = index[n] /\ marked' = marked /\ freed' = freed
    BY <1>4 DEF Del, MayAlter, Idle, Call
  <2> QED
    BY <2>1, <2>2, <2>3
<1>5. ASSUME NEW v \in Threads, NEW s \in {"held", "cur"}, Dup(t, s, v) PROVE AccountEffect(t)
  <2>1. index' = index /\ Made' = Made
    BY <1>5 DEF Dup, Idle, Made
  <2>2. Indexed' = Indexed
    BY <2>1 DEF Indexed
  <2>3. op[t] = "del" => (op'[t] = "del" /\ it'[t] = it[t]) \/ it[t] \in marked' \cup freed'
    BY <1>5 DEF Dup, Idle
  <2>4. marked \subseteq marked' /\ freed \subseteq freed'
    BY <1>5 DEF Dup, Idle
  <2> QED
    BY <2>1, <2>2, <2>3, <2>4
<1>6. CASE Entries(t)
  <2>1. index' = index /\ Made' = Made
    BY <1>6 DEF Entries, Call, MayAlter, Idle, Made
  <2>2. Indexed' = Indexed
    BY <2>1 DEF Indexed
  <2>3. op[t] = "del" => (op'[t] = "del" /\ it'[t] = it[t]) \/ it[t] \in marked' \cup freed'
    BY <1>6 DEF Entries, Call, MayAlter, Idle
  <2>4. marked \subseteq marked' /\ freed \subseteq freed'
    BY <1>6 DEF Entries, Call, MayAlter, Idle
  <2> QED
    BY <2>1, <2>2, <2>3, <2>4
<1>7. CASE Release(t)
  <2>1. index' = index /\ Made' = Made
    BY <1>7 DEF Release, Idle, Made
  <2>2. Indexed' = Indexed
    BY <2>1 DEF Indexed
  <2>3. op[t] = "del" => (op'[t] = "del" /\ it'[t] = it[t]) \/ it[t] \in marked' \cup freed'
    BY <1>7 DEF Release, Idle
  <2>4. marked \subseteq marked' /\ freed \subseteq freed'
    BY <1>7 DEF Release, Idle
  <2> QED
    BY <2>1, <2>2, <2>3, <2>4
<1>8. ASSUME NEW mode \in {"r", "w", "z"}, WalkStart(t, mode) PROVE AccountEffect(t)
  <2>1. index' = index /\ Made' = Made
    BY <1>8 DEF WalkStart, Call, Idle, Take, Drop, DropNested, DropReentrant, Made
  <2>2. Indexed' = Indexed
    BY <2>1 DEF Indexed
  <2>3. op[t] = "del" => (op'[t] = "del" /\ it'[t] = it[t]) \/ it[t] \in marked' \cup freed'
    BY <1>8 DEF WalkStart, Call, Idle, Take, Drop, DropNested, DropReentrant
  <2>4. marked \subseteq marked' /\ freed \subseteq freed'
    BY <1>8 DEF WalkStart, Call, Idle, Take, Drop, DropNested, DropReentrant
  <2> QED
    BY <2>1, <2>2, <2>3, <2>4
<1>9. CASE WalkNext(t)
  <2>1. index' = index /\ Made' = Made
    BY <1>9 DEF WalkNext, Idle, Take, Drop, DropNested, DropReentrant, Made
  <2>2. Indexed' = Indexed
    BY <2>1 DEF Indexed
  <2>3. op[t] = "del" => (op'[t] = "del" /\ it'[t] = it[t]) \/ it[t] \in marked' \cup freed'
    BY <1>9 DEF WalkNext, Idle, Take, Drop, DropNested, DropReentrant
  <2>4. marked \subseteq marked' /\ freed \subseteq freed'
    BY <1>9 DEF WalkNext, Idle, Take, Drop, DropNested, DropReentrant
  <2> QED
    BY <2>1, <2>2, <2>3, <2>4
<1>10. CASE WalkDone(t)
  <2>1. index' = index /\ Made' = Made
    BY <1>10 DEF WalkDone, Idle, ReleaseCurrent, Made
  <2>2. Indexed' = Indexed
    BY <2>1 DEF Indexed
  <2>3. op[t] = "del" => (op'[t] = "del" /\ it'[t] = it[t]) \/ it[t] \in marked' \cup freed'
    BY <1>10 DEF WalkDone, Idle, ReleaseCurrent
  <2>4. marked \subseteq marked' /\ freed \subseteq freed'
    BY <1>10 DEF WalkDone, Idle, ReleaseCurrent
  <2> QED
    BY <2>1, <2>2, <2>3, <2>4
<1>11. CASE Load(t)
  <2>1. index' = index /\ Made' = Made
    BY <1>11 DEF Load, Goto, Take, Drop, DropNested, DropReentrant, AfterRefusal, Made
  <2>2. Indexed' = Indexed
    BY <2>1 DEF Indexed
  <2>3. op[t] = "del" => (op'[t] = "del" /\ it'[t] = it[t]) \/ it[t] \in marked' \cup freed'
    BY <1>11 DEF Load, Goto, Take, Drop, DropNested, DropReentrant, AfterRefusal
  <2>4. marked \subseteq marked' /\ freed \subseteq freed'
    BY <1>11 DEF Load, Goto, Take, Drop, DropNested, DropReentrant, AfterRefusal
  <2> QED
    BY <2>1, <2>2, <2>3, <2>4
<1>12. CASE CasFails(t)
  <2>1. index' = index /\ Made' = Made
    BY <1>12 DEF CasFails, Goto, Swaps, Made
  <2>2. Indexed' = Indexed
    BY <2>1 DEF Indexed
  <2>3. op[t] = "del" => (op'[t] = "del" /\ it'[t] = it[t]) \/ it[t] \in marked' \cup freed'
    BY <1>12 DEF CasFails, Goto, Swaps
  <2>4. marked \subseteq marked' /\ freed \subseteq freed'
    BY <1>12 DEF CasFails, Goto, Swaps
  <2> QED
    BY <2>1, <2>2, <2>3, <2>4
<1>13. CASE Cas(t)
  <2>1. index' = index /\ Made' = Made
    BY <1>13 DEF Cas, Goto, Take, Drop, DropNested, DropReentrant, Acquires, ReleaseCurrent, Swaps, Made
  <2>2. Indexed' = Indexed
    BY <2>1 DEF Indexed
  <2>3. op[t] = "del" => (op'[t] = "del" /\ it'[t] = it[t]) \/ it[t] \in marked' \cup freed'
    BY <1>13 DEF Cas, Goto, Take, Drop, DropNested, DropReentrant, Acquires, ReleaseCurrent, Swaps
  <2>4. marked \subseteq marked' /\ freed \subseteq freed'
    BY <1>13 DEF Cas, Goto, Take, Drop, DropNested, DropReentrant, Acquires, ReleaseCurrent, Swaps
  <2> QED
    BY <2>1, <2>2, <2>3, <2>4
<1>14. CASE Advance(t)
  <2>1. index' = index /\ Made' = Made
    BY <1>14 DEF Advance, Goto, Take, Drop, DropNested, DropReentrant, Collect, AfterGc, ReleaseCurrent, Made
  <2>2. Indexed' = Indexed
    BY <2>1 DEF Indexed
  <2>3. op[t] = "del" => (op'[t] = "del" /\ it'[t] = it[t]) \/ it[t] \in marked' \cup freed'
    BY <1>14 DEF Advance, Goto, Take, Drop, DropNested, DropReentrant, Collect, AfterGc, ReleaseCurrent
  <2>4. marked \subseteq marked' /\ freed \subseteq freed'
    BY <1>14 DEF Advance, Goto, Take, Drop, DropNested, DropReentrant, Collect, AfterGc, ReleaseCurrent
  <2> QED
    BY <2>1, <2>2, <2>3, <2>4
<1>15. CASE GcTry(t)
  <2>1. index' = index /\ Made' = Made
    BY <1>15 DEF GcTry, Goto, Take, Drop, DropNested, DropReentrant, Collect, AfterGc, ReleaseCurrent, CanBeRemoved, Made
  <2>2. Indexed' = Indexed
    BY <2>1 DEF Indexed
  <2>3. op[t] = "del" => (op'[t] = "del" /\ it'[t] = it[t]) \/ it[t] \in marked' \cup freed'
    BY <1>15 DEF GcTry, Goto, Take, Drop, DropNested, DropReentrant, Collect, AfterGc, ReleaseCurrent, CanBeRemoved
  <2>4. marked \subseteq marked' /\ freed \subseteq freed'
    BY <1>15 DEF GcTry, Goto, Take, Drop, DropNested, DropReentrant, Collect, AfterGc, ReleaseCurrent, CanBeRemoved
  <2> QED
    BY <2>1, <2>2, <2>3, <2>4
<1>16. CASE GcLock(t)
  <2>1. index' = index /\ Made' = Made
    BY <1>16 DEF GcLock, Goto, Take, Drop, DropNested, DropReentrant, Made
  <2>2. Indexed' = Indexed
    BY <2>1 DEF Indexed
  <2>3. op[t] = "del" => (op'[t] = "del" /\ it'[t] = it[t]) \/ it[t] \in marked' \cup freed'
    BY <1>16 DEF GcLock, Goto, Take, Drop, DropNested, DropReentrant
  <2>4. marked \subseteq marked' /\ freed \subseteq freed'
    BY <1>16 DEF GcLock, Goto, Take, Drop, DropNested, DropReentrant
  <2> QED
    BY <2>1, <2>2, <2>3, <2>4
<1>17. CASE Peek(t)
  <2>1. index' = index /\ Made' = Made
    BY <1>17 DEF Peek, Goto, Made
  <2>2. Indexed' = Indexed
    BY <2>1 DEF Indexed
  <2>3. op[t] = "del" => (op'[t] = "del" /\ it'[t] = it[t]) \/ it[t] \in marked' \cup freed'
    BY <1>17 DEF Peek, Goto
  <2>4. marked \subseteq marked' /\ freed \subseteq freed'
    BY <1>17 DEF Peek, Goto
  <2> QED
    BY <2>1, <2>2, <2>3, <2>4
<1>18. CASE ReadFlag(t)
  <2>1. index' = index /\ Made' = Made
    BY <1>18 DEF ReadFlag, Goto, Releases, Made
  <2>2. Indexed' = Indexed
    BY <2>1 DEF Indexed
  <2>3. op[t] = "del" => (op'[t] = "del" /\ it'[t] = it[t]) \/ it[t] \in marked' \cup freed'
    BY <1>18 DEF ReadFlag, Goto, Releases
  <2>4. marked \subseteq marked' /\ freed \subseteq freed'
    BY <1>18 DEF ReadFlag, Goto, Releases
  <2> QED
    BY <2>1, <2>2, <2>3, <2>4
<1>19. CASE Decrement(t)
  <2>1. index' = index /\ Made' = Made
    BY <1>19 DEF Decrement, Goto, Releases, AfterRelease, Made
  <2>2. Indexed' = Indexed
    BY <2>1 DEF Indexed
  <2>3. op[t] = "del" => (op'[t] = "del" /\ it'[t] = it[t]) \/ it[t] \in marked' \cup freed'
    BY <1>19 DEF Decrement, Goto, Releases, AfterRelease
  <2>4. marked \subseteq marked' /\ freed \subseteq freed'
    BY <1>19 DEF Decrement, Goto, Releases, AfterRelease
  <2> QED
    BY <2>1, <2>2, <2>3, <2>4
<1>20. CASE Count(t)
  <2>1. index' = index /\ Made' = Made
    BY <1>20 DEF Count, Goto, Releases, AfterRelease, Made
  <2>2. Indexed' = Indexed
    BY <2>1 DEF Indexed
  <2>3. op[t] = "del" => (op'[t] = "del" /\ it'[t] = it[t]) \/ it[t] \in marked' \cup freed'
    BY <1>20 DEF Count, Goto, Releases, AfterRelease
  <2>4. marked \subseteq marked' /\ freed \subseteq freed'
    BY <1>20 DEF Count, Goto, Releases, AfterRelease
  <2> QED
    BY <2>1, <2>2, <2>3, <2>4
<1>21. CASE Try(t)
  <2>1. index' = index /\ Made' = Made
    BY <1>21 DEF Try, Goto, CanBeRemoved, Made
  <2>2. Indexed' = Indexed
    BY <2>1 DEF Indexed
  <2>3. op[t] = "del" => (op'[t] = "del" /\ it'[t] = it[t]) \/ it[t] \in marked' \cup freed'
    BY <1>21 DEF Try, Goto, CanBeRemoved
  <2>4. marked \subseteq marked' /\ freed \subseteq freed'
    BY <1>21 DEF Try, Goto, CanBeRemoved
  <2> QED
    BY <2>1, <2>2, <2>3, <2>4
<1>22. CASE On(t)
  <2>1. index' = index /\ Made' = Made
    BY <1>22 DEF On, Goto, Take, Drop, DropNested, DropReentrant, Made
  <2>2. Indexed' = Indexed
    BY <2>1 DEF Indexed
  <2>3. op[t] = "del" => (op'[t] = "del" /\ it'[t] = it[t]) \/ it[t] \in marked' \cup freed'
    BY <1>22 DEF On, Goto, Take, Drop, DropNested, DropReentrant
  <2>4. marked \subseteq marked' /\ freed \subseteq freed'
    BY <1>22 DEF On, Goto, Take, Drop, DropNested, DropReentrant
  <2> QED
    BY <2>1, <2>2, <2>3, <2>4
<1>23. CASE Link(t)
  <2>1. index' = index /\ Made' = Made
    BY <1>23 DEF Link, Goto, Take, Drop, DropNested, DropReentrant, LinkAndCollect, Made
  <2>2. Indexed' = Indexed
    BY <2>1 DEF Indexed
  <2>3. op[t] = "del" => (op'[t] = "del" /\ it'[t] = it[t]) \/ it[t] \in marked' \cup freed'
    BY <1>23 DEF Link, Goto, Take, Drop, DropNested, DropReentrant, LinkAndCollect
  <2>4. marked \subseteq marked' /\ freed \subseteq freed'
    BY <1>23 DEF Link, Goto, Take, Drop, DropNested, DropReentrant, LinkAndCollect
  <2> QED
    BY <2>1, <2>2, <2>3, <2>4
<1>24. CASE Unlink(t)
  <2>1. index' = index /\ Made' = Made
    BY <1>24 DEF Unlink, Goto, Take, Drop, DropNested, DropReentrant, LinkAndCollect, Made
  <2>2. Indexed' = Indexed
    BY <2>1 DEF Indexed
  <2>3. op[t] = "del" => (op'[t] = "del" /\ it'[t] = it[t]) \/ it[t] \in marked' \cup freed'
    BY <1>24 DEF Unlink, Goto, Take, Drop, DropNested, DropReentrant, LinkAndCollect
  <2>4. marked \subseteq marked' /\ freed \subseteq freed'
    BY <1>24 DEF Unlink, Goto, Take, Drop, DropNested, DropReentrant, LinkAndCollect
  <2> QED
    BY <2>1, <2>2, <2>3, <2>4
<1>25. CASE Free(t)
  <2>1. index' = index /\ Made' = Made
    BY <1>25 DEF Free, Goto, Made
  <2>2. Indexed' = Indexed
    BY <2>1 DEF Indexed
  <2>3. op[t] = "del" => (op'[t] = "del" /\ it'[t] = it[t]) \/ it[t] \in marked' \cup freed'
    BY <1>25 DEF Free, Goto
  <2>4. marked \subseteq marked' /\ freed \subseteq freed'
    BY <1>25 DEF Free, Goto
  <2> QED
    BY <2>1, <2>2, <2>3, <2>4
<1>26. CASE DelCas(t)
  <2>1. index' = index /\ Made' = Made
    BY <1>26 DEF DelCas, Goto, CanBeRemoved, Made
  <2>2. Indexed' = Indexed
    BY <2>1 DEF Indexed
  <2>3. op[t] = "del" => (op'[t] = "del" /\ it'[t] = it[t]) \/ it[t] \in marked' \cup freed'
    BY <1>26 DEF DelCas, Goto, CanBeRemoved
  <2>4. marked \subseteq marked' /\ freed \subseteq freed'
    BY <1>26 DEF DelCas, Goto, CanBeRemoved
  <2> QED
    BY <2>1, <2>2, <2>3, <2>4
<1>27. CASE DelMark(t)
  <2>1. index' = index /\ Made' = Made
    BY <1>27 DEF DelMark, Goto, Made
  <2>2. Indexed' = Indexed
    BY <2>1 DEF Indexed
  <2>3. op[t] = "del" => (op'[t] = "del" /\ it'[t] = it[t]) \/ it[t] \in marked' \cup freed'
    BY <1>27 DEF DelMark, Goto
  <2>4. marked \subseteq marked' /\ freed \subseteq freed'
    BY <1>27 DEF DelMark, Goto
  <2> QED
    BY <2>1, <2>2, <2>3, <2>4
<1> HIDE <1>g DEF Types, Known, tables, counters, locks, locals, ghosts, Control, Walking, AccountEffect
<1> QED
  BY <1>a, <1>1, <1>2, <1>3, <1>4, <1>5, <1>6, <1>7, <1>8, <1>9, <1>10, <1>11, <1>12, <1>13, <1>14, <1>15, <1>16, <1>17, <1>18, <1>19, <1>20, <1>21, <1>22, <1>23, <1>24, <1>25, <1>26, <1>27 DEF Begin, Continue

\* What a step does to the unreferenced garbage, to the releases that have yet to count some,
\* and to pending.
GarbageEffect(t) ==
  \/ Zero' = Zero /\ (t \in Late' <=> t \in Late) /\ pending' = pending
  \/ t \notin Late /\ t \notin Late' /\ pending' = pending - 1 /\ \E i \in Zero : Zero' = Zero \ {i}
  \/ t \notin Late /\ t \in Late' /\ pending' = pending /\ \E i : i \notin Zero /\ Zero' = Zero \cup {i}
  \/ t \in Late /\ t \notin Late' /\ pending' = pending + 1 /\ Zero' = Zero

LEMMA GarbageStep ==
  ASSUME Consistent, SawFlag, ~raced', NEW t \in Threads, Begin(t) \/ Continue(t)
  PROVE  GarbageEffect(t)
<1>a. Begin(t) \/ Continue(t)
  OBVIOUS
<1>g. Types /\ Counting /\ Uses(t) /\ Control(t) /\ Walking(t) /\ Owns(t) /\ Points(t)
  BY DEF Consistent, Placed, Flow
<1>m. marked \subseteq Items
  BY <1>g, Bounds DEF Types, Made, Items
<1> USE <1>g DEF Types, Known, tables, counters, locks, locals, ghosts, Control, GarbageEffect
<1>1. ASSUME NEW n \in Names, SetNew(t, n) PROVE GarbageEffect(t)
  <2>1. refcount' = [refcount EXCEPT ![allocated'] = 1] /\ allocated' \notin marked /\ marked' = marked
    BY <1>1, Bounds DEF SetNew, Made
  <2>2. Zero' = Zero
    BY <2>1 DEF Zero
  <2>3. pending' = pending /\ (t \in Late' <=> t \in Late)
    BY <1>1 DEF SetNew, Call, MayAlter, Idle, Late
  <2> QED
    BY <2>2, <2>3
<1>2. ASSUME NEW n \in Names, SetFound(t, n) PROVE GarbageEffect(t)
  <2>1. refcount' = refcount /\ marked' = marked
    BY <1>2 DEF SetFound, Call, MayAlter, Idle, Take, Drop, DropNested, DropReentrant
  <2>2. Zero' = Zero
    BY <2>1 DEF Zero
  <2>3. pending' = pending /\ (t \in Late' <=> t \in Late)
    BY <1>2 DEF SetFound, Call, MayAlter, Idle, Take, Drop, DropNested, DropReentrant, Late
  <2> QED
    BY <2>2, <2>3
<1>3. ASSUME NEW n \in Names, Get(t, n) PROVE GarbageEffect(t)
  <2>1. refcount' = refcount /\ marked' = marked
    BY <1>3 DEF Get, Call, Idle, Take, Drop, DropNested, DropReentrant
  <2>2. Zero' = Zero
    BY <2>1 DEF Zero
  <2>3. pending' = pending /\ (t \in Late' <=> t \in Late)
    BY <1>3 DEF Get, Call, Idle, Take, Drop, DropNested, DropReentrant, Late
  <2> QED
    BY <2>2, <2>3
<1>4. ASSUME NEW n \in Names, Del(t, n) PROVE GarbageEffect(t)
  <2>1. refcount' = refcount /\ marked' = marked
    BY <1>4 DEF Del, Call, MayAlter, Idle
  <2>2. Zero' = Zero
    BY <2>1 DEF Zero
  <2>3. pending' = pending /\ (t \in Late' <=> t \in Late)
    BY <1>4 DEF Del, Call, MayAlter, Idle, Late
  <2> QED
    BY <2>2, <2>3
<1>5. ASSUME NEW v \in Threads, NEW s \in {"held", "cur"}, Dup(t, s, v) PROVE GarbageEffect(t)
  <2>1. <<t, s>> \in Refs /\ slot[<<t, s>>] # None
    BY <1>5 DEF Dup, Refs, Slots
  <2>2. PICK i \in Items : i = slot[<<t, s>>] /\ refcount[i] > 0
    BY <2>1, Held
  <2>3. refcount' = [refcount EXCEPT ![i] = @ + 1] /\ marked' = marked /\ pending' = pending
    BY <1>5, <2>2 DEF Dup
  <2>4. Zero' = Zero
    BY <2>2, <2>3 DEF Zero
  <2>5. t \in Late' <=> t \in Late
    BY <1>5 DEF Dup, Late
  <2> QED
    BY <2>3, <2>4, <2>5
<1>6. CASE Entries(t)
  <2>1. refcount' = refcount /\ marked' = marked
    BY <1>6 DEF Entries, Call, MayAlter, Idle
  <2>2. Zero' = Zero
    BY <2>1 DEF Zero
  <2>3. pending' = pending /\ (t \in Late' <=> t \in Late)
    BY <1>6 DEF Entries, Call, MayAlter, Idle, Late
  <2> QED
    BY <2>2, <2>3
<1>7. CASE Release(t)
  <2>1. refcount' = refcount /\ marked' = marked
    BY <1>7 DEF Release, Idle
  <2>2. Zero' = Zero
    BY <2>1 DEF Zero
  <2>3. pending' = pending /\ (t \in Late' <=> t \in Late)
    BY <1>7 DEF Release, Idle, Late
  <2> QED
    BY <2>2, <2>3
<1>8. ASSUME NEW mode \in {"r", "w", "z"}, WalkStart(t, mode) PROVE GarbageEffect(t)
  <2>1. refcount' = refcount /\ marked' = marked
    BY <1>8 DEF WalkStart, Call, Idle, Take, Drop, DropNested, DropReentrant
  <2>2. Zero' = Zero
    BY <2>1 DEF Zero
  <2>3. pending' = pending /\ (t \in Late' <=> t \in Late)
    BY <1>8 DEF WalkStart, Call, Idle, Take, Drop, DropNested, DropReentrant, Late
  <2> QED
    BY <2>2, <2>3
<1>9. CASE WalkNext(t)
  <2>1. refcount' = refcount /\ marked' = marked
    BY <1>9 DEF WalkNext, Idle, Take, Drop, DropNested, DropReentrant
  <2>2. Zero' = Zero
    BY <2>1 DEF Zero
  <2>3. pending' = pending /\ (t \in Late' <=> t \in Late)
    BY <1>9 DEF WalkNext, Idle, Take, Drop, DropNested, DropReentrant, Late
  <2> QED
    BY <2>2, <2>3
<1>10. CASE WalkDone(t)
  <2>1. refcount' = refcount /\ marked' = marked
    BY <1>10 DEF WalkDone, Idle, ReleaseCurrent
  <2>2. Zero' = Zero
    BY <2>1 DEF Zero
  <2>3. pending' = pending /\ (t \in Late' <=> t \in Late)
    BY <1>10 DEF WalkDone, Idle, ReleaseCurrent, Late
  <2> QED
    BY <2>2, <2>3
<1>11. CASE Load(t)
  <2>1. refcount' = refcount /\ marked' = marked
    BY <1>11 DEF Load, Goto, Take, Drop, DropNested, DropReentrant, AfterRefusal
  <2>2. Zero' = Zero
    BY <2>1 DEF Zero
  <2>3. pending' = pending /\ (t \in Late' <=> t \in Late)
    BY <1>11 DEF Load, Goto, Take, Drop, DropNested, DropReentrant, AfterRefusal, Late
  <2> QED
    BY <2>2, <2>3
<1>12. CASE CasFails(t)
  <2>1. refcount' = refcount /\ marked' = marked
    BY <1>12 DEF CasFails, Goto, Swaps
  <2>2. Zero' = Zero
    BY <2>1 DEF Zero
  <2>3. pending' = pending /\ (t \in Late' <=> t \in Late)
    BY <1>12 DEF CasFails, Goto, Swaps, Late
  <2> QED
    BY <2>2, <2>3
<1>13. CASE Cas(t)
  <2>1. PICK i \in Items : i = at[t] /\ refcount[i] = seen[t] /\ seen[t] \in Nat
    BY <1>13, Bounds DEF Cas, Swaps, Points, Made, Items
  <2>2. refcount' = [refcount EXCEPT ![i] = seen[t] + 1] /\ marked' = marked /\ pending' = pending
    BY <1>13, <2>1 DEF Cas
  <2>3. t \notin Late /\ t \notin Late'
    BY <1>13 DEF Cas, Goto, ReleaseCurrent, Late
  <2>4. seen[t] = 0 => i \notin marked
    BY <1>13, <2>1 DEF Cas
  <2>5. Zero' = Zero
    BY <2>1, <2>2, <2>4 DEF Zero
  <2> QED
    BY <2>2, <2>3, <2>5
<1>14. CASE Advance(t)
  <2>1. refcount' = refcount /\ marked' = marked
    BY <1>14 DEF Advance, Goto, Take, Drop, DropNested, DropReentrant, Collect, AfterGc, ReleaseCurrent
  <2>2. Zero' = Zero
    BY <2>1 DEF Zero
  <2>3. pending' = pending /\ (t \in Late' <=> t \in Late)
    BY <1>14 DEF Advance, Goto, Take, Drop, DropNested, DropReentrant, Collect, AfterGc, ReleaseCurrent, Late
  <2> QED
    BY <2>2, <2>3
<1>15. CASE GcTry(t)
  <2>1. t \notin Late /\ t \notin Late' /\ marked' = marked
    BY <1>15 DEF GcTry, Goto, Take, Drop, DropNested, DropReentrant, Collect, AfterGc, ReleaseCurrent, CanBeRemoved, Late
  <2>2. CASE refcount[at[t]] = 0
    <3>1. refcount' = [refcount EXCEPT ![at[t]] = Deleting] /\ pending' = pending - 1
      BY <1>15, <2>2 DEF GcTry, CanBeRemoved
    <3>2. at[t] \in Zero
      BY <1>15, <2>2 DEF GcTry, Uses, Zero
    <3>3. Zero' = Zero \ {at[t]}
      BY <1>m, <2>1, <3>1, <3>2 DEF Zero, Deleting
    <3> QED
      BY <2>1, <3>1, <3>2, <3>3
  <2>3. CASE refcount[at[t]] # 0
    <3>1. refcount' = refcount /\ pending' = pending
      BY <1>15, <2>3 DEF GcTry, CanBeRemoved
    <3>2. Zero' = Zero
      BY <2>1, <3>1 DEF Zero
    <3> QED
      BY <2>1, <3>1, <3>2
  <2> QED
    BY <2>2, <2>3
<1>16. CASE GcLock(t)
  <2>1. refcount' = refcount /\ marked' = marked
    BY <1>16 DEF GcLock, Goto, Take, Drop, DropNested, DropReentrant
  <2>2. Zero' = Zero
    BY <2>1 DEF Zero
  <2>3. pending' = pending /\ (t \in Late' <=> t \in Late)
    BY <1>16 DEF GcLock, Goto, Take, Drop, DropNested, DropReentrant, Late
  <2> QED
    BY <2>2, <2>3
<1>17. CASE Peek(t)
  <2>1. refcount' = refcount /\ marked' = marked
    BY <1>17 DEF Peek, Goto
  <2>2. Zero' = Zero
    BY <2>1 DEF Zero
  <2>3. pending' = pending /\ (t \in Late' <=> t \in Late)
    BY <1>17 DEF Peek, Goto, Late
  <2> QED
    BY <2>2, <2>3
<1>18. CASE ReadFlag(t)
  <2>1. refcount' = refcount /\ marked' = marked
    BY <1>18 DEF ReadFlag, Goto, Releases
  <2>2. Zero' = Zero
    BY <2>1 DEF Zero
  <2>3. pending' = pending /\ (t \in Late' <=> t \in Late)
    BY <1>18 DEF ReadFlag, Goto, Releases, Late
  <2> QED
    BY <2>2, <2>3
<1>19. CASE Decrement(t)
  <2> DEFINE r == <<t, Releases(t)>>
  <2>1. r \in Refs /\ slot[r] # None
    BY <1>19 DEF Decrement, Owns, Releases, Refs, Slots, Seeks
  <2>2. PICK i \in Items : i = slot[r] /\ refcount[i] > 0
    BY <2>1, Held
  <2>3. /\ refcount' = [refcount EXCEPT ![i] = @ - 1] /\ pending' = pending /\ marked' = marked
        /\ refcount[i] = 1 /\ ~saw[t] => i \notin marked
    BY <1>19, <2>2 DEF Decrement
  <2>4. t \notin Late /\ (t \in Late' <=> refcount[i] = 1 /\ saw[t])
    BY <1>19, <2>2 DEF Decrement, Goto, AfterRelease, Late
  <2>5. saw[t] => i \in marked
    BY <1>19, <2>2 DEF Decrement, SawFlag
  <2> HIDE DEF r
  <2>6. CASE refcount[i] = 1 /\ saw[t]
    <3>1. i \notin Zero /\ Zero' = Zero \cup {i}
      BY <2>2, <2>3, <2>5, <2>6 DEF Zero
    <3> QED
      BY <2>3, <2>4, <2>6, <3>1
  <2>7. CASE ~(refcount[i] = 1 /\ saw[t])
    <3>1. i \notin marked \/ refcount[i] - 1 # 0
      BY <2>2, <2>3, <2>7
    <3>2. Zero' = Zero
      BY <2>2, <2>3, <3>1 DEF Zero
    <3> QED
      BY <2>3, <2>4, <2>7, <3>2
  <2> QED
    BY <2>6, <2>7
<1>20. CASE Count(t)
  <2>1. refcount' = refcount /\ marked' = marked
    BY <1>20 DEF Count
  <2>2. Zero' = Zero
    BY <2>1 DEF Zero
  <2>3. t \notin Late' /\ (t \in Late <=> saw[t])
    BY <1>20 DEF Count, Goto, Releases, AfterRelease, Late
  <2>4. pending' = IF saw[t] THEN pending + 1 ELSE pending
    BY <1>20 DEF Count
  <2> QED
    BY <2>2, <2>3, <2>4
<1>21. CASE Try(t)
  <2>1. t \notin Late /\ t \notin Late' /\ marked' = marked
    BY <1>21 DEF Try, Goto, CanBeRemoved, Late
  <2>2. CASE refcount[it[t]] = 0
    <3>1. refcount' = [refcount EXCEPT ![it[t]] = Deleting] /\ pending' = pending - 1
      BY <1>21, <2>2 DEF Try, CanBeRemoved
    <3>2. it[t] \in Zero
      BY <1>21, <2>2 DEF Try, Uses, Walking, Zero
    <3>3. Zero' = Zero \ {it[t]}
      BY <1>m, <2>1, <3>1, <3>2 DEF Zero, Deleting
    <3> QED
      BY <2>1, <3>1, <3>2, <3>3
  <2>3. CASE refcount[it[t]] # 0
    <3>1. refcount' = refcount /\ pending' = pending
      BY <1>21, <2>3 DEF Try, CanBeRemoved
    <3>2. Zero' = Zero
      BY <2>1, <3>1 DEF Zero
    <3> QED
      BY <2>1, <3>1, <3>2
  <2> QED
    BY <2>2, <2>3
<1>22. CASE On(t)
  <2>1. refcount' = refcount /\ marked' = marked
    BY <1>22 DEF On, Goto, Take, Drop, DropNested, DropReentrant
  <2>2. Zero' = Zero
    BY <2>1 DEF Zero
  <2>3. pending' = pending /\ (t \in Late' <=> t \in Late)
    BY <1>22 DEF On, Goto, Take, Drop, DropNested, DropReentrant, Late
  <2> QED
    BY <2>2, <2>3
<1>23. CASE Link(t)
  <2>1. refcount' = refcount /\ marked' = marked
    BY <1>23 DEF Link, Goto, Take, Drop, DropNested, DropReentrant, LinkAndCollect
  <2>2. Zero' = Zero
    BY <2>1 DEF Zero
  <2>3. pending' = pending /\ (t \in Late' <=> t \in Late)
    BY <1>23 DEF Link, Goto, Take, Drop, DropNested, DropReentrant, LinkAndCollect, Late
  <2> QED
    BY <2>2, <2>3
<1>24. CASE Unlink(t)
  <2>1. refcount' = refcount /\ marked' = marked
    BY <1>24 DEF Unlink, Goto, Take, Drop, DropNested, DropReentrant, LinkAndCollect
  <2>2. Zero' = Zero
    BY <2>1 DEF Zero
  <2>3. pending' = pending /\ (t \in Late' <=> t \in Late)
    BY <1>24 DEF Unlink, Goto, Take, Drop, DropNested, DropReentrant, LinkAndCollect, Late
  <2> QED
    BY <2>2, <2>3
<1>25. CASE Free(t)
  <2>1. refcount' = refcount /\ marked' = marked
    BY <1>25 DEF Free, Goto
  <2>2. Zero' = Zero
    BY <2>1 DEF Zero
  <2>3. pending' = pending /\ (t \in Late' <=> t \in Late)
    BY <1>25 DEF Free, Goto, Late
  <2> QED
    BY <2>2, <2>3
<1>26. CASE DelCas(t)
  <2>1. it[t] \notin marked /\ marked' = marked
    BY <1>26 DEF DelCas, Uses
  <2>2. refcount' = refcount \/ refcount' = [refcount EXCEPT ![it[t]] = Deleting]
    BY <1>26 DEF DelCas
  <2>3. Zero' = Zero
    BY <1>m, <2>1, <2>2 DEF Zero
  <2>4. pending' = pending /\ (t \in Late' <=> t \in Late)
    BY <1>26 DEF DelCas, Goto, CanBeRemoved, Late
  <2> QED
    BY <2>3, <2>4
<1>27. CASE DelMark(t)
  <2>1. marked' = marked \cup {it[t]} /\ refcount' = refcount /\ refcount[it[t]] # 0
    BY <1>27 DEF DelMark
  <2>2. Zero' = Zero
    BY <2>1 DEF Zero
  <2>3. pending' = pending /\ (t \in Late' <=> t \in Late)
    BY <1>27 DEF DelMark, Goto, Late
  <2> QED
    BY <2>2, <2>3
<1> HIDE <1>g DEF Types, Known, tables, counters, locks, locals, ghosts, Control, GarbageEffect
<1> QED
  BY <1>a, <1>1, <1>2, <1>3, <1>4, <1>5, <1>6, <1>7, <1>8, <1>9, <1>10, <1>11, <1>12, <1>13, <1>14, <1>15, <1>16, <1>17, <1>18, <1>19, <1>20, <1>21, <1>22, <1>23, <1>24, <1>25, <1>26, <1>27 DEF Begin, Continue

\* A flag that was read is not taken back, nor is what is counted forgotten.
FlagEffect(t) ==
  /\ saw' \in [Threads -> BOOLEAN] /\ (raced => raced')
  /\ pc'[t] = "dec" /\ saw'[t] => slot'[<<t, Releases(t)'>>] \in marked'
  /\ \A u \in Threads : u # t => saw'[u] = saw[u] /\ (pc[u] = "dec" => slot'[<<u, Releases(u)>>] = slot[<<u, Releases(u)>>])

LEMMA FlagStep ==
  ASSUME Consistent, SawFlag, NEW t \in Threads, Begin(t) \/ Continue(t)
  PROVE  FlagEffect(t)
<1>a. Begin(t) \/ Continue(t)
  OBVIOUS
<1>g. Types /\ Control(t) /\ saw \in [Threads -> BOOLEAN]
  BY DEF Consistent, Placed, Flow, SawFlag
<1>r. \A u \in Threads : Releases(u) \in Slots
  BY DEF Releases, Slots
<1> USE <1>g DEF Types, Refs, tables, counters, locks, locals, ghosts, Control, FlagEffect
<1>1. ASSUME NEW n \in Names, SetNew(t, n) PROVE FlagEffect(t)
  <2>1. pc'[t] # "dec"
    BY <1>1 DEF SetNew, Call, MayAlter, Idle
  <2>2. saw' = saw /\ (raced => raced') /\ \A u \in Threads : u # t => \A s \in Slots : slot'[<<u, s>>] = slot[<<u, s>>]
    BY <1>1 DEF SetNew, Call, MayAlter, Idle
  <2>3. saw' \in [Threads -> BOOLEAN]
    BY <1>1 DEF SetNew, Call, MayAlter, Idle
  <2> QED
    BY <2>1, <2>2, <2>3, <1>r
<1>2. ASSUME NEW n \in Names, SetFound(t, n) PROVE FlagEffect(t)
  <2>1. pc'[t] # "dec"
    BY <1>2 DEF SetFound, Call, MayAlter, Idle, Take, Drop, DropNested, DropReentrant
  <2>2. saw' = saw /\ (raced => raced') /\ \A u \in Threads : u # t => \A s \in Slots : slot'[<<u, s>>] = slot[<<u, s>>]
    BY <1>2 DEF SetFound, Call, MayAlter, Idle, Take, Drop, DropNested, DropReentrant
  <2>3. saw' \in [Threads -> BOOLEAN]
    BY <1>2 DEF SetFound, Call, MayAlter, Idle, Take, Drop, DropNested, DropReentrant
  <2> QED
    BY <2>1, <2>2, <2>3, <1>r
<1>3. ASSUME NEW n \in Names, Get(t, n) PROVE FlagEffect(t)
  <2>1. pc'[t] # "dec"
    BY <1>3 DEF Get, Call, Idle, Take, Drop, DropNested, DropReentrant
  <2>2. saw' = saw /\ (raced => raced') /\ \A u \in Threads : u # t => \A s \in Slots : slot'[<<u, s>>] = slot[<<u, s>>]
    BY <1>3 DEF Get, Call, Idle, Take, Drop, DropNested, DropReentrant
  <2>3. saw' \in [Threads -> BOOLEAN]
    BY <1>3 DEF Get, Call, Idle, Take, Drop, DropNested, DropReentrant
  <2> QED
    BY <2>1, <2>2, <2>3, <1>r
<1>4. ASSUME NEW n \in Names, Del(t, n) PROVE FlagEffect(t)
  <2>1. pc'[t] # "dec"
    BY <1>4 DEF Del, Call, MayAlter, Idle
  <2>2. saw' = saw /\ (raced => raced') /\ \A u \in Threads : u # t => \A s \in Slots : slot'[<<u, s>>] = slot[<<u, s>>]
    BY <1>4 DEF Del, Call, MayAlter, Idle
  <2>3. saw' \in [Threads -> BOOLEAN]
    BY <1>4 DEF Del, Call, MayAlter, Idle
  <2> QED
    BY <2>1, <2>2, <2>3, <1>r
<1>5. ASSUME NEW v \in Threads, NEW s \in {"held", "cur"}, Dup(t, s, v) PROVE FlagEffect(t)
  <2>1. pc'[t] # "dec" /\ saw' = saw /\ raced' = raced /\ pc[v] = "idle"
    BY <1>5 DEF Dup, Idle
  <2>2. slot' = [slot EXCEPT ![<<v, "held">>] = slot[<<t, s>>]]
    BY <1>5 DEF Dup
  <2>3. \A u \in Threads : u # v => \A q \in Slots : slot'[<<u, q>>] = slot[<<u, q>>]
    BY <2>2
  <2> QED
    BY <2>1, <2>3, <1>r
<1>6. CASE Entries(t)
  <2>1. pc'[t] # "dec"
    BY <1>6 DEF Entries, Call, MayAlter, Idle
  <2>2. saw' = saw /\ (raced => raced') /\ \A u \in Threads : u # t => \A s \in Slots : slot'[<<u, s>>] = slot[<<u, s>>]
    BY <1>6 DEF Entries, Call, MayAlter, Idle
  <2>3. saw' \in [Threads -> BOOLEAN]
    BY <1>6 DEF Entries, Call, MayAlter, Idle
  <2> QED
    BY <2>1, <2>2, <2>3, <1>r
<1>7. CASE Release(t)
  <2>1. pc'[t] # "dec"
    BY <1>7 DEF Release, Idle
  <2>2. saw' = saw /\ (raced => raced') /\ \A u \in Threads : u # t => \A s \in Slots : slot'[<<u, s>>] = slot[<<u, s>>]
    BY <1>7 DEF Release, Idle
  <2>3. saw' \in [Threads -> BOOLEAN]
    BY <1>7 DEF Release, Idle
  <2> QED
    BY <2>1, <2>2, <2>3, <1>r
<1>8. ASSUME NEW mode \in {"r", "w", "z"}, WalkStart(t, mode) PROVE FlagEffect(t)
  <2>1. pc'[t] # "dec"
    BY <1>8 DEF WalkStart, Call, Idle, Take, Drop, DropNested, DropReentrant
  <2>2. saw' = saw /\ (raced => raced') /\ \A u \in Threads : u # t => \A s \in Slots : slot'[<<u, s>>] = slot[<<u, s>>]
    BY <1>8 DEF WalkStart, Call, Idle, Take, Drop, DropNested, DropReentrant
  <2>3. saw' \in [Threads -> BOOLEAN]
    BY <1>8 DEF WalkStart, Call, Idle, Take, Drop, DropNested, DropReentrant
  <2> QED
    BY <2>1, <2>2, <2>3, <1>r
<1>9. CASE WalkNext(t)
  <2>1. pc'[t] # "dec"
    BY <1>9 DEF WalkNext, Idle, Take, Drop, DropNested, DropReentrant
  <2>2. saw' = saw /\ (raced => raced') /\ \A u \in Threads : u # t => \A s \in Slots : slot'[<<u, s>>] = slot[<<u, s>>]
    BY <1>9 DEF WalkNext, Idle, Take, Drop, DropNested, DropReentrant
  <2>3. saw' \in [Threads -> BOOLEAN]
    BY <1>9 DEF WalkNext, Idle, Take, Drop, DropNested, DropReentrant
  <2> QED
    BY <2>1, <2>2, <2>3, <1>r
<1>10. CASE WalkDone(t)
  <2>1. pc'[t] # "dec"
    BY <1>10 DEF WalkDone, Idle, ReleaseCurrent
  <2>2. saw' = saw /\ (raced => raced') /\ \A u \in Threads : u # t => \A s \in Slots : slot'[<<u, s>>] = slot[<<u, s>>]
    BY <1>10 DEF WalkDone, Idle, ReleaseCurrent
  <2>3. saw' \in [Threads -> BOOLEAN]
    BY <1>10 DEF WalkDone, Idle, ReleaseCurrent
  <2> QED
    BY <2>1, <2>2, <2>3, <1>r
<1>11. CASE Load(t)
  <2>1. pc'[t] # "dec"
    BY <1>11 DEF Load, Goto, Take, Drop, DropNested, DropReentrant, AfterRefusal
  <2>2. saw' = saw /\ (raced => raced') /\ \A u \in Threads : u # t => \A s \in Slots : slot'[<<u, s>>] = slot[<<u, s>>]
    BY <1>11 DEF Load, Goto, Take, Drop, DropNested, DropReentrant, AfterRefusal
  <2>3. saw' \in [Threads -> BOOLEAN]
    BY <1>11 DEF Load, Goto, Take, Drop, DropNested, DropReentrant, AfterRefusal
  <2> QED
    BY <2>1, <2>2, <2>3, <1>r
<1>12. CASE CasFails(t)
  <2>1. pc'[t] # "dec"
    BY <1>12 DEF CasFails, Goto, Swaps
  <2>2. saw' = saw /\ (raced => raced') /\ \A u \in Threads : u # t => \A s \in Slots : slot'[<<u, s>>] = slot[<<u, s>>]
    BY <1>12 DEF CasFails, Goto, Swaps
  <2>3. saw' \in [Threads -> BOOLEAN]
    BY <1>12 DEF CasFails, Goto, Swaps
  <2> QED
    BY <2>1, <2>2, <2>3, <1>r
<1>13. CASE Cas(t)
  <2>1. pc'[t] # "dec"
    BY <1>13 DEF Cas, Goto, Take, Drop, DropNested, DropReentrant, Acquires, ReleaseCurrent, Swaps
  <2>2. saw' = saw /\ (raced => raced') /\ \A u \in Threads : u # t => \A s \in Slots : slot'[<<u, s>>] = slot[<<u, s>>]
    BY <1>13 DEF Cas, Goto, Take, Drop, DropNested, DropReentrant, Acquires, ReleaseCurrent, Swaps
  <2>3. saw' \in [Threads -> BOOLEAN]
    BY <1>13 DEF Cas, Goto, Take, Drop, DropNested, DropReentrant, Acquires, ReleaseCurrent, Swaps
  <2> QED
    BY <2>1, <2>2, <2>3, <1>r
<1>14. CASE Advance(t)
  <2>1. pc'[t] # "dec"
    BY <1>14 DEF Advance, Goto, Take, Drop, DropNested, DropReentrant, Collect, AfterGc, ReleaseCurrent
  <2>2. saw' = saw /\ (raced => raced') /\ \A u \in Threads : u # t => \A s \in Slots : slot'[<<u, s>>] = slot[<<u, s>>]
    BY <1>14 DEF Advance, Goto, Take, Drop, DropNested, DropReentrant, Collect, AfterGc, ReleaseCurrent
  <2>3. saw' \in [Threads -> BOOLEAN]
    BY <1>14 DEF Advance, Goto, Take, Drop, DropNested, DropReentrant, Collect, AfterGc, ReleaseCurrent
  <2> QED
    BY <2>1, <2>2, <2>3, <1>r
<1>15. CASE GcTry(t)
  <2>1. pc'[t] # "dec"
    BY <1>15 DEF GcTry, Goto, Take, Drop, DropNested, DropReentrant, Collect, AfterGc, ReleaseCurrent, CanBeRemoved
  <2>2. saw' = saw /\ (raced => raced') /\ \A u \in Threads : u # t => \A s \in Slots : slot'[<<u, s>>] = slot[<<u, s>>]
    BY <1>15 DEF GcTry, Goto, Take, Drop, DropNested, DropReentrant, Collect, AfterGc, ReleaseCurrent, CanBeRemoved
  <2>3. saw' \in [Threads -> BOOLEAN]
    BY <1>15 DEF GcTry, Goto, Take, Drop, DropNested, DropReentrant, Collect, AfterGc, ReleaseCurrent, CanBeRemoved
  <2> QED
    BY <2>1, <2>2, <2>3, <1>r
<1>16. CASE GcLock(t)
  <2>1. pc'[t] # "dec"
    BY <1>16 DEF GcLock, Goto, Take, Drop, DropNested, DropReentrant
  <2>2. saw' = saw /\ (raced => raced') /\ \A u \in Threads : u # t => \A s \in Slots : slot'[<<u, s>>] = slot[<<u, s>>]
    BY <1>16 DEF GcLock, Goto, Take, Drop, DropNested, DropReentrant
  <2>3. saw' \in [Threads -> BOOLEAN]
    BY <1>16 DEF GcLock, Goto, Take, Drop, DropNested, DropReentrant
  <2> QED
    BY <2>1, <2>2, <2>3, <1>r
<1>17. CASE Peek(t)
  <2>1. pc'[t] # "dec"
    BY <1>17 DEF Peek, Goto
  <2>2. saw' = saw /\ (raced => raced') /\ \A u \in Threads : u # t => \A s \in Slots : slot'[<<u, s>>] = slot[<<u, s>>]
    BY <1>17 DEF Peek, Goto
  <2>3. saw' \in [Threads -> BOOLEAN]
    BY <1>17 DEF Peek, Goto
  <2> QED
    BY <2>1, <2>2, <2>3, <1>r
<1>18. CASE ReadFlag(t)
  <2>1. saw' = [saw EXCEPT ![t] = slot[<<t, Releases(t)>>] \in marked]
    BY <1>18 DEF ReadFlag
  <2>2. slot' = slot /\ marked' = marked /\ raced' = raced /\ gc' = gc /\ op' = op
    BY <1>18 DEF ReadFlag, Goto
  <2>3. Releases(t)' = Releases(t)
    BY <2>2 DEF Releases
  <2>4. saw' \in [Threads -> BOOLEAN] /\ (saw'[t] => slot'[<<t, Releases(t)'>>] \in marked')
    <3>1. PICK seesFlag \in BOOLEAN : seesFlag <=> slot[<<t, Releases(t)>>] \in marked
      OBVIOUS
    <3>2. saw' = [saw EXCEPT ![t] = seesFlag]
      BY <2>1, <3>1
    <3>3. saw' \in [Threads -> BOOLEAN] /\ (saw'[t] <=> seesFlag)
      BY <3>2
    <3>4. slot'[<<t, Releases(t)'>>] = slot[<<t, Releases(t)>>]
      BY <2>2, <2>3
    <3> QED
      BY <2>2, <3>1, <3>3, <3>4
  <2>5. \A u \in Threads : u # t => saw'[u] = saw[u]
    BY <2>1
  <2> QED
    BY <2>2, <2>4, <2>5
<1>19. CASE Decrement(t)
  <2>1. pc'[t] # "dec"
    BY <1>19 DEF Decrement, Goto, Releases, AfterRelease
  <2>2. saw' = saw /\ (raced => raced') /\ \A u \in Threads : u # t => \A s \in Slots : slot'[<<u, s>>] = slot[<<u, s>>]
    BY <1>19 DEF Decrement, Goto, Releases, AfterRelease
  <2>3. saw' \in [Threads -> BOOLEAN]
    BY <1>19 DEF Decrement, Goto, Releases, AfterRelease
  <2> QED
    BY <2>1, <2>2, <2>3, <1>r
<1>20. CASE Count(t)
  <2>1. pc'[t] # "dec"
    BY <1>20 DEF Count, Goto, Releases, AfterRelease
  <2>2. (\A u \in Threads : u # t => saw'[u] = saw[u]) /\ (raced => raced') /\ \A u \in Threads : u # t => \A s \in Slots : slot'[<<u, s>>] = slot[<<u, s>>]
    BY <1>20 DEF Count, Goto, Releases, AfterRelease
  <2>3. saw' \in [Threads -> BOOLEAN]
    BY <1>20 DEF Count, Goto, Releases, AfterRelease
  <2> QED
    BY <2>1, <2>2, <2>3, <1>r
<1>21. CASE Try(t)
  <2>1. pc'[t] # "dec"
    BY <1>21 DEF Try, Goto, CanBeRemoved
  <2>2. saw' = saw /\ (raced => raced') /\ \A u \in Threads : u # t => \A s \in Slots : slot'[<<u, s>>] = slot[<<u, s>>]
    BY <1>21 DEF Try, Goto, CanBeRemoved
  <2>3. saw' \in [Threads -> BOOLEAN]
    BY <1>21 DEF Try, Goto, CanBeRemoved
  <2> QED
    BY <2>1, <2>2, <2>3, <1>r
<1>22. CASE On(t)
  <2>1. pc'[t] # "dec"
    BY <1>22 DEF On, Goto, Take, Drop, DropNested, DropReentrant
  <2>2. saw' = saw /\ (raced => raced') /\ \A u \in Threads : u # t => \A s \in Slots : slot'[<<u, s>>] = slot[<<u, s>>]
    BY <1>22 DEF On, Goto, Take, Drop, DropNested, DropReentrant
  <2>3. saw' \in [Threads -> BOOLEAN]
    BY <1>22 DEF On, Goto, Take, Drop, DropNested, DropReentrant
  <2> QED
    BY <2>1, <2>2, <2>3, <1>r
<1>23. CASE Link(t)
  <2>1. pc'[t] # "dec"
    BY <1>23 DEF Link, Goto, Take, Drop, DropNested, DropReentrant, LinkAndCollect
  <2>2. saw' = saw /\ (raced => raced') /\ \A u \in Threads : u # t => \A s \in Slots : slot'[<<u, s>>] = slot[<<u, s>>]
    BY <1>23 DEF Link, Goto, Take, Drop, DropNested, DropReentrant, LinkAndCollect
  <2>3. saw' \in [Threads -> BOOLEAN]
    BY <1>23 DEF Link, Goto, Take, Drop, DropNested, DropReentrant, LinkAndCollect
  <2> QED
    BY <2>1, <2>2, <2>3, <1>r
<1>24. CASE Unlink(t)
  <2>1. pc'[t] # "dec"
    BY <1>24 DEF Unlink, Goto, Take, Drop, DropNested, DropReentrant, LinkAndCollect
  <2>2. saw' = saw /\ (raced => raced') /\ \A u \in Threads : u # t => \A s \in Slots : slot'[<<u, s>>] = slot[<<u, s>>]
    BY <1>24 DEF Unlink, Goto, Take, Drop, DropNested, DropReentrant, LinkAndCollect
  <2>3. saw' \in [Threads -> BOOLEAN]
    BY <1>24 DEF Unlink, Goto, Take, Drop, DropNested, DropReentrant, LinkAndCollect
  <2> QED
    BY <2>1, <2>2, <2>3, <1>r
<1>25. CASE Free(t)
  <2>1. pc'[t] # "dec"
    BY <1>25 DEF Free, Goto
  <2>2. saw' = saw /\ (raced => raced') /\ \A u \in Threads : u # t => \A s \in Slots : slot'[<<u, s>>] = slot[<<u, s>>]
    BY <1>25 DEF Free, Goto
  <2>3. saw' \in [Threads -> BOOLEAN]
    BY <1>25 DEF Free, Goto
  <2> QED
    BY <2>1, <2>2, <2>3, <1>r
<1>26. CASE DelCas(t)
  <2>1. pc'[t] # "dec"
    BY <1>26 DEF DelCas, Goto, CanBeRemoved
  <2>2. saw' = saw /\ (raced => raced') /\ \A u \in Threads : u # t => \A s \in Slots : slot'[<<u, s>>] = slot[<<u, s>>]
    BY <1>26 DEF DelCas, Goto, CanBeRemoved
  <2>3. saw' \in [Threads -> BOOLEAN]
    BY <1>26 DEF DelCas, Goto, CanBeRemoved
  <2> QED
    BY <2>1, <2>2, <2>3, <1>r
<1>27. CASE DelMark(t)
  <2>1. pc'[t] # "dec"
    BY <1>27 DEF DelMark, Goto
  <2>2. saw' = saw /\ (raced => raced') /\ \A u \in Threads : u # t => \A s \in Slots : slot'[<<u, s>>] = slot[<<u, s>>]
    BY <1>27 DEF DelMark, Goto
  <2>3. saw' \in [Threads -> BOOLEAN]
    BY <1>27 DEF DelMark, Goto
  <2> QED
    BY <2>1, <2>2, <2>3, <1>r
<1> HIDE <1>g DEF Types, Refs, tables, counters, locks, locals, ghosts, Control, FlagEffect
<1> QED
  BY <1>a, <1>1, <1>2, <1>3, <1>4, <1>5, <1>6, <1>7, <1>8, <1>9, <1>10, <1>11, <1>12, <1>13, <1>14, <1>15, <1>16, <1>17, <1>18, <1>19, <1>20, <1>21, <1>22, <1>23, <1>24, <1>25, <1>26, <1>27 DEF Begin, Continue

LEMMA AccountedStep ==
  ASSUME Consistent, Accounted, NEW t \in Threads, Begin(t) \/ Continue(t)
  PROVE  Accounted'
<1>1. AccountEffect(t)
  BY AccountStep
<1>2. \A u \in Threads : u # t => op'[u] = op[u] /\ it'[u] = it[u]
  BY OthersSame DEF Consistent, Same
<1>3. ASSUME NEW i \in Made'
      PROVE  i \in Indexed' \cup marked' \cup freed' \/ \E u \in Threads : op'[u] = "del" /\ it'[u] = i
  <2>1. CASE i \in Indexed'
    BY <2>1
  <2>2. CASE i \in Made /\ i \notin Indexed'
    <3>1. CASE i \in Indexed
      BY <1>1, <2>2, <3>1 DEF AccountEffect
    <3>2. CASE i \in marked \cup freed
      BY <1>1, <3>2 DEF AccountEffect
    <3>3. CASE \E u \in Threads : op[u] = "del" /\ it[u] = i
      <4>1. PICK u \in Threads : op[u] = "del" /\ it[u] = i
        BY <3>3
      <4>2. CASE u = t
        BY <1>1, <4>1, <4>2 DEF AccountEffect
      <4>3. CASE u # t
        BY <1>2, <4>1, <4>3
      <4> QED
        BY <4>2, <4>3
    <3> QED
      BY <2>2, <3>1, <3>2, <3>3 DEF Accounted
  <2> QED
    BY <1>1, <2>1, <2>2 DEF AccountEffect
<1> QED
  BY <1>3 DEF Accounted

LEMMA SawFlagStep ==
  ASSUME Consistent, SawFlag, NEW t \in Threads, Begin(t) \/ Continue(t)
  PROVE  SawFlag' /\ (raced => raced')
<1>1. FlagEffect(t) /\ marked \subseteq marked'
  BY FlagStep, AccountStep DEF AccountEffect
<1>2. \A u \in Threads : u # t => pc'[u] = pc[u] /\ Releases(u)' = Releases(u)
  BY OthersSame DEF Consistent, Same, Releases
<1>3. ASSUME NEW u \in Threads, pc'[u] = "dec", saw'[u]
      PROVE  slot'[<<u, Releases(u)'>>] \in marked'
  <2>1. CASE u = t
    BY <1>1, <1>3, <2>1 DEF FlagEffect
  <2>2. CASE u # t
    <3>1. pc[u] = "dec" /\ saw[u] /\ slot'[<<u, Releases(u)'>>] = slot[<<u, Releases(u)>>]
      BY <1>1, <1>2, <1>3, <2>2 DEF FlagEffect
    <3> QED
      BY <1>1, <3>1 DEF SawFlag
  <2> QED
    BY <2>1, <2>2
<1> QED
  BY <1>1, <1>3 DEF SawFlag, FlagEffect

LEMMA FiniteGarbage ==
  ASSUME Types
  PROVE  /\ IsFiniteSet(Zero) /\ Cardinality(Zero) \in Nat
         /\ IsFiniteSet(Late) /\ Cardinality(Late) \in Nat
<1>1. Zero \in SUBSET Items /\ IsFiniteSet(Items)
  <2>1. Made \subseteq Items /\ IsFiniteSet(Items)
    BY Bounds, FS_Interval DEF Types, Made, Items
  <2>2. Zero \subseteq Made
    BY DEF Types, Zero
  <2> QED
    BY <2>1, <2>2
<1>2. Late \in SUBSET Threads /\ IsFiniteSet(Threads)
  BY Bounds DEF Late
<1>3. IsFiniteSet(Zero) /\ IsFiniteSet(Late)
  BY <1>1, <1>2, FS_Subset
<1> QED
  BY <1>3, FS_CardinalityType

LEMMA CollectibleStep ==
  ASSUME Consistent, Collectible, NEW t \in Threads, Begin(t) \/ Continue(t)
  PROVE  Collectible'
<1>1. SawFlag' /\ (raced => raced')
  BY SawFlagStep DEF Collectible
<1> SUFFICES ASSUME ~raced' PROVE pending' = Cardinality(Zero') - Cardinality(Late')
  BY <1>1 DEF Collectible
<1>2. pending = Cardinality(Zero) - Cardinality(Late)
  BY <1>1 DEF Collectible
<1>3. GarbageEffect(t)
  BY GarbageStep DEF Collectible
<1>4. \A u \in Threads : u # t => (u \in Late' <=> u \in Late)
  BY OthersSame, FlagStep DEF Consistent, Same, Late, FlagEffect, Collectible
<1>5. Late \subseteq Threads /\ Late' \subseteq Threads
  BY DEF Late
<1>6. /\ IsFiniteSet(Zero) /\ Cardinality(Zero) \in Nat
      /\ IsFiniteSet(Late) /\ Cardinality(Late) \in Nat
  BY FiniteGarbage DEF Consistent, Placed
<1>7. CASE t \in Late <=> t \in Late'
  <2>1. Late' = Late
    BY <1>4, <1>5, <1>7
  <2>2. CASE Zero' = Zero /\ pending' = pending
    BY <1>2, <2>1, <2>2
  <2>3. ASSUME NEW i \in Zero, Zero' = Zero \ {i}, pending' = pending - 1
        PROVE  pending' = Cardinality(Zero') - Cardinality(Late')
    <3>1. Cardinality(Zero') = Cardinality(Zero) - 1
      BY <1>6, <2>3, Shrinks
    <3> QED
      BY <1>2, <1>6, <2>1, <2>3, <3>1
  <2> QED
    BY <1>3, <1>7, <2>2, <2>3 DEF GarbageEffect
<1>8. CASE t \notin Late /\ t \in Late'
  <2>1. Late' = Late \cup {t}
    BY <1>4, <1>5, <1>8
  <2>2. PICK i : i \notin Zero /\ Zero' = Zero \cup {i} /\ pending' = pending
    BY <1>3, <1>8 DEF GarbageEffect
  <2>3. Cardinality(Late') = Cardinality(Late) + 1
    BY <1>6, <1>8, <2>1, Grows
  <2>4. Cardinality(Zero') = Cardinality(Zero) + 1
    BY <1>6, <2>2, Grows
  <2> QED
    BY <1>2, <1>6, <2>2, <2>3, <2>4
<1>9. CASE t \in Late /\ t \notin Late'
  <2>1. Late' = Late \ {t}
    BY <1>4, <1>5, <1>9
  <2>2. Cardinality(Late') = Cardinality(Late) - 1
    BY <1>6, <1>9, <2>1, Shrinks
  <2>3. Zero' = Zero /\ pending' = pending + 1
    BY <1>3, <1>9 DEF GarbageEffect
  <2> QED
    BY <1>2, <1>6, <2>2, <2>3
<1> QED
  BY <1>7, <1>8, <1>9

\* item_del, item_release and garbage_collect_pending_deletes: with no call under way nothing is
\* left behind, and what is to be collected is counted unless a deletion raced a use of its item.
THEOREM GarbageIsKnown == Spec => []GarbageIsCounted
<1> DEFINE Kept == Consistent /\ Accounted /\ Collectible
<1>1. Init => Kept
  <2> SUFFICES ASSUME Init PROVE Kept
    OBVIOUS
  <2>1. Consistent
    BY ConsistentInit
  <2>2. Made = {} /\ Zero = {} /\ Late = {} /\ pending = 0
    BY DEF Init, Made, Zero, Late
  <2>3. SawFlag
    BY DEF Init, SawFlag
  <2>4. Cardinality({}) = 0
    BY FS_EmptySet
  <2> QED
    BY <2>1, <2>2, <2>3, <2>4 DEF Accounted, Collectible
<1>2. Kept /\ [Next]_vars => Kept'
  <2> SUFFICES ASSUME Kept, [Next]_vars PROVE Kept'
    OBVIOUS
  <2>1. Consistent'
    BY ConsistentStep
  <2>2. ASSUME NEW t \in Threads, Begin(t) \/ Continue(t) PROVE Accounted' /\ Collectible'
    BY <2>2, AccountedStep, CollectibleStep
  <2>3. CASE UNCHANGED vars
    <3>1. UNCHANGED <<index, refcount, marked, freed, allocated, pending, pc, op, it, gc, saw, slot, raced>>
      BY <2>3 DEF vars, tables, counters, locals, ghosts
    <3>2. Made' = Made /\ Indexed' = Indexed /\ Zero' = Zero /\ Late' = Late
      BY <3>1 DEF Made, Indexed, Zero, Late
    <3>3. \A t \in Threads : Releases(t)' = Releases(t)
      BY <3>1 DEF Releases
    <3>4. SawFlag'
      BY <3>1, <3>3 DEF Collectible, SawFlag
    <3>5. Accounted'
      BY <3>1, <3>2 DEF Accounted
    <3> QED
      BY <2>1, <3>1, <3>2, <3>4, <3>5 DEF Collectible
  <2> QED
    BY <2>1, <2>2, <2>3 DEF Next
<1>3. Kept => GarbageIsCounted
  <2> SUFFICES ASSUME Kept, \A t \in Threads : Idle(t) PROVE GarbageIsCounted
    BY DEF GarbageIsCounted
  <2>1. Types /\ Stored /\ \A t \in Threads : Control(t)
    BY DEF Consistent, Placed, Flow
  <2>2. \A t \in Threads : pc[t] = "idle" /\ op[t] = "none" /\ ~gc[t]
    BY <2>1 DEF Idle, Control
  <2>3. OffItems = {} /\ Late = {}
    BY <2>2 DEF OffItems, Off, Late
  <2>4. Listed = Made \ freed
    BY <2>1, <2>3 DEF Stored
  <2>5. \A i \in Made : i \in Indexed \cup marked \cup freed
    BY <2>2 DEF Accounted
  <2>6. Indexed \cap freed = {} /\ Indexed \subseteq Made /\ marked \subseteq Made
    <3>1. Indexed \cap freed = {}
      BY <2>1 DEF Stored
    <3>2. Indexed \subseteq Made
      BY <2>1 DEF Types, Indexed, Known
    <3> QED
      BY <2>1, <3>1, <3>2 DEF Types
  <2>7. Listed = Indexed \cup (marked \ freed)
    BY <2>4, <2>5, <2>6
  <2>8. Zero = {i \in marked \ freed : refcount[i] = 0}
    BY <2>1 DEF Zero, Stored, Deleting
  <2>9. Cardinality(Late) = 0 /\ Cardinality(Zero) \in Nat
    BY <2>1, <2>3, FiniteGarbage, FS_EmptySet
  <2> QED
    BY <2>7, <2>8, <2>9 DEF GarbageIsCounted, Collectible
<1> QED
  BY <1>1, <1>2, <1>3, PTL DEF Spec

-----------------------------------------------------------------------------
(* What a foreach hands out.                                               *)

\* Item a is before item b in the list.
Before(a, b) == \E j, k \in DOMAIN list : j < k /\ list[j] = a /\ list[k] = b

\* What a foreach still has to hand out is in the dictionary ...
Owed ==
  /\ owed \in [Threads -> SUBSET Items]
  /\ \A t \in Threads : owed[t] \subseteq Indexed \cap Listed

\* ... and comes after the item at which it is.
Ahead(t) ==
  /\ Seeks(t) /\ pc[t] = "advance" /\ at[t] # None => \A i \in owed[t] : Before(at[t], i)
  /\ Seeks(t) /\ pc[t] # "advance" => \A i \in owed[t] : i = at[t] \/ Before(at[t], i)
  /\ op[t] = "next" /\ ~Seeks(t) =>
       \A i \in owed[t] : slot[<<t, "next">>] # None
                          /\ (i = slot[<<t, "next">>] \/ Before(slot[<<t, "next">>], i))
  /\ walk[t] # "no" /\ op[t] \notin {"start", "next", "done"} =>
       \A i \in owed[t] : slot[<<t, "cur">>] # None /\ Before(slot[<<t, "cur">>], i)

LEMMA OrderAppended ==
  ASSUME list \in Seq(Made), NEW i \in Made, list' = Append(list, i), NEW a, NEW b, Before(a, b)
  PROVE  Before(a, b)'
<1>1. DOMAIN list = 1 .. Len(list) /\ Len(list) \in Nat
  BY Domain
<1>2. DOMAIN list' = 1 .. (Len(list) + 1) /\ \A k \in 1 .. Len(list) : list'[k] = list[k]
  BY <1>1
<1>3. PICK j \in DOMAIN list, k \in DOMAIN list : j < k /\ list[j] = a /\ list[k] = b
  BY DEF Before
<1>4. j \in DOMAIN list' /\ k \in DOMAIN list' /\ list'[j] = a /\ list'[k] = b
  BY <1>1, <1>2, <1>3
<1> QED
  BY <1>3, <1>4 DEF Before

LEMMA OrderUnlinked ==
  ASSUME list \in Seq(Made), \A j, k \in DOMAIN list : list[j] = list[k] => j = k,
         NEW i \in Listed, list' = Unlinked(i), NEW a, NEW b, Before(a, b), a # i, b # i
  PROVE  Before(a, b)'
<1>1. PICK p \in DOMAIN list : list[p] = i
  BY DEF Listed
<1>2. DOMAIN list = 1 .. Len(list) /\ Len(list) \in Nat /\ p \in 1 .. Len(list)
  BY Domain
<1>3. /\ DOMAIN list' = 1 .. (Len(list) - 1)
      /\ \A k \in 1 .. (Len(list) - 1) : list'[k] = IF k < p THEN list[k] ELSE list[k + 1]
  BY <1>1, Shorter
<1> DEFINE Moved(k) == IF k < p THEN k ELSE k - 1
<1>4. ASSUME NEW k \in 1 .. Len(list), k # p
      PROVE  Moved(k) \in DOMAIN list' /\ list'[Moved(k)] = list[k]
  <2>1. CASE k < p
    <3>1. k \in 1 .. (Len(list) - 1) /\ Moved(k) = k
      BY <1>2, <2>1
    <3> QED
      BY <1>3, <2>1, <3>1
  <2>2. CASE k > p
    <3>1. k - 1 \in 1 .. (Len(list) - 1) /\ ~(k - 1 < p) /\ (k - 1) + 1 = k /\ Moved(k) = k - 1
      BY <1>2, <2>2
    <3>2. list'[k - 1] = list[(k - 1) + 1]
      BY <1>3, <3>1
    <3> QED
      BY <1>3, <3>1, <3>2
  <2> QED
    BY <1>2, <1>4, <2>1, <2>2
<1>5. PICK j \in 1 .. Len(list), k \in 1 .. Len(list) : j < k /\ list[j] = a /\ list[k] = b
  BY <1>2 DEF Before
<1>6. j # p /\ k # p
  BY <1>1, <1>5
<1>7. Moved(j) < Moved(k)
  BY <1>2, <1>5, <1>6
<1>8. Moved(j) \in DOMAIN list' /\ Moved(k) \in DOMAIN list' /\ list'[Moved(j)] = a /\ list'[Moved(k)] = b
  BY <1>4, <1>5, <1>6
<1> HIDE DEF Moved
<1> QED
  BY <1>7, <1>8 DEF Before

\* Going on from an item reaches all that is after it, one by one.
LEMMA OrderNext ==
  ASSUME list \in Seq(Made), \A j, k \in DOMAIN list : list[j] = list[k] => j = k,
         NEW a, a # None, NEW b, Before(a, b)
  PROVE  Successor(a) # None /\ (b = Successor(a) \/ Before(Successor(a), b))
<1>1. DOMAIN list = 1 .. Len(list) /\ Len(list) \in Nat /\ list \in [1 .. Len(list) -> Made]
  BY Domain
<1>2. PICK j \in 1 .. Len(list), k \in 1 .. Len(list) : j < k /\ list[j] = a /\ list[k] = b
  BY <1>1 DEF Before
<1>3. j + 1 \in DOMAIN list /\ j + 1 > 1 /\ list[(j + 1) - 1] = a
  BY <1>1, <1>2
<1>4. Follows(j + 1, a)
  BY <1>3 DEF Follows
<1>5. PICK m \in DOMAIN list : Follows(m, a) /\ Successor(a) = list[m]
  BY <1>3, <1>4 DEF Successor
<1>6. m > 1 /\ list[m - 1] = a /\ m \in 1 .. Len(list)
  BY <1>1, <1>5 DEF Follows
<1>7. m - 1 \in DOMAIN list /\ j \in DOMAIN list
  BY <1>1, <1>6
<1>8. m - 1 = j
  BY <1>2, <1>6, <1>7
<1>9. k = m \/ m < k
  BY <1>1, <1>2, <1>6, <1>8
<1>10. list[m] # None
  BY <1>1, <1>6 DEF Made, None
<1> QED
  BY <1>1, <1>2, <1>5, <1>6, <1>9, <1>10 DEF Before

LEMMA OrderFirst ==
  ASSUME list \in Seq(Made), NEW b \in Listed
  PROVE  Successor(None) # None /\ (b = Successor(None) \/ Before(Successor(None), b))
<1>1. DOMAIN list = 1 .. Len(list) /\ Len(list) \in Nat /\ list \in [1 .. Len(list) -> Made]
  BY Domain
<1>2. PICK k \in 1 .. Len(list) : list[k] = b
  BY <1>1 DEF Listed
<1>3. 1 \in DOMAIN list /\ Follows(1, None) /\ \A m \in DOMAIN list : Follows(m, None) => m = 1
  BY <1>1, <1>2 DEF Follows
<1>4. Successor(None) = list[1]
  BY <1>3 DEF Successor
<1>5. list[1] # None
  BY <1>1, <1>3 DEF Made, None
<1>6. k = 1 \/ 1 < k
  BY <1>1, <1>2
<1> QED
  BY <1>1, <1>2, <1>3, <1>4, <1>5, <1>6 DEF Before

OrderEffect == \A a, b : Before(a, b) /\ a \in Listed' /\ b \in Listed' => Before(a, b)'

LEMMA OrderStep ==
  ASSUME Consistent, NEW t \in Threads, Begin(t) \/ Continue(t)
  PROVE  OrderEffect
<1>a. Begin(t) \/ Continue(t)
  OBVIOUS
<1>g. Types /\ Stored /\ Uses(t) /\ Control(t) /\ Points(t)
  BY DEF Consistent, Placed, Flow
<1> USE <1>g DEF Types, Stored, tables, counters, locks, locals, ghosts, OrderEffect
<1>1. ASSUME NEW n \in Names, SetNew(t, n) PROVE OrderEffect
  <2>1. list' = list
    BY <1>1 DEF SetNew, Call, MayAlter, Idle
  <2> QED
    BY <2>1 DEF Before
<1>2. ASSUME NEW n \in Names, SetFound(t, n) PROVE OrderEffect
  <2>1. list' = list
    BY <1>2 DEF SetFound, Call, MayAlter, Idle, Take, Drop, DropNested, DropReentrant
  <2> QED
    BY <2>1 DEF Before
<1>3. ASSUME NEW n \in Names, Get(t, n) PROVE OrderEffect
  <2>1. list' = list
    BY <1>3 DEF Get, Call, Idle, Take, Drop, DropNested, DropReentrant
  <2> QED
    BY <2>1 DEF Before
<1>4. ASSUME NEW n \in Names, Del(t, n) PROVE OrderEffect
  <2>1. list' = list
    BY <1>4 DEF Del, Call, MayAlter, Idle
  <2> QED
    BY <2>1 DEF Before
<1>5. ASSUME NEW v \in Threads, NEW s \in {"held", "cur"}, Dup(t, s, v) PROVE OrderEffect
  <2>1. list' = list
    BY <1>5 DEF Dup, Idle
  <2> QED
    BY <2>1 DEF Before
<1>6. CASE Entries(t)
  <2>1. list' = list
    BY <1>6 DEF Entries, Call, MayAlter, Idle
  <2> QED
    BY <2>1 DEF Before
<1>7. CASE Release(t)
  <2>1. list' = list
    BY <1>7 DEF Release, Idle
  <2> QED
    BY <2>1 DEF Before
<1>8. ASSUME NEW mode \in {"r", "w", "z"}, WalkStart(t, mode) PROVE OrderEffect
  <2>1. list' = list
    BY <1>8 DEF WalkStart, Call, Idle, Take, Drop, DropNested, DropReentrant
  <2> QED
    BY <2>1 DEF Before
<1>9. CASE WalkNext(t)
  <2>1. list' = list
    BY <1>9 DEF WalkNext, Idle, Take, Drop, DropNested, DropReentrant
  <2> QED
    BY <2>1 DEF Before
<1>10. CASE WalkDone(t)
  <2>1. list' = list
    BY <1>10 DEF WalkDone, Idle, ReleaseCurrent
  <2> QED
    BY <2>1 DEF Before
<1>11. CASE Load(t)
  <2>1. list' = list
    BY <1>11 DEF Load, Goto, Take, Drop, DropNested, DropReentrant, AfterRefusal
  <2> QED
    BY <2>1 DEF Before
<1>12. CASE CasFails(t)
  <2>1. list' = list
    BY <1>12 DEF CasFails, Goto, Swaps
  <2> QED
    BY <2>1 DEF Before
<1>13. CASE Cas(t)
  <2>1. list' = list
    BY <1>13 DEF Cas, Goto, Take, Drop, DropNested, DropReentrant, Acquires, ReleaseCurrent, Swaps
  <2> QED
    BY <2>1 DEF Before
<1>14. CASE Advance(t)
  <2>1. list' = list
    BY <1>14 DEF Advance, Goto, Take, Drop, DropNested, DropReentrant, Collect, AfterGc, ReleaseCurrent
  <2> QED
    BY <2>1 DEF Before
<1>15. CASE GcTry(t)
  <2>1. at[t] \in Listed
    BY <1>15 DEF GcTry, Uses, Points, Control, LooksUp
  <2>2. CASE CanBeRemoved(at[t])
    <3>1. PICK i \in Listed : i = at[t] /\ list' = Unlinked(i)
      BY <1>15, <2>1, <2>2 DEF GcTry
    <3>2. Listed' = Listed \ {i}
      BY <3>1, Removal
    <3> QED
      BY <3>1, <3>2, OrderUnlinked
  <2>3. CASE ~CanBeRemoved(at[t])
    <3>1. list' = list
      BY <1>15, <2>3 DEF GcTry
    <3> QED
      BY <3>1 DEF Before
  <2> QED
    BY <2>2, <2>3
<1>16. CASE GcLock(t)
  <2>1. list' = list
    BY <1>16 DEF GcLock, Goto, Take, Drop, DropNested, DropReentrant
  <2> QED
    BY <2>1 DEF Before
<1>17. CASE Peek(t)
  <2>1. list' = list
    BY <1>17 DEF Peek, Goto
  <2> QED
    BY <2>1 DEF Before
<1>18. CASE ReadFlag(t)
  <2>1. list' = list
    BY <1>18 DEF ReadFlag, Goto, Releases
  <2> QED
    BY <2>1 DEF Before
<1>19. CASE Decrement(t)
  <2>1. list' = list
    BY <1>19 DEF Decrement, Goto, Releases, AfterRelease
  <2> QED
    BY <2>1 DEF Before
<1>20. CASE Count(t)
  <2>1. list' = list
    BY <1>20 DEF Count, Goto, Releases, AfterRelease
  <2> QED
    BY <2>1 DEF Before
<1>21. CASE Try(t)
  <2>1. list' = list
    BY <1>21 DEF Try, Goto, CanBeRemoved
  <2> QED
    BY <2>1 DEF Before
<1>22. CASE On(t)
  <2>1. list' = list
    BY <1>22 DEF On, Goto, Take, Drop, DropNested, DropReentrant
  <2> QED
    BY <2>1 DEF Before
<1>23. CASE Link(t)
  <2>1. PICK i \in Made : i = it[t] /\ list' = Append(list, i)
    BY <1>23, Linked DEF Link, LinkAndCollect
  <2> QED
    BY <2>1, OrderAppended
<1>24. CASE Unlink(t)
  <2>1. pc[t] = "unlink" /\ Removes(t) /\ ~Off(t) /\ it[t] \in Made /\ it[t] \notin freed
    BY <1>24 DEF Unlink, Removes, Off, Control, Points, Uses, Known
  <2>2. it[t] \notin OffItems
    BY <2>1, OneOff DEF OffItems
  <2>3. it[t] \in Listed
    BY <2>1, <2>2
  <2>4. PICK i \in Listed : i = it[t] /\ list' = Unlinked(i)
    BY <1>24, <2>3 DEF Unlink, LinkAndCollect
  <2>5. Listed' = Listed \ {i}
    BY <2>4, Removal
  <2> QED
    BY <2>4, <2>5, OrderUnlinked
<1>25. CASE Free(t)
  <2>1. list' = list
    BY <1>25 DEF Free, Goto
  <2> QED
    BY <2>1 DEF Before
<1>26. CASE DelCas(t)
  <2>1. list' = list
    BY <1>26 DEF DelCas, Goto, CanBeRemoved
  <2> QED
    BY <2>1 DEF Before
<1>27. CASE DelMark(t)
  <2>1. list' = list
    BY <1>27 DEF DelMark, Goto
  <2> QED
    BY <2>1 DEF Before
<1> HIDE <1>g DEF Types, Stored, tables, counters, locks, locals, ghosts, OrderEffect
<1> QED
  BY <1>a, <1>1, <1>2, <1>3, <1>4, <1>5, <1>6, <1>7, <1>8, <1>9, <1>10, <1>11, <1>12, <1>13, <1>14, <1>15, <1>16, <1>17, <1>18, <1>19, <1>20, <1>21, <1>22, <1>23, <1>24, <1>25, <1>26, <1>27 DEF Begin, Continue

\* What a step adds to what is owed, and what it takes away.
OwedEffect(t) ==
  /\ owed' \in [Threads -> SUBSET Items]
  /\ owed'[t] \subseteq owed[t] \/ owed'[t] = Indexed \cap Listed
  /\ \A u \in Threads : u # t => owed'[u] \subseteq owed[u]
  /\ \A u \in Threads : \A i \in Indexed : i \in Indexed' \/ i \notin owed'[u]

LEMMA OwedEffects ==
  ASSUME Consistent, Owed, NEW t \in Threads, Begin(t) \/ Continue(t)
  PROVE  OwedEffect(t)
<1>a. Begin(t) \/ Continue(t)
  OBVIOUS
<1>g. Types /\ owed \in [Threads -> SUBSET Items]
  BY DEF Consistent, Placed, Owed
<1>i. Indexed \cap Listed \in SUBSET Items
  <2>1. Indexed \subseteq Made /\ Made \subseteq Items
    BY <1>g, Bounds DEF Types, Indexed, Known, Made, Items
  <2> QED
    BY <2>1
<1> USE <1>g DEF Types, tables, counters, locks, locals, ghosts, OwedEffect
<1>1. ASSUME NEW n \in Names, SetNew(t, n) PROVE OwedEffect(t)
  <2>1. index' = [index EXCEPT ![n] = allocated'] /\ index[n] = None /\ owed' = owed
    BY <1>1 DEF SetNew
  <2>2. Indexed \subseteq Indexed'
    BY <2>1 DEF Indexed
  <2> QED
    BY <2>1, <2>2
<1>2. ASSUME NEW n \in Names, SetFound(t, n) PROVE OwedEffect(t)
  <2>1. index' = index /\ owed' = owed
    BY <1>2 DEF SetFound, Call, MayAlter, Idle, Take, Drop, DropNested, DropReentrant
  <2>2. Indexed' = Indexed
    BY <2>1 DEF Indexed
  <2> QED
    BY <2>1, <2>2
<1>3. ASSUME NEW n \in Names, Get(t, n) PROVE OwedEffect(t)
  <2>1. index' = index /\ owed' = owed
    BY <1>3 DEF Get, Call, Idle, Take, Drop, DropNested, DropReentrant
  <2>2. Indexed' = Indexed
    BY <2>1 DEF Indexed
  <2> QED
    BY <2>1, <2>2
<1>4. ASSUME NEW n \in Names, Del(t, n) PROVE OwedEffect(t)
  <2>1. index' = [index EXCEPT ![n] = None] /\ owed' = [u \in Threads |-> owed[u] \ {index[n]}]
    BY <1>4 DEF Del
  <2>2. \A i \in Indexed : i \in Indexed' \/ i = index[n]
    BY <2>1 DEF Indexed
  <2> QED
    BY <2>1, <2>2
<1>5. ASSUME NEW v \in Threads, NEW s \in {"held", "cur"}, Dup(t, s, v) PROVE OwedEffect(t)
  <2>1. index' = index /\ owed' = owed
    BY <1>5 DEF Dup, Idle
  <2>2. Indexed' = Indexed
    BY <2>1 DEF Indexed
  <2> QED
    BY <2>1, <2>2
<1>6. CASE Entries(t)
  <2>1. index' = index /\ owed' = owed
    BY <1>6 DEF Entries, Call, MayAlter, Idle
  <2>2. Indexed' = Indexed
    BY <2>1 DEF Indexed
  <2> QED
    BY <2>1, <2>2
<1>7. CASE Release(t)
  <2>1. index' = index /\ owed' = owed
    BY <1>7 DEF Release, Idle
  <2>2. Indexed' = Indexed
    BY <2>1 DEF Indexed
  <2> QED
    BY <2>1, <2>2
<1>8. ASSUME NEW mode \in {"r", "w", "z"}, WalkStart(t, mode) PROVE OwedEffect(t)
  <2>1. index' = index /\ owed' = [owed EXCEPT ![t] = Indexed \cap Listed]
    BY <1>8 DEF WalkStart
  <2>2. Indexed' = Indexed
    BY <2>1 DEF Indexed
  <2> QED
    BY <2>1, <2>2, <1>i
<1>9. CASE WalkNext(t)
  <2>1. index' = index /\ owed' = owed
    BY <1>9 DEF WalkNext, Idle, Take, Drop, DropNested, DropReentrant
  <2>2. Indexed' = Indexed
    BY <2>1 DEF Indexed
  <2> QED
    BY <2>1, <2>2
<1>10. CASE WalkDone(t)
  <2>1. index' = index /\ owed' = owed
    BY <1>10 DEF WalkDone, Idle, ReleaseCurrent
  <2>2. Indexed' = Indexed
    BY <2>1 DEF Indexed
  <2> QED
    BY <2>1, <2>2
<1>11. CASE Load(t)
  <2>1. index' = index /\ owed' = owed
    BY <1>11 DEF Load, Goto, Take, Drop, DropNested, DropReentrant, AfterRefusal
  <2>2. Indexed' = Indexed
    BY <2>1 DEF Indexed
  <2> QED
    BY <2>1, <2>2
<1>12. CASE CasFails(t)
  <2>1. index' = index /\ owed' = owed
    BY <1>12 DEF CasFails, Goto, Swaps
  <2>2. Indexed' = Indexed
    BY <2>1 DEF Indexed
  <2> QED
    BY <2>1, <2>2
<1>13. CASE Cas(t)
  <2>1. index' = index /\ (owed' = owed \/ owed' = [owed EXCEPT ![t] = owed[t] \ {at[t]}])
    BY <1>13 DEF Cas
  <2>2. Indexed' = Indexed
    BY <2>1 DEF Indexed
  <2>3. PICK S \in SUBSET Items : S \subseteq owed[t] /\ (owed' = owed \/ owed' = [owed EXCEPT ![t] = S])
    BY <2>1
  <2>4. owed' \in [Threads -> SUBSET Items] /\ \A u \in Threads : owed'[u] \subseteq owed[u]
    BY <2>3
  <2> QED
    BY <2>2, <2>4
<1>14. CASE Advance(t)
  <2>1. index' = index /\ owed' = owed
    BY <1>14 DEF Advance, Goto, Take, Drop, DropNested, DropReentrant, Collect, AfterGc, ReleaseCurrent
  <2>2. Indexed' = Indexed
    BY <2>1 DEF Indexed
  <2> QED
    BY <2>1, <2>2
<1>15. CASE GcTry(t)
  <2>1. index' = index /\ owed' = owed
    BY <1>15 DEF GcTry, Goto, Take, Drop, DropNested, DropReentrant, Collect, AfterGc, ReleaseCurrent, CanBeRemoved
  <2>2. Indexed' = Indexed
    BY <2>1 DEF Indexed
  <2> QED
    BY <2>1, <2>2
<1>16. CASE GcLock(t)
  <2>1. index' = index /\ owed' = owed
    BY <1>16 DEF GcLock, Goto, Take, Drop, DropNested, DropReentrant
  <2>2. Indexed' = Indexed
    BY <2>1 DEF Indexed
  <2> QED
    BY <2>1, <2>2
<1>17. CASE Peek(t)
  <2>1. index' = index /\ owed' = owed
    BY <1>17 DEF Peek, Goto
  <2>2. Indexed' = Indexed
    BY <2>1 DEF Indexed
  <2> QED
    BY <2>1, <2>2
<1>18. CASE ReadFlag(t)
  <2>1. index' = index /\ owed' = owed
    BY <1>18 DEF ReadFlag, Goto, Releases
  <2>2. Indexed' = Indexed
    BY <2>1 DEF Indexed
  <2> QED
    BY <2>1, <2>2
<1>19. CASE Decrement(t)
  <2>1. index' = index /\ owed' = owed
    BY <1>19 DEF Decrement, Goto, Releases, AfterRelease
  <2>2. Indexed' = Indexed
    BY <2>1 DEF Indexed
  <2> QED
    BY <2>1, <2>2
<1>20. CASE Count(t)
  <2>1. index' = index /\ owed' = owed
    BY <1>20 DEF Count, Goto, Releases, AfterRelease
  <2>2. Indexed' = Indexed
    BY <2>1 DEF Indexed
  <2> QED
    BY <2>1, <2>2
<1>21. CASE Try(t)
  <2>1. index' = index /\ owed' = owed
    BY <1>21 DEF Try, Goto, CanBeRemoved
  <2>2. Indexed' = Indexed
    BY <2>1 DEF Indexed
  <2> QED
    BY <2>1, <2>2
<1>22. CASE On(t)
  <2>1. index' = index /\ \/ owed' = [owed EXCEPT ![t] = @ \ {slot[<<t, "next">>]}]
                           \/ owed' = [owed EXCEPT ![t] = {}]
    BY <1>22 DEF On
  <2>2. Indexed' = Indexed
    BY <2>1 DEF Indexed
  <2>3. PICK S \in SUBSET Items : S \subseteq owed[t] /\ owed' = [owed EXCEPT ![t] = S]
    BY <2>1
  <2>4. owed' \in [Threads -> SUBSET Items] /\ \A u \in Threads : owed'[u] \subseteq owed[u]
    BY <2>3
  <2> QED
    BY <2>2, <2>4
<1>23. CASE Link(t)
  <2>1. index' = index /\ owed' = owed
    BY <1>23 DEF Link, Goto, Take, Drop, DropNested, DropReentrant, LinkAndCollect
  <2>2. Indexed' = Indexed
    BY <2>1 DEF Indexed
  <2> QED
    BY <2>1, <2>2
<1>24. CASE Unlink(t)
  <2>1. index' = index /\ owed' = owed
    BY <1>24 DEF Unlink, Goto, Take, Drop, DropNested, DropReentrant, LinkAndCollect
  <2>2. Indexed' = Indexed
    BY <2>1 DEF Indexed
  <2> QED
    BY <2>1, <2>2
<1>25. CASE Free(t)
  <2>1. index' = index /\ owed' = owed
    BY <1>25 DEF Free, Goto
  <2>2. Indexed' = Indexed
    BY <2>1 DEF Indexed
  <2> QED
    BY <2>1, <2>2
<1>26. CASE DelCas(t)
  <2>1. index' = index /\ owed' = owed
    BY <1>26 DEF DelCas, Goto, CanBeRemoved
  <2>2. Indexed' = Indexed
    BY <2>1 DEF Indexed
  <2> QED
    BY <2>1, <2>2
<1>27. CASE DelMark(t)
  <2>1. index' = index /\ owed' = owed
    BY <1>27 DEF DelMark, Goto
  <2>2. Indexed' = Indexed
    BY <2>1 DEF Indexed
  <2> QED
    BY <2>1, <2>2
<1> HIDE <1>g DEF Types, tables, counters, locks, locals, ghosts, OwedEffect
<1> QED
  BY <1>a, <1>1, <1>2, <1>3, <1>4, <1>5, <1>6, <1>7, <1>8, <1>9, <1>10, <1>11, <1>12, <1>13, <1>14, <1>15, <1>16, <1>17, <1>18, <1>19, <1>20, <1>21, <1>22, <1>23, <1>24, <1>25, <1>26, <1>27 DEF Begin, Continue

LEMMA OwedStep ==
  ASSUME Consistent, Consistent', Owed, NEW t \in Threads, Begin(t) \/ Continue(t)
  PROVE  Owed'
<1>1. OwedEffect(t) /\ NewTarget(t)
  BY OwedEffects, TargetStep
<1>2. Types /\ Stored /\ Types' /\ Stored' /\ (\A u \in Threads : Uses(u)') /\ Listed \subseteq Made
  BY DEF Consistent, Placed, Stored
<1>3. ASSUME NEW u \in Threads, NEW i \in owed'[u] PROVE i \in Indexed' /\ i \in Listed'
  <2>1. i \in Indexed /\ i \in Listed /\ i \in Indexed'
    BY <1>1, <1>3 DEF OwedEffect, Owed
  <2>2. i \in Made' /\ i \notin freed'
    <3>1. i \in Made'
      BY <1>2, <2>1 DEF Types, Indexed, Known
    <3>2. i \notin freed'
      BY <1>2, <2>1 DEF Stored
    <3> QED
      BY <3>1, <3>2
  <2>3. i \notin OffItems'
    <3> SUFFICES ASSUME NEW v \in Threads, Off(v)', it'[v] = i PROVE FALSE
      BY DEF OffItems
    <3>1. pc'[v] = "link"
      BY <1>2, <2>1 DEF Uses, Off, Removes
    <3>2. CASE v = t
      BY <1>1, <1>2, <2>1, <3>1, <3>2 DEF NewTarget, Known
    <3>3. CASE v # t
      <4>1. pc[v] = "link" /\ it[v] = i
        BY <3>1, <3>3, OthersSame DEF Same, Consistent
      <4>2. i \in OffItems
        BY <4>1 DEF OffItems, Off
      <4> QED
        BY <1>2, <2>1, <4>2 DEF Stored
    <3> QED
      BY <3>2, <3>3
  <2> QED
    BY <1>2, <2>1, <2>2, <2>3 DEF Stored
<1> QED
  BY <1>1, <1>3 DEF Owed, OwedEffect

\* Of every other thread.
LEMMA OthersAhead ==
  ASSUME Consistent, Consistent', Owed, Owed', NEW t \in Threads, Begin(t) \/ Continue(t),
         NEW u \in Threads, u # t, Ahead(u)
  PROVE  Ahead(u)'
<1>1. /\ Same(u) /\ owed'[u] \subseteq owed[u] /\ OrderEffect /\ Uses(u)' /\ owed'[u] \subseteq Listed'
  BY OthersSame, OwedEffects, OrderStep DEF Consistent, OwedEffect, Owed
<1>2. Seeks(u)' <=> Seeks(u)
  BY <1>1 DEF Same, Seeks
<1>3. Seeks(u) /\ at[u] # None => at[u] \in Listed'
  BY <1>1 DEF Same, Seeks, Uses, LooksUp
<1>4. \A s \in {"cur", "next"} : slot[<<u, s>>] # None => slot[<<u, s>>] \in Listed'
  BY <1>1 DEF Same, Uses
<1>5. Seeks(u) /\ pc[u] # "advance" => at[u] # None
  BY DEF Seeks, Consistent, Placed, Flow, Points
<1> QED
  BY <1>1, <1>2, <1>3, <1>4, <1>5 DEF Ahead, Same, OrderEffect

\* A step that leaves the thread's foreach where it is.
Quiet(t) ==
  \/ op'[t] = "done"
  \/ /\ op[t] \notin {"start", "next", "done"} /\ op'[t] \notin {"start", "next", "done"}
     /\ walk'[t] = walk[t] /\ slot'[<<t, "cur">>] = slot[<<t, "cur">>]
     /\ owed'[t] \subseteq owed[t]
  \/ /\ op[t] = "next" /\ ~Seeks(t) /\ op'[t] = "next" /\ ~Seeks(t)'
     /\ slot'[<<t, "next">>] = slot[<<t, "next">>]
     /\ owed'[t] \subseteq owed[t]

LEMMA QuietAhead ==
  ASSUME NEW t \in Threads, Consistent', Owed', Ahead(t), OrderEffect, Quiet(t)
  PROVE  Ahead(t)'
<1>1. Uses(t)' /\ owed'[t] \subseteq Listed'
  BY DEF Consistent, Owed
<1>2. \A s \in {"cur", "next"} : slot'[<<t, s>>] # None => slot'[<<t, s>>] \in Listed'
  BY <1>1 DEF Uses
<1>3. CASE op'[t] = "done"
  BY <1>3 DEF Ahead, Seeks
<1>4. CASE /\ op[t] \notin {"start", "next", "done"} /\ op'[t] \notin {"start", "next", "done"}
           /\ walk'[t] = walk[t] /\ slot'[<<t, "cur">>] = slot[<<t, "cur">>]
           /\ owed'[t] \subseteq owed[t]
  BY <1>1, <1>2, <1>4 DEF Ahead, Seeks, OrderEffect
<1>5. CASE /\ op[t] = "next" /\ ~Seeks(t) /\ op'[t] = "next" /\ ~Seeks(t)'
           /\ slot'[<<t, "next">>] = slot[<<t, "next">>]
           /\ owed'[t] \subseteq owed[t]
  BY <1>1, <1>2, <1>5 DEF Ahead, OrderEffect
<1> QED
  BY <1>3, <1>4, <1>5 DEF Quiet

LEMMA OwnAhead ==
  ASSUME Consistent, Consistent', Owed, Owed', NEW t \in Threads, Ahead(t), Begin(t) \/ Continue(t)
  PROVE  Ahead(t)'
<1>a. Begin(t) \/ Continue(t)
  OBVIOUS
<1>g. Types /\ Stored /\ Control(t) /\ Walking(t) /\ Owns(t) /\ Points(t) /\ Uses(t) /\ owed \in [Threads -> SUBSET Items]
  BY DEF Consistent, Placed, Flow, Owed
<1>q. Quiet(t) => Ahead(t)'
  BY QuietAhead, OrderStep
<1>u. \A i \in Indexed : i \notin marked /\ ~(refcount[i] < 0)
  <2> SUFFICES ASSUME NEW i \in Indexed PROVE i \notin marked /\ ~(refcount[i] < 0)
    OBVIOUS
  <2>1. i \in Items /\ i \notin marked /\ refcount[i] # Deleting
    BY <1>g, Bounds DEF Types, Stored, Indexed, Known, Made, Items
  <2>2. refcount[i] = Cardinality(Holders(i))
    BY <2>1 DEF Consistent, Counting, Counted
  <2> QED
    BY <2>1, <2>2, FiniteHolders
<1>w. owed[t] \subseteq Indexed /\ owed[t] \subseteq Listed
  BY DEF Owed
<1> USE <1>g DEF Types, Stored, Refs, Slots, tables, counters, locks, locals, ghosts, Control, Walking, Owns, Points, Seeks, LooksUp, Quiet
<1>1. ASSUME NEW n \in Names, SetNew(t, n) PROVE Ahead(t)'
  <2>1. Quiet(t)
    BY <1>1 DEF SetNew, Call, MayAlter, Idle
  <2> QED
    BY <2>1, <1>q
<1>2. ASSUME NEW n \in Names, SetFound(t, n) PROVE Ahead(t)'
  <2>1. Quiet(t)
    BY <1>2 DEF SetFound, Call, MayAlter, Idle, Take, Drop, DropNested, DropReentrant
  <2> QED
    BY <2>1, <1>q
<1>3. ASSUME NEW n \in Names, Get(t, n) PROVE Ahead(t)'
  <2>1. Quiet(t)
    BY <1>3 DEF Get, Call, Idle, Take, Drop, DropNested, DropReentrant
  <2> QED
    BY <2>1, <1>q
<1>4. ASSUME NEW n \in Names, Del(t, n) PROVE Ahead(t)'
  <2>1. owed' = [u \in Threads |-> owed[u] \ {index[n]}]
    BY <1>4 DEF Del
  <2>2. Quiet(t)
    BY <1>4, <2>1 DEF Del, Call, MayAlter, Idle
  <2> QED
    BY <2>2, <1>q
<1>5. ASSUME NEW v \in Threads, NEW s \in {"held", "cur"}, Dup(t, s, v) PROVE Ahead(t)'
  <2>1. op[t] = "none" /\ op' = op /\ walk' = walk /\ owed' = owed
    BY <1>5 DEF Dup, Idle
  <2>2. slot' = [slot EXCEPT ![<<v, "held">>] = slot[<<t, s>>]]
    BY <1>5 DEF Dup
  <2>3. slot'[<<t, "cur">>] = slot[<<t, "cur">>]
    BY <2>2
  <2> QED
    BY <2>1, <2>3, <1>q DEF Quiet
<1>6. CASE Entries(t)
  <2>1. Quiet(t)
    BY <1>6 DEF Entries, Call, MayAlter, Idle
  <2> QED
    BY <2>1, <1>q
<1>7. CASE Release(t)
  <2>1. Quiet(t)
    BY <1>7 DEF Release, Idle
  <2> QED
    BY <2>1, <1>q
<1>8. ASSUME NEW mode \in {"r", "w", "z"}, WalkStart(t, mode) PROVE Ahead(t)'
  <2>1. op'[t] = "start" /\ pc'[t] = "advance" /\ at' = at /\ at[t] = None
    BY <1>8 DEF WalkStart, Call, Idle
  <2> QED
    BY <2>1 DEF Ahead
<1>9. CASE WalkNext(t)
  <2>1. /\ op[t] = "none" /\ op'[t] = "next" /\ pc'[t] = "advance" /\ ~gc'[t] /\ walk[t] # "no"
        /\ at'[t] = slot[<<t, "cur">>] /\ list' = list /\ owed' = owed
    BY <1>9 DEF WalkNext, Idle
  <2>2. \A i \in owed[t] : Before(slot[<<t, "cur">>], i)
    BY <2>1 DEF Ahead
  <2>3. ASSUME NEW i \in owed'[t] PROVE Before(at[t], i)'
    <3>1. PICK j \in DOMAIN list, k \in DOMAIN list : j < k /\ list[j] = slot[<<t, "cur">>] /\ list[k] = i
      BY <2>1, <2>2, <2>3 DEF Before
    <3>2. j \in DOMAIN list' /\ k \in DOMAIN list' /\ j < k /\ list'[j] = at'[t] /\ list'[k] = i
      BY <2>1, <3>1
    <3> QED
      BY <3>2 DEF Before
  <2> QED
    BY <2>1, <2>3 DEF Ahead
<1>10. CASE WalkDone(t)
  <2>1. Quiet(t)
    BY <1>10 DEF WalkDone, Idle, ReleaseCurrent
  <2> QED
    BY <2>1, <1>q
<1>11. CASE Load(t)
  <2>1. list' = list /\ owed' = owed /\ pc[t] = "load" /\ gc' = gc /\ slot' = slot /\ walk' = walk
    BY <1>11 DEF Load
  <2>2. CASE Seeks(t)
    <3>0. refcount[at[t]] \in Int
      BY <2>1, Bounds DEF Known, Made, Items
    <3>1. /\ op[t] \in {"start", "next"} /\ ~gc[t] /\ op'[t] = op[t] /\ at'[t] = at[t]
          /\ pc'[t] \in {"cas", "advance"}
          /\ pc'[t] = "advance" => refcount[at[t]] < 0 \/ at[t] \in marked
      BY <1>11, <2>2, <3>0 DEF Load, Goto, AfterRefusal
    <3>2. \A i \in owed[t] : i = at[t] \/ Before(at[t], i)
      BY <2>1, <2>2 DEF Ahead
    <3>3. pc'[t] = "advance" => at[t] \notin owed[t]
      BY <3>1, <1>u, <1>w
    <3>4. \A i : Before(at[t], i) => Before(at[t], i)'
      BY <2>1, <3>1 DEF Before
    <3> QED
      BY <2>1, <3>1, <3>2, <3>3, <3>4 DEF Ahead
  <2>3. CASE ~Seeks(t)
    <3>1. Quiet(t)
      BY <1>11, <2>1, <2>3 DEF Load, Goto, AfterRefusal
    <3> QED
      BY <3>1, <1>q
  <2> QED
    BY <2>2, <2>3
<1>12. CASE CasFails(t)
  <2>1. list' = list /\ owed' = owed /\ pc[t] = "cas" /\ pc'[t] = "load" /\ gc' = gc /\ slot' = slot
    BY <1>12 DEF CasFails, Goto
  <2>2. op'[t] = op[t] /\ at'[t] = at[t] /\ walk'[t] = walk[t]
    BY <1>12 DEF CasFails, Goto
  <2>3. CASE Seeks(t)
    <3>1. \A i \in owed[t] : i = at[t] \/ Before(at[t], i)
      BY <2>1, <2>3 DEF Ahead
    <3>2. \A i : Before(at[t], i) => Before(at[t], i)'
      BY <2>1, <2>2 DEF Before
    <3> QED
      BY <2>1, <2>2, <2>3, <3>1, <3>2 DEF Ahead
  <2>4. CASE ~Seeks(t)
    <3>1. Quiet(t)
      BY <2>1, <2>2, <2>4
    <3> QED
      BY <3>1, <1>q
  <2> QED
    BY <2>3, <2>4
<1>13. CASE Cas(t)
  <2>1. list' = list /\ pc[t] = "cas" /\ gc' = gc /\ walk' = walk /\ at[t] # None
    BY <1>13 DEF Cas
  <2>2. slot' = [slot EXCEPT ![<<t, Acquires(t)>>] = at[t]]
    BY <1>13 DEF Cas
  <2>3. CASE Seeks(t)
    <3>1. \A i \in owed[t] : i = at[t] \/ Before(at[t], i)
      BY <2>1, <2>3 DEF Ahead
    <3>2. \A i : Before(at[t], i) => \E a : a = at[t] /\ Before(a, i)'
      BY <2>1 DEF Before
    <3>3. CASE op[t] = "start"
      <4>1. Acquires(t) = "cur" /\ slot'[<<t, "cur">>] = at[t]
        BY <2>2, <2>3, <3>3 DEF Acquires
      <4>2. op'[t] = "none" /\ owed'[t] = owed[t] \ {at[t]}
        BY <1>13, <2>3, <3>3 DEF Cas, Goto
      <4>3. \A i \in owed'[t] : Before(slot[<<t, "cur">>], i)'
        BY <3>1, <3>2, <4>1, <4>2
      <4> QED
        BY <2>1, <4>1, <4>2, <4>3 DEF Ahead
    <3>4. CASE op[t] = "next"
      <4>1. Acquires(t) = "next" /\ slot'[<<t, "next">>] = at[t]
        BY <2>2, <2>3, <3>4 DEF Acquires
      <4>2. op'[t] = "next" /\ owed' = owed /\ pc'[t] \in {"peek", "flag"}
        BY <1>13, <2>3, <3>4 DEF Cas, Goto, ReleaseCurrent
      <4>3. \A i \in owed'[t] : i = slot'[<<t, "next">>] \/ Before(slot[<<t, "next">>], i)'
        BY <3>1, <3>2, <4>1, <4>2
      <4> QED
        BY <2>1, <4>1, <4>2, <4>3 DEF Ahead
    <3> QED
      BY <2>3, <3>3, <3>4
  <2>4. CASE ~Seeks(t)
    <3>1. owed' = owed
      BY <1>13, <2>4 DEF Cas
    <3>2. op'[t] \in {op[t], "none"} /\ (op[t] = "done" => op'[t] = "done") /\ (op[t] = "next" => op'[t] = "next")
      BY <1>13, <2>4 DEF Cas, Goto
    <3>3. Acquires(t) \in {"gc", "held"}
      BY <2>1, <2>4 DEF Acquires
    <3>4. slot'[<<t, "cur">>] = slot[<<t, "cur">>] /\ slot'[<<t, "next">>] = slot[<<t, "next">>]
      BY <2>2, <3>3
    <3>5. op[t] = "next" => ~Seeks(t)'
      BY <2>1, <2>4, <3>2
    <3>6. Quiet(t)
      BY <2>1, <2>4, <3>1, <3>2, <3>4, <3>5
    <3> QED
      BY <3>6, <1>q
  <2> QED
    BY <2>3, <2>4
<1>14. CASE Advance(t)
  <2>1. list' = list /\ owed' = owed /\ pc[t] = "advance" /\ slot' = slot /\ walk' = walk
    BY <1>14 DEF Advance
  <2>2. CASE Seeks(t)
    <3> DEFINE c == Successor(at[t])
    <3>1. \A i \in owed[t] : c # None /\ (i = c \/ Before(c, i))
      <4>1. CASE at[t] # None
        <5>1. \A i \in owed[t] : Before(at[t], i)
          BY <2>1, <2>2, <4>1 DEF Ahead
        <5> QED
          BY <4>1, <5>1, OrderNext
      <4>2. CASE at[t] = None
        <5>1. \A i \in Listed : c # None /\ (i = c \/ Before(c, i))
          BY <4>2, OrderFirst
        <5> QED
          BY <5>1, <1>w
      <4> QED
        BY <4>1, <4>2
    <3>2. /\ op[t] \in {"start", "next"} /\ ~gc[t] /\ gc' = gc /\ at'[t] = c
          /\ pc'[t] = IF c # None THEN "load" ELSE IF op[t] = "start" THEN "idle" ELSE ReleaseCurrent(t)
          /\ op'[t] = IF c = None /\ op[t] = "start" THEN "none" ELSE op[t]
      BY <1>14, <2>2 DEF Advance, Goto, ReleaseCurrent
    <3> HIDE DEF c
    <3>3. CASE c = None
      <4>1. owed'[t] = {}
        BY <2>1, <3>1, <3>3
      <4> QED
        BY <3>2, <3>3, <4>1 DEF Ahead, ReleaseCurrent
    <3>4. CASE c # None
      <4>1. \A i \in owed'[t] : i = at'[t] \/ Before(at[t], i)'
        BY <2>1, <3>1, <3>2 DEF Before
      <4> QED
        BY <3>2, <3>4, <4>1 DEF Ahead
    <3> QED
      BY <3>3, <3>4
  <2>3. CASE ~Seeks(t)
    <3>1. gc[t] /\ op'[t] \in {op[t], "none"} /\ (op[t] = "done" => op'[t] = "done") /\ (op[t] = "next" => op'[t] = "next")
      BY <1>14, <2>3 DEF Advance, Collect, AfterGc, Goto
    <3>2. ~Seeks(t)'
      BY <1>14, <3>1 DEF Advance, Collect, AfterGc, Goto
    <3>3. Quiet(t)
      BY <2>1, <2>3, <3>1, <3>2
    <3> QED
      BY <3>3, <1>q
  <2> QED
    BY <2>2, <2>3
<1>15. CASE GcTry(t)
  <2>1. Quiet(t)
    BY <1>15 DEF GcTry, Goto, Take, Drop, DropNested, DropReentrant, Collect, AfterGc, ReleaseCurrent, CanBeRemoved
  <2> QED
    BY <2>1, <1>q
<1>16. CASE GcLock(t)
  <2>1. Quiet(t)
    BY <1>16 DEF GcLock, Goto, Take, Drop, DropNested, DropReentrant
  <2> QED
    BY <2>1, <1>q
<1>17. CASE Peek(t)
  <2>1. Quiet(t)
    BY <1>17 DEF Peek, Goto
  <2> QED
    BY <2>1, <1>q
<1>18. CASE ReadFlag(t)
  <2>1. Quiet(t)
    BY <1>18 DEF ReadFlag, Goto, Releases
  <2> QED
    BY <2>1, <1>q
<1>19. CASE Decrement(t)
  <2>1. Quiet(t)
    BY <1>19 DEF Decrement, Goto, Releases, AfterRelease
  <2> QED
    BY <2>1, <1>q
<1>20. CASE Count(t)
  <2>1. Quiet(t)
    BY <1>20 DEF Count, Goto, Releases, AfterRelease
  <2> QED
    BY <2>1, <1>q
<1>21. CASE Try(t)
  <2>1. Quiet(t)
    BY <1>21 DEF Try, Goto, CanBeRemoved
  <2> QED
    BY <2>1, <1>q
<1>22. CASE On(t)
  <2>1. list' = list /\ op'[t] = "none"
    BY <1>22 DEF On, Goto
  <2>2. CASE op[t] = "next"
    <3>1. /\ slot' = [slot EXCEPT ![<<t, "cur">>] = slot[<<t, "next">>], ![<<t, "next">>] = None]
          /\ owed' = [owed EXCEPT ![t] = @ \ {slot[<<t, "next">>]}] /\ ~Seeks(t)
      BY <1>22, <2>2 DEF On
    <3>2. slot'[<<t, "cur">>] = slot[<<t, "next">>] /\ owed'[t] = owed[t] \ {slot[<<t, "next">>]}
      BY <3>1
    <3>3. \A i \in owed'[t] : slot[<<t, "next">>] # None /\ Before(slot[<<t, "next">>], i)
      BY <2>2, <3>1, <3>2 DEF Ahead
    <3>4. ASSUME NEW i \in owed'[t] PROVE slot'[<<t, "cur">>] # None /\ Before(slot[<<t, "cur">>], i)'
      <4>1. PICK j \in DOMAIN list, k \in DOMAIN list : j < k /\ list[j] = slot[<<t, "next">>] /\ list[k] = i
        BY <3>3, <3>4 DEF Before
      <4>2. j \in DOMAIN list' /\ k \in DOMAIN list' /\ j < k /\ list'[j] = slot'[<<t, "cur">>] /\ list'[k] = i
        BY <2>1, <3>2, <4>1
      <4>3. slot'[<<t, "cur">>] # None
        BY <3>2, <3>3, <3>4
      <4> QED
        BY <4>2, <4>3 DEF Before
    <3> QED
      BY <2>1, <3>4 DEF Ahead
  <2>3. CASE op[t] # "next"
    <3>1. walk'[t] = "no"
      BY <1>22, <2>3 DEF On
    <3> QED
      BY <2>1, <3>1 DEF Ahead
  <2> QED
    BY <2>2, <2>3
<1>23. CASE Link(t)
  <2>1. Quiet(t)
    BY <1>23 DEF Link, Goto, Take, Drop, DropNested, DropReentrant, LinkAndCollect
  <2> QED
    BY <2>1, <1>q
<1>24. CASE Unlink(t)
  <2>1. Quiet(t)
    BY <1>24 DEF Unlink, Goto, Take, Drop, DropNested, DropReentrant, LinkAndCollect
  <2> QED
    BY <2>1, <1>q
<1>25. CASE Free(t)
  <2>1. Quiet(t)
    BY <1>25 DEF Free, Goto
  <2> QED
    BY <2>1, <1>q
<1>26. CASE DelCas(t)
  <2>1. Quiet(t)
    BY <1>26 DEF DelCas, Goto, CanBeRemoved
  <2> QED
    BY <2>1, <1>q
<1>27. CASE DelMark(t)
  <2>1. Quiet(t)
    BY <1>27 DEF DelMark, Goto
  <2> QED
    BY <2>1, <1>q
<1> HIDE <1>g DEF Types, Stored, Refs, Slots, tables, counters, locks, locals, ghosts, Control, Walking, Owns, Points, Seeks, LooksUp, Quiet
<1> QED
  BY <1>a, <1>1, <1>2, <1>3, <1>4, <1>5, <1>6, <1>7, <1>8, <1>9, <1>10, <1>11, <1>12, <1>13, <1>14, <1>15, <1>16, <1>17, <1>18, <1>19, <1>20, <1>21, <1>22, <1>23, <1>24, <1>25, <1>26, <1>27 DEF Begin, Continue

\* dictionary_foreach_next: whatever is added, deleted and collected between its steps, a foreach
\* comes to its end only after it has handed out all that stayed in the dictionary.
THEOREM NothingIsMissed == Spec => []WalkMissesNothing
<1> DEFINE OnItsWay == Consistent /\ Owed /\ \A t \in Threads : Ahead(t)
<1>1. Init => OnItsWay
  <2> SUFFICES ASSUME Init PROVE OnItsWay
    OBVIOUS
  <2>1. Consistent
    BY ConsistentInit
  <2>2. \A t \in Threads : owed[t] = {} /\ op[t] = "none"
    BY DEF Init
  <2>3. Owed
    BY <2>2 DEF Init, Owed
  <2>4. \A t \in Threads : Ahead(t)
    BY <2>2 DEF Ahead, Seeks
  <2> QED
    BY <2>1, <2>3, <2>4
<1>2. OnItsWay /\ [Next]_vars => OnItsWay'
  <2> SUFFICES ASSUME OnItsWay, [Next]_vars PROVE OnItsWay'
    OBVIOUS
  <2>1. Consistent'
    BY ConsistentStep
  <2>2. ASSUME NEW t \in Threads, Begin(t) \/ Continue(t) PROVE OnItsWay'
    <3>1. Owed'
      BY <2>1, <2>2, OwedStep
    <3>2. Ahead(t)'
      BY <2>1, <2>2, <3>1, OwnAhead
    <3>3. \A u \in Threads : u # t => Ahead(u)'
      BY <2>1, <2>2, <3>1, OthersAhead
    <3> QED
      BY <2>1, <3>1, <3>2, <3>3
  <2>3. CASE UNCHANGED vars
    <3>1. UNCHANGED <<index, list, pc, op, at, gc, slot, walk, owed>>
      BY <2>3 DEF vars, tables, locals, ghosts
    <3>2. Owed'
      BY <3>1 DEF Owed, Indexed, Listed
    <3>3. \A t \in Threads : Ahead(t)'
      BY <3>1 DEF Ahead, Before, Seeks
    <3> QED
      BY <2>1, <3>2, <3>3
  <2> QED
    BY <2>1, <2>2, <2>3 DEF Next
<1>3. OnItsWay => WalkMissesNothing
  <2> SUFFICES ASSUME OnItsWay, NEW t \in Threads, Idle(t), walk[t] # "no", slot[<<t, "cur">>] = None
               PROVE  owed[t] = {}
    BY DEF WalkMissesNothing
  <2>1. op[t] = "none"
    BY DEF Consistent, Placed, Flow, Control, Idle
  <2> QED
    BY <2>1 DEF Ahead
<1> QED
  BY <1>1, <1>2, <1>3, PTL DEF Spec
=============================================================================
