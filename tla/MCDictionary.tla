---------------------------- MODULE MCDictionary ----------------------------
(* Dictionary with a thread that sets, deletes and shares items, and one that *)
(* looks them up, deletes one, walks the list and asks for the entries.       *)
EXTENDS Dictionary, TLC

CONSTANTS t1, t2

Two == {t1, t2}
Budget(set, get, del, dup, entry, start) ==
  [set |-> set, get |-> get, del |-> del, dup |-> dup, entries |-> entry, start |-> start]
Calls == (t1 :> Budget(2, 0, 2, 1, 0, 0)) @@ (t2 :> Budget(0, 1, 1, 0, 1, 1))

=============================================================================
