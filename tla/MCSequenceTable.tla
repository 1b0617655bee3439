--------------------------- MODULE MCSequenceTable ---------------------------
(* Two programs the adapter accepts, and the empty table it does not. *)
EXTENDS SequenceTable

CONSTANTS p1, p2

MCValid == {p1, p2}
MCPrograms == {p1, p2, EmptyStep}
=============================================================================
