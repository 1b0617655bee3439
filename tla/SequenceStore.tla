---------------------------- MODULE SequenceStore ----------------------------
(***************************************************************************)
(* What the sequence commands of adapters/opcua/client.py promise about a  *)
(* sequence kept by the MCS: program is what a download reads back, wanted *)
(* what the latest load asked for.                                         *)
(*                                                                         *)
(* A load is not atomic: it revises the steps in place and installs their  *)
(* durations at its end.  An interrupted one leaves revised steps under    *)
(* the old durations, but no valve open that neither program opens.        *)
(***************************************************************************)
EXTENDS Integers, Sequences

CONSTANTS
  Outputs,   \* the valves of the sequence
  Amount,    \* number of steps the MCS can keep
  Encodable, \* output values a step can keep
  Requests   \* sequences of steps that may be asked for

VARIABLES program, wanted, loading

vars == <<program, wanted, loading>>

Open == 1

Smaller(m, n) == IF m < n THEN m ELSE n

\* The last step the MCS can keep has no duration: a download does not see it.
Readable(p) == SubSeq(p, 1, Smaller(Len(p), Amount - 1))

\* q reads as p, except that an output no step can keep has some old value.
Stores(q, p) ==
  /\ Len(q) = Len(p)
  /\ \A k \in DOMAIN p :
       /\ q[k].time = p[k].time
       /\ \A o \in Outputs : p[k].outputs[o] \in Encodable => q[k].outputs[o] = p[k].outputs[o]

Acceptable(p) == \A k \in DOMAIN p : DOMAIN p[k].outputs = Outputs /\ p[k].time > 0

Init ==
  /\ program # <<>>
  /\ \A k \in 2..Len(program) : program[k].time > 0
  /\ ~loading

Begin ==
  /\ ~loading
  /\ wanted' \in {p \in Requests : Acceptable(p)}
  /\ loading' = TRUE
  /\ UNCHANGED program

\* Step k is open in the wanted program; the step after its last repeats it.
MayOpen(k, o) ==
  \/ k <= Len(wanted) /\ wanted[k].outputs[o] = Open
  \/ k > 1 /\ k = Len(wanted) + 1 /\ program[k - 1].outputs[o] = Open

\* One step is revised; the durations and the other steps stay.
Revise(k) ==
  /\ loading
  /\ \E new \in [Outputs -> {0, Open, 2}] :
       /\ program' = [program EXCEPT ![k].outputs = new]
       /\ \A o \in Outputs :
            new[o] = Open => program[k].outputs[o] = Open \/ MayOpen(k, o)
  /\ UNCHANGED <<wanted, loading>>

Commit ==
  /\ loading
  /\ Stores(program', Readable(wanted))
  /\ loading' = FALSE
  /\ UNCHANGED wanted

\* The adapter fails during the load.
Abandon ==
  /\ loading
  /\ loading' = FALSE
  /\ UNCHANGED <<program, wanted>>

Next == Begin \/ (\E k \in DOMAIN program : Revise(k)) \/ Commit \/ Abandon

Spec == Init /\ [][Next]_vars
=============================================================================
