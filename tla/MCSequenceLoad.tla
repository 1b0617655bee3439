--------------------------- MODULE MCSequenceLoad ----------------------------
(* Requests of every kind the load tells apart, on an MCS with three steps. *)
EXTENDS SequenceLoad, TLC

CONSTANTS v1, v2

MCOutputs == {v1, v2}

Step(t, x, y) == [time |-> t, outputs |-> (v1 :> x @@ v2 :> y)]

MCRequests ==
  { <<>>,                                              \* no step
    <<Step(1, 0, 1)>>, <<Step(2, 2, 0)>>,
    <<Step(1, 1, 2), Step(2, 0, 1)>>,
    <<Step(2, 2, 2), Step(1, 1, 0)>>,
    <<Step(2, 0, 1), Step(1, 3, 2)>>,                  \* an unknown value
    <<Step(1, 1, 0), Step(1, 2, 1), Step(2, 0, 2)>>,   \* every step node
    <<Step(2, 1, 1), Step(1, 0, 1), Step(1, 1, 1), Step(1, 0, 0)>>, \* too many
    <<Step(1, 1, 1), Step(0, 0, 0)>>,                  \* no duration
    <<[time |-> 1, outputs |-> (v1 :> 1)]>> }          \* an output missing
=============================================================================
