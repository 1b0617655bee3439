------------------------ MODULE SequenceLoad_proofs -------------------------
(***************************************************************************)
(* For every sequence, number of step nodes and set of requests: the types *)
(* of SequenceLoad, what a load that ended leaves behind its last step and *)
(* in its valve states (EndHolds, OpenOrHold), and that a load is one of   *)
(* SequenceStore (Implements).                                             *)
(*                                                                         *)
(* The first two speak of the end of a load only.  LoadInv says what is    *)
(* true of the nodes written so far.  What a download sees of a load under *)
(* way rests on ProgramInv: durations are positive up to the program's end *)
(* and zero behind it, in the node and, when it is written, in the copy.   *)
(***************************************************************************)
EXTENDS SequenceLoad, TLAPS

last == Len(request)

\* The first n step nodes hold what the load writes there: the request's values,
\* as far as a step can keep them, then a copy of the last step, then zeros.
StepsWritten(n) ==
  /\ \A i \in 1..n, o \in Outputs : i <= last /\ request[i].outputs[o] \in Encodable =>
       (steps[i][o] = 1 <=> request[i].outputs[o] = 1)
  /\ \A i \in 1..n : i > last =>
       /\ last >= 1
       /\ steps[i] = IF i = last + 1 THEN steps[last] ELSE Closed

HoldsWritten(n) ==
  /\ \A i \in 1..n, o \in Outputs : i <= last /\ request[i].outputs[o] \in Encodable =>
       (holds[i][o] = 1 <=> request[i].outputs[o] = 2)
  /\ \A i \in 1..n : i > last => holds[i] = IF i = last + 1 THEN holds[last] ELSE Closed

NoHoldNodes == ~HasHold => phase # "hold" /\ \A i \in 1..Amount : holds[i] = Closed

LoadInv ==
  /\ NoHoldNodes
  /\ phase = "step" => StepsWritten(k - 1) /\ HoldsWritten(k - 1)
  /\ phase = "hold" => k <= Amount /\ StepsWritten(k) /\ HoldsWritten(k - 1)
  /\ settled => phase = "idle" /\ last <= Amount /\ StepsWritten(Amount) /\ HoldsWritten(Amount)

-----------------------------------------------------------------------------
\* What the proofs use of the sizes of the MCS's vectors.
LEMMA AmountIsNat == Amount \in Nat /\ Amount >= 2 /\ DelayLen \in Nat
BY AmountAssumption

\* A request can be indexed from 1 to its length, and every step takes a time.
LEMMA RequestIsSeq ==
  ASSUME TypeOK
  PROVE  /\ last \in Nat /\ DOMAIN request = 1..last
         /\ \A i \in 1..last : request[i].time \in Int
<1>1. CASE request = <<>>
  BY <1>1 DEF last
<1>2. CASE request \in Requests
  <2>1. request \in Seq({request[i] : i \in DOMAIN request})
    BY <1>2, RequestsAreSequences
  <2>2. \A i \in DOMAIN request : request[i].time \in Int
    BY <1>2, RequestsAreSequences
  <2>3. QED
    BY <2>1, <2>2 DEF last
<1>3. QED
  BY <1>1, <1>2 DEF TypeOK

\* A step node's elements stay bits whatever value is asked for.
LEMMA BitsAreBits ==
  ASSUME NEW v, NEW old \in {0, 1}
  PROVE  StepBit(v, old) \in {0, 1} /\ HoldBit(v, old) \in {0, 1}
BY DEF StepBit, HoldBit

\* A hold node is only written after its step node.
HoldIsOfStep == phase = "hold" => k <= Amount /\ request # <<>>

\* No step of a load, rejection, error or end of the process leaves the types.
LEMMA TypeStep == TypeOK /\ HoldIsOfStep /\ [Next]_vars => TypeOK' /\ HoldIsOfStep'
<1> SUFFICES ASSUME TypeOK, HoldIsOfStep, [Next]_vars
             PROVE  TypeOK' /\ HoldIsOfStep'
  OBVIOUS
<1> USE AmountIsNat, MaxLoadsIsNat DEF HoldIsOfStep
<1>c. Closed \in [Outputs -> {0, 1}]
  BY DEF Closed
<1>k. k \in 1..Amount + 1
  BY DEF TypeOK
<1>a. Advance /\ k \in 1..Amount => phase' = "step" /\ k' \in 1..Amount + 1
  BY DEF Advance
<1>b. AfterStep /\ k \in 1..Amount => /\ phase' \in {"step", "hold"} /\ k' \in 1..Amount + 1
                                      /\ phase' = "hold" => k' <= Amount
  BY <1>a DEF AfterStep
<1>1. ASSUME NEW s \in Requests, BeginLoad(s) PROVE TypeOK' /\ HoldIsOfStep'
  <2>1. /\ request' \in Requests /\ phase' = "step" /\ k' = 1 /\ settled' = FALSE
        /\ delay_arr' = delays /\ delays' = delays /\ steps' = steps /\ holds' = holds
    BY <1>1 DEF BeginLoad, mcs
  <2>2. loads' \in 0..MaxLoads
    BY <1>1 DEF BeginLoad, TypeOK
  <2>3. 1 \in 1..Amount + 1
    OBVIOUS
  <2>4. QED
    BY <2>1, <2>2, <2>3 DEF TypeOK
<1>2. ASSUME NEW s \in Requests, Reject(s) PROVE TypeOK' /\ HoldIsOfStep'
  BY <1>2 DEF TypeOK, Reject, mcs
<1>3. CASE WriteStep
  <2>1. k \in 1..last /\ k \in 1..Amount
    BY <1>3, RequestIsSeq DEF WriteStep, TypeOK, last
  <2>2. delay_arr' \in [1..DelayLen -> Int]
    <3>1. request[k].time \in Int
      BY <2>1, RequestIsSeq
    <3>2. QED
      BY <1>3, <3>1 DEF WriteStep, TypeOK
  <2>3. [o \in Outputs |-> StepBit(request[k].outputs[o], steps[k][o])] \in [Outputs -> {0, 1}]
    <3>1. \A o \in Outputs : steps[k][o] \in {0, 1}
      BY <2>1 DEF TypeOK
    <3>2. \A o \in Outputs : StepBit(request[k].outputs[o], steps[k][o]) \in {0, 1}
      BY <3>1, BitsAreBits
    <3>3. QED
      BY <3>2
  <2>4. steps' = [steps EXCEPT ![k] = [o \in Outputs |-> StepBit(request[k].outputs[o], steps[k][o])]]
    BY <1>3, <2>1 DEF WriteStep, TypeOK
  <2>5. steps' \in [1..Amount -> [Outputs -> {0, 1}]]
    BY <2>3, <2>4 DEF TypeOK
  <2>6. UNCHANGED <<delays, holds, request, settled, loads>> /\ AfterStep /\ request # <<>>
    BY <1>3, <2>1, RequestIsSeq DEF WriteStep, last
  <2>7. QED
    BY <1>b, <2>1, <2>2, <2>5, <2>6 DEF TypeOK
<1>4. CASE WriteHold
  <2>1. k \in 1..Amount
    BY <1>4 DEF WriteHold, TypeOK
  <2>2. [o \in Outputs |-> HoldBit(request[k].outputs[o], holds[k][o])] \in [Outputs -> {0, 1}]
    <3>1. \A o \in Outputs : holds[k][o] \in {0, 1}
      BY <2>1 DEF TypeOK
    <3>2. \A o \in Outputs : HoldBit(request[k].outputs[o], holds[k][o]) \in {0, 1}
      BY <3>1, BitsAreBits
    <3>3. QED
      BY <3>2
  <2>3. holds' = [holds EXCEPT ![k] = [o \in Outputs |-> HoldBit(request[k].outputs[o], holds[k][o])]]
    BY <1>4, <2>1 DEF WriteHold, TypeOK
  <2>4. holds' \in [1..Amount -> [Outputs -> {0, 1}]]
    BY <2>2, <2>3 DEF TypeOK
  <2>5. QED
    BY <1>4, <1>a, <2>1, <2>4 DEF WriteHold, TypeOK
<1>5. CASE WriteRest
  <2>1. last \in 1..k - 1 /\ k \in 1..Amount
    BY <1>5, RequestIsSeq DEF WriteRest, TypeOK, last
  <2>2. steps[last] \in [Outputs -> {0, 1}]
    BY <2>1 DEF TypeOK
  <2>3. steps' \in [1..Amount -> [Outputs -> {0, 1}]]
    BY <1>5, <1>c, <2>2 DEF WriteRest, TypeOK, last
  <2>4. delay_arr' \in [1..DelayLen -> Int]
    BY <1>5 DEF WriteRest, TypeOK
  <2>5. QED
    BY <1>5, <1>b, <2>1, <2>3, <2>4 DEF WriteRest, TypeOK
<1>6. CASE WriteRestHold
  <2>1. k \in 1..Amount
    BY <1>6 DEF WriteRestHold, TypeOK
  <2>2. last \in 1..k - 1
    BY <1>6, RequestIsSeq, <2>1 DEF WriteRestHold, last
  <2>3. holds[last] \in [Outputs -> {0, 1}]
    BY <2>1, <2>2 DEF TypeOK
  <2>4. holds' \in [1..Amount -> [Outputs -> {0, 1}]]
    BY <1>6, <1>c, <2>3 DEF WriteRestHold, TypeOK, last
  <2>5. QED
    BY <1>6, <1>a, <2>1, <2>4 DEF WriteRestHold, TypeOK
<1>7. CASE WriteDelays
  BY <1>7 DEF WriteDelays, TypeOK
<1>8. CASE LoadRaises \/ CallRaises
  BY <1>8 DEF LoadRaises, CallRaises, LoadEnds, TypeOK, mcs
<1>9. CASE UNCHANGED vars
  BY <1>9 DEF vars, mcs, TypeOK
<1>10. QED
  BY <1>1, <1>2, <1>3, <1>4, <1>5, <1>6, <1>7, <1>8, <1>9 DEF Next


-----------------------------------------------------------------------------
\* Without hold vectors the hold nodes read as a load would have written them.
LEMMA NoHoldsToWrite ==
  ASSUME TypeOK, NoHoldNodes, ~HasHold, last >= 1, NEW n \in 0..Amount
  PROVE  HoldsWritten(n)
<1>1. \A i \in 1..Amount : holds[i] = Closed
  BY DEF NoHoldNodes
<1>2. last \in Nat
  BY RequestIsSeq
<1>3. \A i \in 1..n, o \in Outputs : holds[i][o] = 0
  <2>1. \A o \in Outputs : Closed[o] = 0
    BY DEF Closed
  <2>2. \A i \in 1..n : i \in 1..Amount
    BY AmountIsNat
  <2>3. QED
    BY <1>1, <2>1, <2>2
<1>a. \A v \in Encodable : v # 2
  BY DEF Encodable
<1>4. ASSUME NEW i \in 1..n, i > last
      PROVE  holds[i] = IF i = last + 1 THEN holds[last] ELSE Closed
  <2>1. i \in 1..Amount /\ last \in 1..Amount
    BY <1>2, <1>4, AmountIsNat
  <2>2. QED
    BY <1>1, <2>1
<1>5. QED
  BY <1>3, <1>a, <1>4 DEF HoldsWritten

\* A step node of the sequence gets the values of its step: one node more is written.
LEMMA StepWritten ==
  ASSUME TypeOK, NEW n \in 1..Amount, k = n, StepsWritten(n - 1), WriteStep
  PROVE  StepsWritten(n)'
<1>1. request' = request /\ n <= last /\ last \in Nat /\ last' = last
  BY RequestIsSeq DEF WriteStep, last
<1>2. \A i \in 1..n - 1 : steps'[i] = steps[i]
  BY AmountIsNat DEF WriteStep, TypeOK
<1>3. \A o \in Outputs : steps'[n][o] = StepBit(request[n].outputs[o], steps[n][o])
  BY AmountIsNat DEF WriteStep, TypeOK
<1>4. ASSUME NEW i \in 1..n, NEW o \in Outputs, request[i].outputs[o] \in Encodable
      PROVE  steps'[i][o] = 1 <=> request[i].outputs[o] = 1
  <2>1. CASE i = n
    BY <1>3, <1>4, <2>1 DEF StepBit
  <2>2. CASE i # n
    <3>1. i \in 1..n - 1 /\ i <= last
      BY <1>1, <2>2
    <3>2. QED
      BY <1>2, <1>4, <3>1 DEF StepsWritten
  <2>3. QED
    BY <2>1, <2>2
<1>5. \A i \in 1..n : ~(i > last)
  BY <1>1
<1>6. QED
  BY <1>1, <1>4, <1>5 DEF StepsWritten

\* Behind the last step the load copies that step, then closes the others.
LEMMA RestWritten ==
  ASSUME TypeOK, NEW n \in 1..Amount, k = n, StepsWritten(n - 1), WriteRest
  PROVE  StepsWritten(n)'
<1>1. request' = request /\ last \in 1..n - 1 /\ last' = last
  BY RequestIsSeq DEF WriteRest, last
<1>2. \A i \in 1..n - 1 : steps'[i] = steps[i]
  BY AmountIsNat DEF WriteRest, TypeOK
<1>3. steps'[n] = IF n = last + 1 THEN steps[last] ELSE Closed
  BY AmountIsNat DEF WriteRest, TypeOK, last
<1>4. steps'[last] = steps[last]
  BY <1>1, <1>2
<1>5. ASSUME NEW i \in 1..n, NEW o \in Outputs, i <= last, request[i].outputs[o] \in Encodable
      PROVE  steps'[i][o] = 1 <=> request[i].outputs[o] = 1
  <2>1. i \in 1..n - 1
    BY <1>1, <1>5
  <2>2. QED
    BY <1>2, <1>5, <2>1 DEF StepsWritten
<1>6. ASSUME NEW i \in 1..n, i > last
      PROVE  steps'[i] = IF i = last + 1 THEN steps'[last] ELSE Closed
  <2>1. CASE i = n
    BY <1>3, <1>4, <2>1
  <2>2. CASE i # n
    <3>1. i \in 1..n - 1
      BY <2>2
    <3>2. QED
      BY <1>2, <1>4, <1>6, <3>1 DEF StepsWritten
  <2>3. QED
    BY <2>1, <2>2
<1>7. last >= 1
  BY <1>1
<1>8. QED
  BY <1>1, <1>5, <1>6, <1>7 DEF StepsWritten

\* A hold node of the sequence gets the holds of its step.
LEMMA HoldWritten ==
  ASSUME TypeOK, NEW n \in 1..Amount, k = n, HoldsWritten(n - 1), WriteHold
  PROVE  HoldsWritten(n)'
<1>1. request' = request /\ n <= last /\ last \in Nat /\ last' = last
  BY RequestIsSeq DEF WriteHold, last
<1>2. \A i \in 1..n - 1 : holds'[i] = holds[i]
  BY AmountIsNat DEF WriteHold, TypeOK
<1>3. \A o \in Outputs : holds'[n][o] = HoldBit(request[n].outputs[o], holds[n][o])
  BY AmountIsNat DEF WriteHold, TypeOK
<1>4. ASSUME NEW i \in 1..n, NEW o \in Outputs, request[i].outputs[o] \in Encodable
      PROVE  holds'[i][o] = 1 <=> request[i].outputs[o] = 2
  <2>1. CASE i = n
    BY <1>3, <1>4, <2>1 DEF HoldBit
  <2>2. CASE i # n
    <3>1. i \in 1..n - 1 /\ i <= last
      BY <1>1, <2>2
    <3>2. QED
      BY <1>2, <1>4, <3>1 DEF HoldsWritten
  <2>3. QED
    BY <2>1, <2>2
<1>5. \A i \in 1..n : ~(i > last)
  BY <1>1
<1>6. QED
  BY <1>1, <1>4, <1>5 DEF HoldsWritten

\* A hold node behind the last step is copied or closed like its step node.
LEMMA RestHoldWritten ==
  ASSUME TypeOK, NEW n \in 1..Amount, k = n, HoldsWritten(n - 1), WriteRestHold, last >= 1
  PROVE  HoldsWritten(n)'
<1>1. request' = request /\ last \in 1..n - 1 /\ last' = last
  BY RequestIsSeq DEF WriteRestHold, last
<1>2. \A i \in 1..n - 1 : holds'[i] = holds[i]
  BY AmountIsNat DEF WriteRestHold, TypeOK
<1>3. holds'[n] = IF n = last + 1 THEN holds[last] ELSE Closed
  BY AmountIsNat DEF WriteRestHold, TypeOK, last
<1>4. holds'[last] = holds[last]
  BY <1>1, <1>2
<1>5. ASSUME NEW i \in 1..n, NEW o \in Outputs, i <= last, request[i].outputs[o] \in Encodable
      PROVE  holds'[i][o] = 1 <=> request[i].outputs[o] = 2
  <2>1. i \in 1..n - 1
    BY <1>1, <1>5
  <2>2. QED
    BY <1>2, <1>5, <2>1 DEF HoldsWritten
<1>6. ASSUME NEW i \in 1..n, i > last
      PROVE  holds'[i] = IF i = last + 1 THEN holds'[last] ELSE Closed
  <2>1. CASE i = n
    BY <1>3, <1>4, <2>1
  <2>2. CASE i # n
    <3>1. i \in 1..n - 1
      BY <2>2
    <3>2. QED
      BY <1>2, <1>4, <1>6, <3>1 DEF HoldsWritten
  <2>3. QED
    BY <2>1, <2>2
<1>7. QED
  BY <1>1, <1>5, <1>6 DEF HoldsWritten

\* The step of the load after a step node: to its hold node or to the next step.
LEMMA AfterStepNode ==
  ASSUME TypeOK, NoHoldNodes, NEW n \in 1..Amount, k = n, last >= 1,
         StepsWritten(n)', HoldsWritten(n - 1), AfterStep,
         UNCHANGED <<holds, request, settled>>, settled = FALSE
  PROVE  LoadInv'
<1>1. HoldsWritten(n - 1)'
  BY DEF HoldsWritten, last
<1>2. CASE HasHold
  <2>1. phase' = "hold" /\ k' = n
    BY <1>2 DEF AfterStep
  <2>2. NoHoldNodes'
    BY <1>2 DEF NoHoldNodes
  <2>3. n <= Amount
    BY AmountIsNat
  <2>4. StepsWritten(k)' /\ HoldsWritten(k - 1)'
    BY <1>1, <2>1
  <2>5. QED
    BY <2>1, <2>2, <2>3, <2>4 DEF LoadInv
<1>3. CASE ~HasHold
  <2>1. phase' = "step" /\ k' = n + 1
    BY <1>3 DEF AfterStep, Advance
  <2>2. NoHoldNodes'
    BY <2>1 DEF NoHoldNodes
  <2>3. HoldsWritten(n)
    BY <1>3, NoHoldsToWrite, AmountIsNat
  <2>4. HoldsWritten(n)'
    BY <2>3 DEF HoldsWritten, last
  <2>5. k' - 1 = n
    BY <2>1
  <2>6. StepsWritten(k - 1)' /\ HoldsWritten(k - 1)'
    BY <2>4, <2>5
  <2>7. QED
    BY <2>1, <2>2, <2>6 DEF LoadInv
<1>4. QED
  BY <1>2, <1>3

\* The step of the load after a hold node.
LEMMA AfterHoldNode ==
  ASSUME TypeOK, HasHold, NEW n \in 1..Amount, k = n,
         StepsWritten(n), HoldsWritten(n)', Advance,
         UNCHANGED <<steps, request, settled>>, settled = FALSE
  PROVE  LoadInv'
<1>1. phase' = "step" /\ k' = n + 1
  BY DEF Advance
<1>2. NoHoldNodes'
  BY DEF NoHoldNodes
<1>3. StepsWritten(n)'
  BY DEF StepsWritten, last
<1>4. k' - 1 = n
  BY <1>1
<1>5. StepsWritten(k - 1)' /\ HoldsWritten(k - 1)'
  BY <1>3, <1>4
<1>6. QED
  BY <1>1, <1>2, <1>5 DEF LoadInv

\* Whatever the process does, the nodes written so far keep what was written.
LEMMA LoadStep == TypeOK /\ HoldIsOfStep /\ LoadInv /\ [Next]_vars => LoadInv'
<1> SUFFICES ASSUME TypeOK, HoldIsOfStep, LoadInv, [Next]_vars
             PROVE  LoadInv'
  OBVIOUS
<1>s. phase # "idle" => settled = FALSE
  BY DEF LoadInv, TypeOK
<1>h. phase = "hold" => HasHold
  BY HasHoldIsBool DEF LoadInv, NoHoldNodes
<1>n. NoHoldNodes
  BY DEF LoadInv
<1>1. ASSUME NEW s \in Requests, BeginLoad(s) PROVE LoadInv'
  <2>1. phase' = "step" /\ k' = 1 /\ settled' = FALSE /\ holds' = holds
    BY <1>1 DEF BeginLoad, mcs
  <2>2. NoHoldNodes'
    BY <1>n, <2>1 DEF NoHoldNodes
  <2>3. StepsWritten(0)' /\ HoldsWritten(0)'
    BY DEF StepsWritten, HoldsWritten
  <2>4. k' - 1 = 0
    BY <2>1
  <2>5. StepsWritten(k - 1)' /\ HoldsWritten(k - 1)'
    BY <2>3, <2>4
  <2>6. QED
    BY <2>1, <2>2, <2>5 DEF LoadInv
<1>2. ASSUME NEW s \in Requests, Reject(s) PROVE LoadInv'
  BY <1>2 DEF Reject, mcs, LoadInv, NoHoldNodes, StepsWritten, HoldsWritten, last
<1>3. CASE WriteStep
  <2>1. PICK n \in 1..Amount : k = n
    BY <1>3 DEF WriteStep, TypeOK
  <2>2. StepsWritten(n - 1) /\ HoldsWritten(n - 1)
    BY <1>3, <2>1 DEF LoadInv, WriteStep
  <2>3. StepsWritten(n)'
    BY <1>3, <2>1, <2>2, StepWritten
  <2>4. last >= 1
    BY <1>3, <2>1, RequestIsSeq DEF WriteStep, last
  <2>5. AfterStep /\ UNCHANGED <<holds, request, settled>> /\ settled = FALSE
    BY <1>3, <1>s DEF WriteStep
  <2>6. QED
    BY <1>n, <2>1, <2>2, <2>3, <2>4, <2>5, AfterStepNode
<1>4. CASE WriteHold
  <2>1. PICK n \in 1..Amount : k = n
    BY <1>4 DEF WriteHold, HoldIsOfStep, TypeOK
  <2>2. StepsWritten(n) /\ HoldsWritten(n - 1)
    BY <1>4, <2>1 DEF LoadInv, WriteHold
  <2>3. HoldsWritten(n)'
    BY <1>4, <2>1, <2>2, HoldWritten
  <2>4. Advance /\ UNCHANGED <<steps, request, settled>> /\ settled = FALSE /\ HasHold
    BY <1>4, <1>s, <1>h DEF WriteHold
  <2>5. QED
    BY <2>1, <2>2, <2>3, <2>4, AfterHoldNode
<1>5. CASE WriteRest
  <2>1. PICK n \in 1..Amount : k = n
    BY <1>5 DEF WriteRest, TypeOK
  <2>2. StepsWritten(n - 1) /\ HoldsWritten(n - 1)
    BY <1>5, <2>1 DEF LoadInv, WriteRest
  <2>3. StepsWritten(n)'
    BY <1>5, <2>1, <2>2, RestWritten
  <2>4. last >= 1
    BY <1>5, RequestIsSeq DEF WriteRest, last
  <2>5. AfterStep /\ UNCHANGED <<holds, request, settled>> /\ settled = FALSE
    BY <1>5, <1>s DEF WriteRest
  <2>6. QED
    BY <1>n, <2>1, <2>2, <2>3, <2>4, <2>5, AfterStepNode
<1>6. CASE WriteRestHold
  <2>1. PICK n \in 1..Amount : k = n
    BY <1>6 DEF WriteRestHold, HoldIsOfStep, TypeOK
  <2>2. StepsWritten(n) /\ HoldsWritten(n - 1)
    BY <1>6, <2>1 DEF LoadInv, WriteRestHold
  <2>3. last >= 1
    BY <1>6, RequestIsSeq DEF WriteRestHold, HoldIsOfStep, last
  <2>4. HoldsWritten(n)'
    BY <1>6, <2>1, <2>2, <2>3, RestHoldWritten
  <2>5. Advance /\ UNCHANGED <<steps, request, settled>> /\ settled = FALSE /\ HasHold
    BY <1>6, <1>s, <1>h DEF WriteRestHold
  <2>6. QED
    BY <2>1, <2>2, <2>4, <2>5, AfterHoldNode
<1>7. CASE WriteDelays
  <2>1. k - 1 = Amount /\ last <= Amount /\ phase' = "idle"
        /\ UNCHANGED <<steps, holds, request>>
    BY <1>7, AmountIsNat DEF WriteDelays, last
  <2>2. StepsWritten(Amount) /\ HoldsWritten(Amount)
    BY <1>7, <2>1 DEF LoadInv, WriteDelays
  <2>3. StepsWritten(Amount)' /\ HoldsWritten(Amount)' /\ (last <= Amount)'
    BY <2>1, <2>2 DEF StepsWritten, HoldsWritten, last
  <2>4. NoHoldNodes'
    BY <1>n, <2>1 DEF NoHoldNodes
  <2>5. QED
    BY <2>1, <2>3, <2>4 DEF LoadInv
<1>8. CASE LoadRaises \/ CallRaises
  <2>1. phase # "idle" /\ LoadEnds
    BY <1>8 DEF LoadRaises, CallRaises
  <2>2. phase' = "idle" /\ holds' = holds /\ settled' = FALSE
    BY <1>s, <2>1 DEF LoadEnds, mcs
  <2>3. NoHoldNodes'
    BY <1>n, <2>2 DEF NoHoldNodes
  <2>4. QED
    BY <2>2, <2>3 DEF LoadInv
<1>9. CASE UNCHANGED vars
  BY <1>9 DEF vars, mcs, LoadInv, NoHoldNodes, StepsWritten, HoldsWritten, last
<1>10. QED
  BY <1>1, <1>2, <1>3, <1>4, <1>5, <1>6, <1>7, <1>8, <1>9 DEF Next

\* A fresh MCS and an idle adapter are well typed.
LEMMA TypeInit == Init => TypeOK /\ HoldIsOfStep
<1> SUFFICES ASSUME Init PROVE TypeOK /\ HoldIsOfStep
  OBVIOUS
<1>1. Closed \in [Outputs -> {0, 1}]
  BY DEF Closed
<1>2. 1 \in 1..Amount + 1 /\ 0 \in 0..MaxLoads
  BY AmountIsNat, MaxLoadsIsNat
<1>3. delays \in [1..DelayLen -> Int] /\ delay_arr = delays
  BY DEF Init
<1>4. steps \in [1..Amount -> [Outputs -> {0, 1}]] /\ holds = steps
  BY <1>1 DEF Init
<1>5. QED
  BY <1>2, <1>3, <1>4 DEF Init, TypeOK, HoldIsOfStep

\* Nothing is written yet, and all hold nodes are closed.
LEMMA LoadInit == Init => LoadInv
<1> SUFFICES ASSUME Init PROVE LoadInv
  OBVIOUS
<1>1. phase = "idle" /\ settled = FALSE
  BY DEF Init
<1>2. \A i \in 1..Amount : holds[i] = Closed
  BY DEF Init
<1>3. QED
  BY <1>1, <1>2 DEF LoadInv, NoHoldNodes

\* The variables of a load stay in their types: no write goes to a node the MCS
\* does not have, and every element stays a bit, whatever a browser sends.
THEOREM TypeCorrect == Spec => []TypeOK
BY TypeInit, TypeStep, PTL DEF Spec

\* What a load has written so far, in every reachable state.
LEMMA Loading == Spec => [](TypeOK /\ LoadInv)
<1>1. Init => TypeOK /\ HoldIsOfStep /\ LoadInv
  BY TypeInit, LoadInit
<1>2. TypeOK /\ HoldIsOfStep /\ LoadInv /\ [Next]_vars => (TypeOK /\ HoldIsOfStep /\ LoadInv)'
  BY TypeStep, LoadStep
<1>3. QED
  BY <1>1, <1>2, PTL DEF Spec

\* After every load that ended, the step behind the last one repeats it and all
\* others are closed, for any sequence and any number of steps (client.py 348-398).
THEOREM LastStepHolds == Spec => []EndHolds
<1>1. TypeOK /\ LoadInv => EndHolds
  <2> SUFFICES ASSUME TypeOK, LoadInv, settled, NEW i \in last + 1 .. Amount
               PROVE  IF i = last + 1
                      THEN steps[i] = steps[last] /\ holds[i] = holds[last]
                      ELSE steps[i] = Closed /\ holds[i] = Closed
    BY DEF EndHolds, last
  <2>1. i \in 1..Amount /\ i > last
    BY RequestIsSeq, AmountIsNat
  <2>2. StepsWritten(Amount) /\ HoldsWritten(Amount)
    BY DEF LoadInv
  <2>3. steps[i] = IF i = last + 1 THEN steps[last] ELSE Closed
    BY <2>1, <2>2 DEF StepsWritten
  <2>4. holds[i] = IF i = last + 1 THEN holds[last] ELSE Closed
    BY <2>1, <2>2 DEF HoldsWritten
  <2>5. QED
    BY <2>3, <2>4
<1>2. QED
  BY <1>1, Loading, PTL

\* After every load that ended, of values the MCS can keep, no valve is told to
\* open and to hold in one step (client.py 323-334, 389-394).
THEOREM NeverOpenAndHold == Spec => []OpenOrHold
<1>1. TypeOK /\ LoadInv => OpenOrHold
  <2> SUFFICES ASSUME TypeOK, LoadInv, settled, NEW i \in 1..Amount, NEW o \in Outputs,
                      \A j \in DOMAIN request, p \in Outputs :
                        request[j].outputs[p] \in Encodable
               PROVE  ~(steps[i][o] = 1 /\ holds[i][o] = 1)
    BY DEF OpenOrHold
  <2>1. StepsWritten(Amount) /\ HoldsWritten(Amount) /\ last <= Amount
    BY DEF LoadInv
  <2>2. last \in Nat /\ DOMAIN request = 1..last
    BY RequestIsSeq
  <2>3. ASSUME NEW j \in 1..Amount, j <= last
        PROVE  ~(steps[j][o] = 1 /\ holds[j][o] = 1)
    <3>1. request[j].outputs[o] \in Encodable
      BY <2>2, <2>3
    <3>2. steps[j][o] = 1 => request[j].outputs[o] = 1
      BY <2>1, <2>3, <3>1 DEF StepsWritten
    <3>3. holds[j][o] = 1 => request[j].outputs[o] = 2
      BY <2>1, <2>3, <3>1 DEF HoldsWritten
    <3>4. QED
      BY <3>2, <3>3
  <2>4. CASE i <= last
    BY <2>3, <2>4
  <2>5. CASE i = last + 1
    <3>1. last \in 1..Amount
      BY <2>1, <2>2, <2>5 DEF StepsWritten
    <3>2. steps[i] = steps[last] /\ holds[i] = holds[last]
      BY <2>1, <2>2, <2>5 DEF StepsWritten, HoldsWritten
    <3>3. ~(steps[last][o] = 1 /\ holds[last][o] = 1)
      BY <2>3, <3>1
    <3>4. QED
      BY <3>2, <3>3
  <2>6. CASE i > last + 1
    <3>1. steps[i] = Closed
      BY <2>1, <2>2, <2>6 DEF StepsWritten
    <3>2. Closed[o] = 0
      BY DEF Closed
    <3>3. QED
      BY <3>1, <3>2
  <2>7. QED
    BY <2>2, <2>4, <2>5, <2>6
<1>2. QED
  BY <1>1, Loading, PTL

-----------------------------------------------------------------------------
(***************************************************************************)
(* SequenceLoad implements SequenceStore.  A download reads up to the      *)
(* first duration 0, so the proof is about the delay vector: it is nonzero *)
(* up to the end of a program and zero behind it, in the MCS always and in *)
(* the load's copy once the load has passed the element.                   *)
(***************************************************************************)
Profile(d, n) ==
  /\ n \in 1..Amount - 1
  /\ \A i \in 2..n : d[i] > 0
  /\ \A i \in n + 1..DelayLen : d[i] = 0

\* The durations of the first n steps, as the load's copy has them.  The last step
\* node has none, whatever the request says.
DelaysWritten(n) ==
  \A i \in 1..n : i <= DelayLen =>
    delay_arr[i] = IF i <= last /\ i # Amount THEN request[i].time ELSE 0

LastIsZero == DelayLen = Amount => delays[Amount] = 0 /\ delay_arr[Amount] = 0

ProgramInv ==
  /\ \E n \in 1..Amount - 1 : Profile(delays, n)
  /\ LastIsZero
  /\ phase # "idle" => Accepted(request)
  /\ phase = "step" => DelaysWritten(k - 1)
  /\ phase = "hold" => DelaysWritten(k)

\* A request that passed the checks has positive durations at its indices.
LEMMA AcceptedTimes ==
  ASSUME TypeOK, Accepted(request)
  PROVE  \A i \in 1..last : request[i].time \in Int /\ request[i].time > 0
BY RequestIsSeq DEF Accepted

LEMMA Sizes ==
  /\ Amount \in Nat /\ Amount >= 2 /\ DelayLen \in Nat
  /\ DelayLen = Amount - 1 \/ DelayLen = Amount
BY AmountAssumption

\* An element of the delay vector's copy is written with that of its step node.
LEMMA DelayWritten ==
  ASSUME TypeOK, NEW n \in 1..Amount, k = n, DelaysWritten(n - 1), LastIsZero,
         WriteStep \/ WriteRest
  PROVE  DelaysWritten(n)' /\ LastIsZero'
<1> USE Sizes
<1>1. UNCHANGED <<delays, request>> /\ last' = last /\ last \in Nat
  BY RequestIsSeq DEF WriteStep, WriteRest, last
<1>2. DelayLen = Amount /\ n # Amount => delay_arr'[Amount] = delay_arr[Amount]
  BY DEF WriteStep, WriteRest, TypeOK
<1>3. n <= DelayLen => delay_arr'[n] = IF n <= last /\ n # Amount THEN request[n].time ELSE 0
  <2>1. CASE WriteStep
    BY <2>1 DEF WriteStep, TypeOK, LastIsZero, last
  <2>2. CASE WriteRest
    BY <2>2, <1>1 DEF WriteRest, TypeOK, last
  <2>3. QED
    BY <2>1, <2>2
<1>4. \A i \in 1..n - 1 : i <= DelayLen => delay_arr'[i] = delay_arr[i]
  BY DEF WriteStep, WriteRest, TypeOK
<1>5. DelaysWritten(n)'
  <2> SUFFICES ASSUME NEW i \in 1..n, i <= DelayLen
               PROVE  delay_arr'[i] = IF i <= last /\ i # Amount THEN request[i].time ELSE 0
    BY <1>1 DEF DelaysWritten
  <2>1. CASE i = n
    BY <1>3, <2>1
  <2>2. CASE i # n
    BY <1>4, <2>2 DEF DelaysWritten
  <2>3. QED
    BY <2>1, <2>2
<1>6. LastIsZero'
  BY <1>1, <1>2, <1>3 DEF LastIsZero
<1>7. QED
  BY <1>5, <1>6

\* When the load installs the durations, they are those of its steps, as many as the
\* MCS can keep, and zeros.
LEMMA DelaysInstalled ==
  ASSUME TypeOK, LoadInv, ProgramInv, WriteDelays
  PROVE  /\ last \in 1..Amount
         /\ Profile(delay_arr, Store!Smaller(last, Amount - 1))
         /\ \A i \in 1..Store!Smaller(last, Amount - 1) : delay_arr[i] = request[i].time
<1> USE Sizes
<1>1. DelaysWritten(Amount) /\ StepsWritten(Amount) /\ last <= Amount
  <2>1. phase = "step" /\ k - 1 = Amount /\ last <= Amount
    BY DEF WriteDelays, last
  <2>2. QED
    BY <2>1 DEF ProgramInv, LoadInv
<1>2. last \in 1..Amount
  <2>1. last \in Nat
    BY RequestIsSeq
  <2>2. CASE last = 0
    <3>1. 1 \in 1..Amount /\ 1 > last
      BY <2>2
    <3>2. last >= 1
      BY <1>1, <3>1 DEF StepsWritten
    <3>3. QED
      BY <2>2, <3>2
  <2>3. QED
    BY <1>1, <2>1, <2>2
<1>3. \A i \in 1..last : request[i].time \in Int /\ request[i].time > 0
  BY AcceptedTimes DEF ProgramInv, WriteDelays
<1> DEFINE n == Store!Smaller(last, Amount - 1)
<1>4. n \in 1..Amount - 1 /\ n <= last /\ (n = last \/ n = Amount - 1)
  BY <1>2 DEF Store!Smaller
<1> HIDE DEF n
<1>5. \A i \in 1..n : delay_arr[i] = request[i].time
  <2> TAKE i \in 1..n
  <2>1. i \in 1..Amount /\ i <= DelayLen /\ i <= last /\ i # Amount
    BY <1>2, <1>4
  <2>2. QED
    BY <1>1, <2>1 DEF DelaysWritten
<1>6. \A i \in n + 1..DelayLen : delay_arr[i] = 0
  <2> TAKE i \in n + 1..DelayLen
  <2>1. i \in 1..Amount /\ i <= DelayLen /\ (i > last \/ i = Amount)
    BY <1>2, <1>4
  <2>2. QED
    BY <1>1, <1>2, <2>1 DEF DelaysWritten
<1>7. \A i \in 2..n : delay_arr[i] > 0
  BY <1>2, <1>3, <1>4, <1>5
<1>8. Profile(delay_arr, n)
  BY <1>4, <1>6, <1>7 DEF Profile
<1>9. QED
  BY <1>2, <1>5, <1>8 DEF n

LEMMA ProgramInit == Init => ProgramInv
<1> SUFFICES ASSUME Init PROVE ProgramInv
  OBVIOUS
<1> USE Sizes
<1>1. Profile(delays, 1)
  BY DEF Init, Profile
<1>2. LastIsZero /\ phase = "idle"
  BY DEF Init, LastIsZero
<1>3. QED
  BY <1>1, <1>2 DEF ProgramInv

LEMMA ProgramStep ==
  TypeOK /\ HoldIsOfStep /\ LoadInv /\ ProgramInv /\ [Next]_vars => ProgramInv'
<1> SUFFICES ASSUME TypeOK, HoldIsOfStep, LoadInv, ProgramInv, [Next]_vars
             PROVE  ProgramInv'
  OBVIOUS
<1> USE Sizes
<1>d. UNCHANGED delays => (\E n \in 1..Amount - 1 : Profile(delays, n))'
  BY DEF ProgramInv, Profile
<1>a. \A n \in 1..Amount : AfterStep /\ k = n /\ DelaysWritten(n)' =>
        /\ phase' = "step" => DelaysWritten(k - 1)'
        /\ phase' = "hold" => DelaysWritten(k)'
  <2> TAKE n \in 1..Amount
  <2> SUFFICES ASSUME AfterStep, k = n, DelaysWritten(n)'
               PROVE  /\ phase' = "step" => DelaysWritten(k - 1)'
                      /\ phase' = "hold" => DelaysWritten(k)'
    OBVIOUS
  <2>1. phase' = "step" => k' - 1 = n
    BY DEF AfterStep, Advance
  <2>2. phase' = "hold" => k' = n
    BY DEF AfterStep, Advance
  <2>3. QED
    BY <2>1, <2>2
<1>1. ASSUME NEW s \in Requests, BeginLoad(s) PROVE ProgramInv'
  <2>1. /\ request' = s /\ Accepted(s) /\ delay_arr' = delays /\ delays' = delays
        /\ phase' = "step" /\ k' = 1
    BY <1>1 DEF BeginLoad, mcs
  <2>2. DelaysWritten(0)' /\ k' - 1 = 0
    BY <2>1 DEF DelaysWritten
  <2>3. DelaysWritten(k - 1)'
    BY <2>2
  <2>4. LastIsZero' /\ Accepted(request)'
    BY <2>1 DEF ProgramInv, LastIsZero, Accepted
  <2>5. QED
    BY <1>d, <2>1, <2>3, <2>4 DEF ProgramInv
<1>2. ASSUME NEW s \in Requests, Reject(s) PROVE ProgramInv'
  BY <1>2 DEF Reject, mcs, ProgramInv, Profile, LastIsZero, Accepted, DelaysWritten, last
<1>3. CASE WriteStep \/ WriteRest
  <2>1. PICK n \in 1..Amount : k = n
    BY <1>3 DEF WriteStep, WriteRest, TypeOK
  <2>2. DelaysWritten(n - 1) /\ LastIsZero /\ Accepted(request)
    BY <1>3, <2>1 DEF ProgramInv, WriteStep, WriteRest
  <2>3. DelaysWritten(n)' /\ LastIsZero'
    BY <1>3, <2>1, <2>2, DelayWritten
  <2>4. AfterStep /\ UNCHANGED <<delays, request>>
    BY <1>3 DEF WriteStep, WriteRest
  <2>5. Accepted(request)'
    BY <2>2, <2>4 DEF Accepted
  <2>6. QED
    BY <1>a, <1>d, <2>1, <2>3, <2>4, <2>5 DEF ProgramInv
<1>4. CASE WriteHold \/ WriteRestHold
  <2>1. PICK n \in 1..Amount : k = n
    BY <1>4 DEF WriteHold, WriteRestHold, HoldIsOfStep, TypeOK
  <2>2. DelaysWritten(n) /\ LastIsZero /\ Accepted(request)
    BY <1>4, <2>1 DEF ProgramInv, WriteHold, WriteRestHold
  <2>3. UNCHANGED <<delays, request, delay_arr>> /\ phase' = "step" /\ k' - 1 = n
    BY <1>4, <2>1 DEF WriteHold, WriteRestHold, Advance
  <2>4. DelaysWritten(n)' /\ LastIsZero' /\ Accepted(request)'
    BY <2>2, <2>3 DEF DelaysWritten, LastIsZero, Accepted, last
  <2>5. DelaysWritten(k - 1)'
    BY <2>3, <2>4
  <2>6. QED
    BY <1>d, <2>3, <2>4, <2>5 DEF ProgramInv
<1>5. CASE WriteDelays
  <2>1. delays' = delay_arr /\ delay_arr' = delay_arr /\ phase' = "idle"
    BY <1>5 DEF WriteDelays
  <2>2. Profile(delay_arr, Store!Smaller(last, Amount - 1))
    BY <1>5, DelaysInstalled
  <2>3. Store!Smaller(last, Amount - 1) \in 1..Amount - 1
    BY <2>2 DEF Profile
  <2>4. (\E n \in 1..Amount - 1 : Profile(delays, n))'
    BY <2>1, <2>2, <2>3 DEF Profile
  <2>5. LastIsZero'
    BY <2>1 DEF ProgramInv, LastIsZero
  <2>6. QED
    BY <2>1, <2>4, <2>5 DEF ProgramInv
<1>6. CASE LoadRaises \/ CallRaises
  <2>1. phase' = "idle" /\ UNCHANGED <<delays, delay_arr>>
    BY <1>6 DEF LoadRaises, CallRaises, LoadEnds, mcs
  <2>2. QED
    BY <1>d, <2>1 DEF ProgramInv, LastIsZero
<1>7. CASE UNCHANGED vars
  BY <1>7 DEF vars, mcs, ProgramInv, Profile, LastIsZero, Accepted, DelaysWritten, last
<1>8. QED
  BY <1>1, <1>2, <1>3, <1>4, <1>5, <1>6, <1>7 DEF Next

-----------------------------------------------------------------------------
\* A download reads as many steps as have a duration.
LEMMA LengthRead ==
  ASSUME NEW d, NEW n, Profile(d, n)
  PROVE  /\ n \in 1..DelayLen
         /\ n = CHOOSE m \in 1..DelayLen :
                  /\ \A i \in 2..m : d[i] # 0
                  /\ m < DelayLen => d[m + 1] = 0
<1> USE Sizes
<1>1. n \in 1..DelayLen /\ n \in Nat
  BY DEF Profile
<1>2. \A i \in 2..n : d[i] # 0
  BY DEF Profile
<1>3. n < DelayLen => d[n + 1] = 0
  BY <1>1 DEF Profile
<1>4. ASSUME NEW m \in 1..DelayLen, \A i \in 2..m : d[i] # 0, m < DelayLen => d[m + 1] = 0
      PROVE  m = n
  <2>1. CASE m < n
    BY <1>1, <1>2, <1>4, <2>1
  <2>2. CASE m > n
    BY <1>1, <1>3, <1>4, <2>2
  <2>3. QED
    BY <1>1, <2>1, <2>2
<1>5. QED
  BY <1>1, <1>2, <1>3, <1>4

Entry(i) == [time |-> delays[i], outputs |-> [o \in Outputs |-> ReadOutput(i, o)]]

LEMMA ProgramRead ==
  ASSUME NEW n, Profile(delays, n)
  PROVE  Download = [i \in 1..n |-> Entry(i)]
<1>1. DownloadLen = n
  BY LengthRead DEF DownloadLen
<1>2. QED
  BY <1>1 DEF Download, Entry

LEMMA ProgramReadNext ==
  ASSUME NEW n, Profile(delays', n)
  PROVE  Download' = [i \in 1..n |-> Entry(i)']
<1>1. DownloadLen' = n
  BY LengthRead DEF DownloadLen
<1>2. QED
  BY <1>1 DEF Download, Entry

\* What a download makes of a valve's bits: open is open.
LEMMA ReadBits ==
  ASSUME TypeOK, NEW i \in 1..Amount, NEW o \in Outputs
  PROVE  ReadOutput(i, o) \in {0, 1, 2} /\ (ReadOutput(i, o) = 1 <=> steps[i][o] = 1)
<1>1. steps[i][o] \in {0, 1}
  BY DEF TypeOK
<1>2. QED
  BY <1>1 DEF ReadOutput

LEMMA OtherOutputs ==
  ASSUME NEW t, NEW a, NEW b, NEW e, e = [time |-> t, outputs |-> a]
  PROVE  [e EXCEPT !.outputs = b] = [time |-> t, outputs |-> b]
OBVIOUS

\* A load that writes the nodes of step j, and opens no valve there that neither
\* program opens, revises that step or one no download reads.
LEMMA OneStepRevised ==
  ASSUME TypeOK, TypeOK', ProgramInv, NEW j \in 1..Amount,
         UNCHANGED <<delays, request>>, phase # "idle", phase' # "idle",
         \A i \in 1..Amount : i # j => steps'[i] = steps[i] /\ holds'[i] = holds[i],
         \A o \in Outputs : steps'[j][o] = 1 =>
           \/ steps[j][o] = 1
           \/ j <= last /\ request[j].outputs[o] = 1
           \/ j > 1 /\ j = last + 1 /\ steps[j - 1][o] = 1
  PROVE  [Store!Next]_(Store!vars)
<1> USE Sizes
<1>1. PICK n \in 1..Amount - 1 : Profile(delays, n)
  BY DEF ProgramInv
<1>2. Profile(delays', n)
  BY <1>1 DEF Profile
<1>3. /\ Download = [i \in 1..n |-> Entry(i)]
      /\ Download' = [i \in 1..n |-> Entry(i)']
  BY <1>1, <1>2, ProgramRead, ProgramReadNext
<1>4. \A i \in 1..n : i \in 1..Amount
  OBVIOUS
<1>5. \A i \in 1..n : i # j => Entry(i)' = Entry(i)
  BY <1>4 DEF Entry, ReadOutput
<1>6. CASE j \notin 1..n
  <2>1. Download' = Download
    BY <1>3, <1>5, <1>6
  <2>2. QED
    BY <2>1 DEF Store!vars
<1>7. CASE j \in 1..n
  <2> DEFINE new == [o \in Outputs |-> ReadOutput(j, o)']
  <2>1. new \in [Outputs -> {0, 1, 2}]
    <3>1. \A o \in Outputs : ReadOutput(j, o)' \in {0, 1, 2}
      BY ReadBits DEF ReadOutput, TypeOK
    <3>2. QED
      BY <3>1
  <2>2. Entry(j)' = [Entry(j) EXCEPT !.outputs = new]
    <3>1. Entry(j)' = [time |-> delays[j], outputs |-> new]
      BY DEF Entry
    <3> HIDE DEF new
    <3>2. [Entry(j) EXCEPT !.outputs = new] = [time |-> delays[j], outputs |-> new]
      <4>1. Entry(j) = [time |-> delays[j], outputs |-> [o \in Outputs |-> ReadOutput(j, o)]]
        BY DEF Entry
      <4>2. QED
        BY <4>1, OtherOutputs
    <3>3. QED
      BY <3>1, <3>2
  <2>3. Download' = [Download EXCEPT ![j].outputs = new]
    <3>1. [Download EXCEPT ![j].outputs = new]
            = [i \in 1..n |-> IF i = j THEN [Entry(j) EXCEPT !.outputs = new] ELSE Entry(i)]
      BY <1>3, <1>7
    <3> HIDE DEF new
    <3>2. QED
      BY <1>3, <1>5, <2>2, <3>1
  <2>4. \A i \in 1..n, o \in Outputs : Download[i].outputs[o] = 1 <=> steps[i][o] = 1
    BY <1>3, <1>4, ReadBits DEF Entry
  <2>5. ASSUME NEW o \in Outputs, new[o] = Store!Open
        PROVE  Download[j].outputs[o] = Store!Open \/ Store!MayOpen(j, o)
    <3>1. steps'[j][o] = 1
      <4>1. steps'[j][o] \in {0, 1} /\ ReadOutput(j, o)' = 1
        BY <2>5 DEF TypeOK, Store!Open
      <4>2. QED
        BY <4>1 DEF ReadOutput
    <3>2. CASE steps[j][o] = 1
      BY <1>7, <2>4, <3>2 DEF Store!Open
    <3>3. CASE j <= last /\ request[j].outputs[o] = 1
      BY <3>3 DEF Store!MayOpen, Store!Open, last
    <3>4. CASE j > 1 /\ j = last + 1 /\ steps[j - 1][o] = 1
      <4>1. j - 1 \in 1..n
        BY <1>7, <3>4
      <4>2. Download[j - 1].outputs[o] = 1
        BY <2>4, <3>4, <4>1
      <4>3. QED
        BY <3>4, <4>2 DEF Store!MayOpen, Store!Open, last
    <3>5. QED
      BY <3>1, <3>2, <3>3, <3>4
  <2>6. DOMAIN Download = 1..n
    BY <1>3
  <2>7. Store!Revise(j)
    <3> HIDE DEF new
    <3>1. QED
      BY <2>1, <2>3, <2>5 DEF Store!Revise, Store!Open
  <2>8. QED
    BY <1>7, <2>6, <2>7 DEF Store!Next
<1>8. QED
  BY <1>6, <1>7

\* When a load ends, the program reads as the request up to what the MCS can keep.
LEMMA CommitStep ==
  ASSUME TypeOK, LoadInv, ProgramInv, WriteDelays
  PROVE  Store!Commit
<1> USE Sizes
<1> DEFINE n == Store!Smaller(last, Amount - 1)
<1>1. /\ last \in 1..Amount
      /\ Profile(delay_arr, n)
      /\ \A i \in 1..n : delay_arr[i] = request[i].time
  BY DelaysInstalled
<1>2. n \in 1..Amount - 1 /\ n <= last
  BY <1>1 DEF Store!Smaller
<1> HIDE DEF n
<1>3. /\ delays' = delay_arr /\ UNCHANGED <<steps, holds, request>>
      /\ phase = "step" /\ k - 1 = Amount /\ phase' = "idle"
  BY DEF WriteDelays
<1>4. StepsWritten(Amount) /\ HoldsWritten(Amount) /\ NoHoldNodes
  BY <1>3 DEF LoadInv
<1>5. Download' = [i \in 1..n |-> Entry(i)']
  BY <1>1, <1>3, ProgramReadNext
<1>6. Store!Readable(request) = [i \in 1..n |-> request[i]]
  <2>0. request # <<>>
    BY <1>1 DEF last
  <2>1. request \in Seq({request[i] : i \in DOMAIN request})
    BY <2>0, RequestsAreSequences DEF TypeOK
  <2>2. Store!Readable(request) = SubSeq(request, 1, n)
    BY DEF Store!Readable, n, last
  <2>3. QED
    BY <1>1, <1>2, <2>1, <2>2 DEF last
<1>7. Len(Download') = n /\ Len(Store!Readable(request)) = n
      /\ DOMAIN Store!Readable(request) = 1..n
  BY <1>2, <1>5, <1>6
<1>8. ASSUME NEW i \in 1..n
      PROVE  /\ Download'[i].time = request[i].time
             /\ \A o \in Outputs : request[i].outputs[o] \in Encodable =>
                  Download'[i].outputs[o] = request[i].outputs[o]
  <2>1. Download'[i] = Entry(i)' /\ i \in 1..Amount /\ i <= last
    BY <1>1, <1>2, <1>5
  <2>2. Download'[i].time = request[i].time
    BY <1>1, <1>3, <2>1 DEF Entry
  <2>3. ASSUME NEW o \in Outputs, request[i].outputs[o] \in Encodable
        PROVE  Download'[i].outputs[o] = request[i].outputs[o]
    <3>1. Download'[i].outputs[o] = ReadOutput(i, o)
      BY <1>3, <2>1 DEF Entry, ReadOutput
    <3>2. steps[i][o] \in {0, 1} /\ (steps[i][o] = 1 <=> request[i].outputs[o] = 1)
      BY <1>4, <2>1, <2>3 DEF StepsWritten, TypeOK
    <3>3. holds[i][o] = 1 <=> request[i].outputs[o] = 2
      BY <1>4, <2>1, <2>3 DEF HoldsWritten
    <3>4. ReadOutput(i, o) = request[i].outputs[o]
      BY <2>3, <3>2, <3>3 DEF ReadOutput, Encodable
    <3>5. QED
      BY <3>1, <3>4
  <2>4. QED
    BY <2>2, <2>3
<1>9. Store!Stores(Download', Store!Readable(request))
  BY <1>6, <1>7, <1>8 DEF Store!Stores
<1>10. QED
  BY <1>3, <1>9 DEF Store!Commit

\* Every step of a load is a step of the abstract one, or none.
LEMMA StoreStep ==
  ASSUME TypeOK, TypeOK', HoldIsOfStep, LoadInv, ProgramInv, [Next]_vars
  PROVE  [Store!Next]_(Store!vars)
<1> USE Sizes
<1>1. ASSUME NEW s \in Requests, BeginLoad(s) PROVE [Store!Next]_(Store!vars)
  <2>1. /\ phase = "idle" /\ phase' = "step" /\ request' = s /\ Accepted(s)
        /\ UNCHANGED <<delays, steps, holds>>
    BY <1>1 DEF BeginLoad, mcs
  <2>2. Download' = Download
    BY <2>1 DEF Download, DownloadLen, ReadOutput
  <2>3. Store!Acceptable(s)
    BY <2>1 DEF Accepted, Store!Acceptable
  <2>4. Store!Begin
    BY <2>1, <2>2, <2>3 DEF Store!Begin
  <2>5. QED
    BY <2>4 DEF Store!Next
<1>a. UNCHANGED <<mcs, request, phase>> => UNCHANGED Store!vars
  BY DEF Store!vars, mcs, Download, DownloadLen, ReadOutput
<1>2. ASSUME NEW s \in Requests, Reject(s) PROVE [Store!Next]_(Store!vars)
  BY <1>2, <1>a DEF Reject
<1>3. CASE WriteStep
  <2>1. PICK j \in 1..Amount : k = j /\ j <= last
    BY <1>3 DEF WriteStep, TypeOK, last
  <2>2. UNCHANGED <<delays, request, holds>> /\ phase # "idle" /\ phase' # "idle"
    BY <1>3 DEF WriteStep, AfterStep, Advance
  <2>3. \A i \in 1..Amount : i # j => steps'[i] = steps[i] /\ holds'[i] = holds[i]
    BY <1>3, <2>1, <2>2 DEF WriteStep, TypeOK
  <2>4. \A o \in Outputs : steps'[j][o] = StepBit(request[j].outputs[o], steps[j][o])
    BY <1>3, <2>1 DEF WriteStep, TypeOK
  <2>5. \A o \in Outputs : steps'[j][o] = 1 => steps[j][o] = 1 \/ request[j].outputs[o] = 1
    BY <2>4 DEF StepBit
  <2>6. QED
    BY <2>1, <2>2, <2>3, <2>5, OneStepRevised
<1>4. CASE WriteRest
  <2>1. PICK j \in 1..Amount : k = j /\ j > last /\ last >= 1
    BY <1>4, RequestIsSeq DEF WriteRest, TypeOK, last
  <2>2. UNCHANGED <<delays, request, holds>> /\ phase # "idle" /\ phase' # "idle"
    BY <1>4 DEF WriteRest, AfterStep, Advance
  <2>3. \A i \in 1..Amount : i # j => steps'[i] = steps[i] /\ holds'[i] = holds[i]
    BY <1>4, <2>1, <2>2 DEF WriteRest, TypeOK
  <2>4. steps'[j] = IF j = last + 1 THEN steps[last] ELSE Closed
    BY <1>4, <2>1 DEF WriteRest, TypeOK, last
  <2>5. \A o \in Outputs : steps'[j][o] = 1 => j > 1 /\ j = last + 1 /\ steps[j - 1][o] = 1
    <3>1. CASE j = last + 1
      <4>1. j > 1 /\ j - 1 = last
        BY <2>1, <3>1, RequestIsSeq
      <4>2. QED
        BY <2>4, <3>1, <4>1
    <3>2. CASE j # last + 1
      BY <2>4, <3>2 DEF Closed
    <3>3. QED
      BY <3>1, <3>2
  <2>6. QED
    BY <2>1, <2>2, <2>3, <2>5, OneStepRevised
<1>5. CASE WriteHold \/ WriteRestHold
  <2>1. PICK j \in 1..Amount : k = j
    BY <1>5 DEF WriteHold, WriteRestHold, HoldIsOfStep, TypeOK
  <2>2. UNCHANGED <<delays, request, steps>> /\ phase # "idle" /\ phase' # "idle"
    BY <1>5 DEF WriteHold, WriteRestHold, Advance
  <2>3. \A i \in 1..Amount : i # j => steps'[i] = steps[i] /\ holds'[i] = holds[i]
    BY <1>5, <2>1, <2>2 DEF WriteHold, WriteRestHold, TypeOK
  <2>4. QED
    BY <2>1, <2>2, <2>3, OneStepRevised
<1>6. CASE WriteDelays
  BY <1>6, CommitStep DEF Store!Next
<1>7. CASE LoadRaises \/ CallRaises
  <2>1. phase # "idle" /\ phase' = "idle" /\ UNCHANGED <<mcs, request>>
    BY <1>7 DEF LoadRaises, CallRaises, LoadEnds
  <2>2. Download' = Download
    BY <2>1 DEF mcs, Download, DownloadLen, ReadOutput
  <2>3. QED
    BY <2>1, <2>2 DEF Store!Abandon, Store!Next
<1>8. CASE UNCHANGED vars
  BY <1>8, <1>a DEF vars
<1>9. QED
  BY <1>1, <1>2, <1>3, <1>4, <1>5, <1>6, <1>7, <1>8 DEF Next

\* Seen through downloads, the loads of every sequence are those SequenceStore
\* promises: what was loaded reads back when the load ended, one that failed changed
\* outputs only and opened no valve that neither program opens, and one that was
\* rejected changed nothing (client.py 251-403 against 405-477).
THEOREM LoadsAreStores == Spec => Implements
<1>1. Init => Store!Init
  <2> SUFFICES ASSUME Init PROVE Store!Init
    OBVIOUS
  <2>1. Profile(delays, 1)
    BY Sizes DEF Init, Profile
  <2>2. Download = [i \in 1..1 |-> Entry(i)]
    BY <2>1, ProgramRead
  <2>3. Len(Download) = 1 /\ Download # <<>>
    BY <2>2
  <2>4. QED
    BY <2>3 DEF Init, Store!Init
<1>2. Init => TypeOK /\ HoldIsOfStep /\ LoadInv /\ ProgramInv
  BY TypeInit, LoadInit, ProgramInit
<1>3. TypeOK /\ HoldIsOfStep /\ LoadInv /\ ProgramInv /\ [Next]_vars
        => (TypeOK /\ HoldIsOfStep /\ LoadInv /\ ProgramInv)'
  BY TypeStep, LoadStep, ProgramStep
<1>4. TypeOK /\ TypeOK' /\ HoldIsOfStep /\ LoadInv /\ ProgramInv /\ [Next]_vars
        => [Store!Next]_(Store!vars)
  BY StoreStep
<1>5. QED
  BY <1>1, <1>2, <1>3, <1>4, PTL DEF Spec, Implements, Store!Spec
=============================================================================
