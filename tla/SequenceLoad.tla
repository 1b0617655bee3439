---------------------------- MODULE SequenceLoad -----------------------------
(***************************************************************************)
(* handle_cmd_load_sequence and handle_cmd_download_sequence of            *)
(* adapters/opcua/client.py, for one sequence: its delay vector and its    *)
(* step (and hold) vectors are OPC UA nodes of the MCS, each written by an *)
(* await of its own.  command_task runs one command at a time, so a load   *)
(* interleaves with nothing but the end of the process; the nodes survive. *)
(***************************************************************************)
EXTENDS Integers, Sequences

CONSTANTS
  Outputs,   \* the valves of the sequence (sconfig['outputs'])
  Amount,    \* number of step nodes (paths['amount'])
  DelayLen,  \* length of the MCS's delay vector
  HasHold,   \* does the sequence have hold vectors?
  Requests,  \* the sequences browsers send
  MaxLoads   \* bound: load commands

ASSUME AmountAssumption == Amount \in Nat /\ Amount >= 2 /\ DelayLen \in {Amount - 1, Amount}
ASSUME HasHoldIsBool == HasHold \in BOOLEAN
\* outputs may be over other keys than Outputs, and hold any number.
ASSUME RequestsAreSequences ==
  \A s \in Requests :
    /\ s \in Seq({s[i] : i \in DOMAIN s})
    /\ \A i \in DOMAIN s : s[i].time \in Int
ASSUME MaxLoadsIsNat == MaxLoads \in Nat

VARIABLES
  delays,     \* MCS: the duration of each step
  steps,      \* MCS: per step, 1 for an open valve
  holds,      \* MCS: per step, 1 for a valve that is not driven
  request,    \* the sequence of the latest load that passed its checks
  delay_arr,  \* the load's copy of the delay vector
  phase,      \* what the load writes next: "step", "hold"; "idle" without a load
  k,          \* the step it is at
  settled,    \* history: the latest load ended with its last write
  loads       \* load commands so far

mcs == <<delays, steps, holds>>
vars == <<mcs, request, delay_arr, phase, k, settled, loads>>

Closed == [o \in Outputs |-> 0]

TypeOK ==
  /\ delays \in [1..DelayLen -> Int] /\ delay_arr \in [1..DelayLen -> Int]
  /\ steps \in [1..Amount -> [Outputs -> {0, 1}]]
  /\ holds \in [1..Amount -> [Outputs -> {0, 1}]]
  /\ request \in Requests \cup {<<>>}
  /\ phase \in {"idle", "step", "hold"}
  /\ k \in 1..Amount + 1
  /\ settled \in BOOLEAN
  /\ loads \in 0..MaxLoads

\* A fresh MCS.
Init ==
  /\ delays = [i \in 1..DelayLen |-> 0] /\ delay_arr = delays
  /\ steps = [i \in 1..Amount |-> Closed] /\ holds = steps
  /\ request = <<>> /\ phase = "idle" /\ k = 1
  /\ settled = FALSE /\ loads = 0

\* Every step names exactly the configured outputs and takes some time.
Accepted(s) == \A i \in DOMAIN s : DOMAIN s[i].outputs = Outputs /\ s[i].time > 0

BeginLoad(s) ==
  /\ phase = "idle" /\ loads < MaxLoads
  /\ Accepted(s)
  /\ request' = s
  /\ delay_arr' = delays
  /\ phase' = "step" /\ k' = 1
  /\ settled' = FALSE /\ loads' = loads + 1
  /\ UNCHANGED mcs

\* "rejecting sequence": returns before anything is read or written.
Reject(s) ==
  /\ phase = "idle" /\ loads < MaxLoads
  /\ ~Accepted(s)
  /\ loads' = loads + 1
  /\ UNCHANGED <<mcs, request, delay_arr, phase, k, settled>>

Encodable == IF HasHold THEN {0, 1, 2} ELSE {0, 1}

\* What the code stores for value v; a value it does not know ("Value .. given
\* for valve ..") leaves the element as it was read.
StepBit(v, old) == IF v \in Encodable THEN IF v = 1 THEN 1 ELSE 0 ELSE old
HoldBit(v, old) == IF v \in Encodable THEN IF v = 2 THEN 1 ELSE 0 ELSE old

\* After step k's last write.
Advance == phase' = "step" /\ k' = k + 1
AfterStep == IF HasHold THEN phase' = "hold" /\ k' = k ELSE Advance

\* step_node.write_value; the last step has no element in the delay vector.
WriteStep ==
  /\ phase = "step" /\ k <= Len(request) /\ k <= Amount
  /\ delay_arr' = IF k # Amount THEN [delay_arr EXCEPT ![k] = request[k].time] ELSE delay_arr
  /\ steps' = [steps EXCEPT ![k] = [o \in Outputs |-> StepBit(request[k].outputs[o], @[o])]]
  /\ AfterStep
  /\ UNCHANGED <<delays, holds, request, settled, loads>>

\* Mutant: a hold is set, but not taken back.
MutantKeepHold ==
  /\ phase = "hold" /\ k <= Len(request)
  /\ holds' = [holds EXCEPT ![k] = [o \in Outputs |-> IF request[k].outputs[o] = 2 THEN 1 ELSE @[o]]]
  /\ Advance
  /\ UNCHANGED <<delays, steps, request, delay_arr, settled, loads>>

WriteHold ==
  /\ phase = "hold" /\ k <= Len(request)
  /\ holds' = [holds EXCEPT ![k] = [o \in Outputs |-> HoldBit(request[k].outputs[o], @[o])]]
  /\ Advance
  /\ UNCHANGED <<delays, steps, request, delay_arr, settled, loads>>

\* Mutant: the elements behind the last step keep their durations.
MutantKeepDelays ==
  /\ phase = "step" /\ k > Len(request) /\ request # <<>> /\ k <= Amount
  /\ steps' = [steps EXCEPT ![k] = IF k = Len(request) + 1 THEN steps[Len(request)] ELSE Closed]
  /\ AfterStep
  /\ UNCHANGED <<delays, holds, request, delay_arr, settled, loads>>

\* Behind the last step: durations 0, one copy of the last step, then zeros.
WriteRest ==
  /\ phase = "step" /\ k > Len(request) /\ request # <<>> /\ k <= Amount
  /\ delay_arr' = IF k <= DelayLen THEN [delay_arr EXCEPT ![k] = 0] ELSE delay_arr
  /\ steps' = [steps EXCEPT ![k] = IF k = Len(request) + 1 THEN steps[Len(request)] ELSE Closed]
  /\ AfterStep
  /\ UNCHANGED <<delays, holds, request, settled, loads>>

\* Mutant: the hold vectors behind the last step are all cleared.
MutantClearHolds ==
  /\ phase = "hold" /\ k > Len(request)
  /\ holds' = [holds EXCEPT ![k] = Closed]
  /\ Advance
  /\ UNCHANGED <<delays, steps, request, delay_arr, settled, loads>>

WriteRestHold ==
  /\ phase = "hold" /\ k > Len(request)
  /\ holds' = [holds EXCEPT ![k] = IF k = Len(request) + 1 THEN holds[Len(request)] ELSE Closed]
  /\ Advance
  /\ UNCHANGED <<delays, steps, request, delay_arr, settled, loads>>

\* The last write makes the durations of the new steps valid.
WriteDelays ==
  /\ phase = "step" /\ k = Amount + 1 /\ Len(request) <= Amount
  /\ delays' = delay_arr
  /\ phase' = "idle" /\ k' = 1
  /\ settled' = TRUE
  /\ UNCHANGED <<steps, holds, request, delay_arr, loads>>

\* The process ends; what was written stays.
LoadEnds ==
  /\ phase' = "idle" /\ k' = 1
  /\ UNCHANGED <<mcs, request, delay_arr, settled, loads>>

\* More steps than nodes: IndexError at the first one too many.  No steps:
\* step_arr is unbound when the rest is to be filled.
LoadRaises ==
  /\ phase = "step"
  /\ \/ k <= Len(request) /\ k > Amount
     \/ request = <<>>
  /\ LoadEnds

\* A read or write of a node raises, or the process is killed.
CallRaises == phase # "idle" /\ LoadEnds

Next ==
  \/ \E s \in Requests : BeginLoad(s) \/ Reject(s)
  \/ WriteStep \/ WriteHold \/ WriteRest \/ WriteRestHold \/ WriteDelays
  \/ LoadRaises \/ CallRaises

Spec == Init /\ [][Next]_vars

-----------------------------------------------------------------------------
\* handle_cmd_download_sequence: up to the first duration 0, but at least one
\* step; a valve held and not open reads as 2.
DownloadLen ==
  CHOOSE n \in 1..DelayLen :
    /\ \A i \in 2..n : delays[i] # 0
    /\ n < DelayLen => delays[n + 1] = 0

ReadOutput(i, o) ==
  IF HasHold /\ holds[i][o] = 1 /\ steps[i][o] = 0 THEN 2 ELSE steps[i][o]

Download ==
  [i \in 1..DownloadLen |->
    [time |-> delays[i], outputs |-> [o \in Outputs |-> ReadOutput(i, o)]]]

Store == INSTANCE SequenceStore WITH program <- Download, wanted <- request,
                                     loading <- phase # "idle"

-----------------------------------------------------------------------------
\* Every way a load can go, seen through downloads: what was loaded reads back
\* when the load ended, a failed load changed outputs only and opened nothing
\* that neither program opens, a rejected one changed nothing (client.py
\* 251-403 against 405-477).
Implements == Store!Spec

\* When a program has run out, its last valve states stay in force: the step
\* after the last repeats it, whatever longer program was there (client.py 348-398).
EndHolds ==
  settled =>
    \A i \in Len(request) + 1 .. Amount :
      IF i = Len(request) + 1
      THEN steps[i] = steps[Len(request)] /\ holds[i] = holds[Len(request)]
      ELSE steps[i] = Closed /\ holds[i] = Closed

\* No valve is told to open and to hold in one step once a load ended, whatever
\* an interrupted load left there (client.py 323-334, 389-394).
OpenOrHold ==
  settled /\ (\A i \in DOMAIN request, o \in Outputs : request[i].outputs[o] \in Encodable) =>
    \A i \in 1..Amount, o \in Outputs : ~(steps[i][o] = 1 /\ holds[i][o] = 1)
=============================================================================
