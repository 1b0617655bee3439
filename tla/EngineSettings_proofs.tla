------------------------ MODULE EngineSettings_proofs ------------------------
(* Theorems about EngineSettings for every number of redlines, igniters and      *)
(* sensors, and any sets of requests and calibration tables.                     *)
EXTENDS EngineSettings, TLAPS

USE NumbersAssumption, RequestsAssumption

-----------------------------------------------------------------------------
(* Types, and what the step says of the command and the position.               *)

SendMessages == [type : {"send"}, number : Nat, request : Requests]
CalibMessages == [type : {"calibs"}, number : Nat, rows : Tables]
Messages == SendMessages \cup CalibMessages \cup [type : {"start"}]

RedlineSteps == {"redline", "lower", "upper", "timeout"}
IgniterSteps == {"igniter", "delay", "enabled"}
SendSteps == RedlineSteps \cup {"delays"} \cup IgniterSteps
CalibSteps == {"row", "offset", "slope"}
StartSteps == {"read", "toggle"}
Steps == SendSteps \cup CalibSteps \cup StartSteps \cup {"idle"}

Memories == [limit   : [1 .. NumRedlines -> Int],
             igniter : [1 .. NumIgniters -> Nat],
             calib   : [1 .. NumSensors -> Nat]]

CommandOK ==
  /\ queue \in Seq(Messages)
  /\ cmd \in Messages \cup {NoCmd}
  /\ step \in Steps /\ pos \in Nat \ {0}
  /\ step \in SendSteps => cmd \in SendMessages
  /\ step \in CalibSteps => cmd \in CalibMessages
  /\ step \in StartSteps => cmd \in [type : {"start"}]
  /\ step # "idle" => up
  /\ sends \in Nat

\* Where a command is, and what it has found there.
PlaceOK ==
  /\ step = "redline" => pos <= NumRedlines + 1
  /\ step \in {"lower", "upper", "timeout"} =>
       pos <= NumRedlines /\ cmd.request.redlines[pos] \in {"unsent", "valid"}
  /\ step = "igniter" => pos <= NumIgniters
  /\ step = "delay" => pos <= NumIgniters /\ pos <= Given /\ cmd.request.igniters[pos]
  /\ step = "enabled" => pos = NumIgniters + 1
  /\ step = "row" => pos <= Len(cmd.rows) + 1
  /\ step \in {"offset", "slope"} => pos <= Len(cmd.rows) /\ Here.valid /\ Here.sensor \in HasNodes

NodesOK ==
  /\ up \in BOOLEAN /\ cut \in BOOLEAN
  /\ memory \in Memories
  /\ mcs \in [Cells -> Int] /\ before \in [Cells -> Int]

TriggerOK == trigger \in BOOLEAN /\ looked \in BOOLEAN /\ readVal \in BOOLEAN /\ unseen \in Nat

TypeOK == CommandOK /\ PlaceOK /\ NodesOK /\ TriggerOK

(* A request has a kind for every redline, and a list of igniters that is at     *)
(* most as long as the configuration's.                                          *)
LEMMA RequestParts ==
  ASSUME NEW r \in Requests
  PROVE  /\ r.redlines \in [1 .. NumRedlines -> LimitKinds]
         /\ r.delays \in BOOLEAN
         /\ r.igniters \in Seq(BOOLEAN) /\ Len(r.igniters) <= NumIgniters
<1>1. r \in AllRequests
  OBVIOUS
<1>2. PICK n \in 0 .. NumIgniters : r.igniters \in [1 .. n -> BOOLEAN]
  BY <1>1 DEF AllRequests
<1>3. r.igniters \in Seq(BOOLEAN) /\ Len(r.igniters) = n
  BY <1>2
<1>4. QED
  BY <1>1, <1>3 DEF AllRequests

LEMMA RowParts ==
  ASSUME NEW t \in Tables, NEW i \in 1 .. Len(t)
  PROVE  t[i] \in Row /\ t[i].sensor \in 0 .. NumSensors /\ t[i].valid \in BOOLEAN
<1>1. t \in Seq(Row)
  OBVIOUS
<1>2. t[i] \in Row
  BY <1>1
<1>3. QED
  BY <1>2 DEF Row

LEMMA HeadOfQueue ==
  ASSUME queue \in Seq(Messages), queue # <<>>
  PROVE  Head(queue) \in Messages /\ Tail(queue) \in Seq(Messages)
OBVIOUS

LEMMA TypesInit == Init => TypeOK
<1> SUFFICES ASSUME Init PROVE TypeOK
  OBVIOUS
<1>1. CommandOK
  <2>1. queue \in Seq(Messages) /\ cmd = NoCmd /\ step = "idle" /\ pos = 1 /\ sends = 0
    BY DEF Init
  <2>2. QED
    BY <2>1 DEF CommandOK, Steps, SendSteps, RedlineSteps, IgniterSteps, CalibSteps, StartSteps
<1>2. PlaceOK
  BY DEF Init, PlaceOK
<1>3. NodesOK
  <2>1. Configured \in Memories
    BY DEF Configured, Memories
  <2>2. Initially \in [Cells -> Int]
    BY DEF Initially
  <2>3. QED
    BY <2>1, <2>2 DEF Init, NodesOK
<1>4. TriggerOK
  BY DEF Init, TriggerOK
<1>5. QED
  BY <1>1, <1>2, <1>3, <1>4 DEF TypeOK

(* The steps of a message are those of its type, and only a process that runs is *)
(* at one.                                                                     *)
LEMMA CommandStep == CommandOK /\ [Next]_vars => CommandOK'
<1> SUFFICES ASSUME CommandOK, [Next]_vars PROVE CommandOK'
  OBVIOUS
<1> USE DEF CommandOK, counters, SendSteps, RedlineSteps, IgniterSteps, CalibSteps, StartSteps, Steps
<1>1. CASE Send
  BY <1>1 DEF Send, Message, Messages, SendMessages
<1>2. CASE SendCalibs
  BY <1>2 DEF SendCalibs, Message, Messages, CalibMessages
<1>3. CASE Start
  BY <1>3 DEF Start, Messages
<1>4. CASE Take
  BY <1>4 DEF Take, Messages, SendMessages, CalibMessages
<1>5. CASE Redline
  BY <1>5 DEF Redline, Goes
<1>6. CASE RedlinesEnd
  BY <1>6 DEF RedlinesEnd, Goes
<1>7. CASE RedlineRaises
  BY <1>7 DEF RedlineRaises, Dies
<1>8. CASE WriteLower
  BY <1>8 DEF WriteLower, Goes
<1>9. CASE WriteUpper
  BY <1>9 DEF WriteUpper, Goes
<1>10. CASE WriteTimeout
  BY <1>10 DEF WriteTimeout, Goes
<1>11. CASE WriteDelays
  BY <1>11 DEF WriteDelays, Goes
<1>12. CASE Igniter
  BY <1>12 DEF Igniter, Goes
<1>13. CASE IgniterRejected
  BY <1>13 DEF IgniterRejected, Goes
<1>14. CASE IgniterRaises
  BY <1>14 DEF IgniterRaises, Dies, Given
<1>15. CASE WriteDelay
  BY <1>15 DEF WriteDelay, Goes
<1>16. CASE WriteEnabled
  BY <1>16 DEF WriteEnabled, Goes
<1>17. CASE CalibRow
  BY <1>17 DEF CalibRow, Goes, Sent
<1>18. CASE RowSkipped
  BY <1>18 DEF RowSkipped, Goes
<1>19. CASE RowRejected
  BY <1>19 DEF RowRejected, Goes
<1>20. CASE WriteOffset
  BY <1>20 DEF WriteOffset, Goes
<1>21. CASE WriteSlope
  BY <1>21 DEF WriteSlope, Goes
<1>22. CASE Save
  BY <1>22 DEF Save, Goes
<1>23. CASE ReadTrigger
  BY <1>23 DEF ReadTrigger, Goes
<1>24. CASE WriteTrigger
  BY <1>24 DEF WriteTrigger, Goes
<1>25. CASE Crash
  BY <1>25 DEF Crash, Dies
<1>26. CASE McsLooks
  BY <1>26 DEF McsLooks
<1>27. CASE \E newContainer \in BOOLEAN : Restart(newContainer)
  BY <1>27 DEF Restart
<1>28. CASE UNCHANGED vars
  BY <1>28 DEF vars
<1>29. QED
  BY <1>1, <1>2, <1>3, <1>4, <1>5, <1>6, <1>7, <1>8, <1>9, <1>10, <1>11, <1>12, <1>13, <1>14,
     <1>15, <1>16, <1>17, <1>18, <1>19, <1>20, <1>21, <1>22, <1>23, <1>24, <1>25, <1>26,
     <1>27, <1>28 DEF Next, Command

(* A command is within its message, and its values were checked before it writes. *)
LEMMA PlaceStep == CommandOK /\ PlaceOK /\ [Next]_vars => PlaceOK'
<1> SUFFICES ASSUME CommandOK, PlaceOK, [Next]_vars PROVE PlaceOK'
  OBVIOUS
<1> USE DEF CommandOK, PlaceOK, Given, Here, counters, SendSteps, RedlineSteps, IgniterSteps, CalibSteps, StartSteps, Steps
<1>1. CASE Send
  BY <1>1 DEF Send, Message, Messages, SendMessages
<1>2. CASE SendCalibs
  BY <1>2 DEF SendCalibs, Message, Messages, CalibMessages
<1>3. CASE Start
  BY <1>3 DEF Start, Messages
<1>4. CASE Take
  BY <1>4 DEF Take, Messages, SendMessages, CalibMessages
<1>5. CASE Redline
  BY <1>5 DEF Redline, Goes
<1>6. CASE RedlinesEnd
  BY <1>6 DEF RedlinesEnd, Goes
<1>7. CASE RedlineRaises
  BY <1>7 DEF RedlineRaises, Dies
<1>8. CASE WriteLower
  BY <1>8 DEF WriteLower, Goes
<1>9. CASE WriteUpper
  BY <1>9 DEF WriteUpper, Goes
<1>10. CASE WriteTimeout
  BY <1>10 DEF WriteTimeout, Goes
<1>11. CASE WriteDelays
  BY <1>11 DEF WriteDelays, Goes
<1>12. CASE Igniter
  BY <1>12 DEF Igniter, Goes
<1>13. CASE IgniterRejected
  BY <1>13 DEF IgniterRejected, Goes
<1>14. CASE IgniterRaises
  BY <1>14 DEF IgniterRaises, Dies
<1>15. CASE WriteDelay
  BY <1>15 DEF WriteDelay, Goes
<1>16. CASE WriteEnabled
  BY <1>16 DEF WriteEnabled, Goes
<1>17. CASE CalibRow
  BY <1>17 DEF CalibRow, Goes, Sent
<1>18. CASE RowSkipped
  BY <1>18 DEF RowSkipped, Goes
<1>19. CASE RowRejected
  BY <1>19 DEF RowRejected, Goes
<1>20. CASE WriteOffset
  BY <1>20 DEF WriteOffset, Goes
<1>21. CASE WriteSlope
  BY <1>21 DEF WriteSlope, Goes
<1>22. CASE Save
  BY <1>22 DEF Save, Goes
<1>23. CASE ReadTrigger
  BY <1>23 DEF ReadTrigger, Goes
<1>24. CASE WriteTrigger
  BY <1>24 DEF WriteTrigger, Goes
<1>25. CASE Crash
  BY <1>25 DEF Crash, Dies
<1>26. CASE McsLooks
  BY <1>26 DEF McsLooks
<1>27. CASE \E newContainer \in BOOLEAN : Restart(newContainer)
  BY <1>27 DEF Restart
<1>28. CASE UNCHANGED vars
  BY <1>28 DEF vars
<1>29. QED
  BY <1>1, <1>2, <1>3, <1>4, <1>5, <1>6, <1>7, <1>8, <1>9, <1>10, <1>11, <1>12, <1>13, <1>14,
     <1>15, <1>16, <1>17, <1>18, <1>19, <1>20, <1>21, <1>22, <1>23, <1>24, <1>25, <1>26,
     <1>27, <1>28 DEF Next, Command

(* Only the message's number and the defaults are written, and only to nodes there are. *)
LEMMA NodesStep == CommandOK /\ PlaceOK /\ NodesOK /\ [Next]_vars => NodesOK'
<1> SUFFICES ASSUME CommandOK, PlaceOK, NodesOK, [Next]_vars PROVE NodesOK'
  OBVIOUS
<1> USE DEF NodesOK, nodes, stored, counters
<1>1. CASE Send
  BY <1>1 DEF Send, Message
<1>2. CASE SendCalibs
  BY <1>2 DEF SendCalibs, Message
<1>3. CASE Start
  BY <1>3 DEF Start
<1>4. CASE Take
  BY <1>4 DEF Take
<1>5. CASE Redline
  <2> USE <1>5
  <2>1. pos \in 1 .. NumRedlines /\ cmd \in SendMessages
    BY DEF Redline, CommandOK, PlaceOK, SendSteps, RedlineSteps, IgniterSteps, CalibSteps, StartSteps, Steps
  <2>2. Limit(cmd, pos) \in Int
    BY <2>1 DEF Limit, SendMessages, Default
  <2>3. memory.limit \in [1 .. NumRedlines -> Int]
    BY DEF Memories
  <2>4. QED
    BY <2>1, <2>2, <2>3 DEF Redline, Goes, Memories
<1>6. CASE RedlinesEnd
  BY <1>6 DEF RedlinesEnd, Goes
<1>7. CASE RedlineRaises
  BY <1>7 DEF RedlineRaises, Dies
<1>8. CASE WriteLower
  <2> USE <1>8
  <2>1. pos \in 1 .. NumRedlines /\ cmd \in SendMessages
    BY DEF WriteLower, CommandOK, PlaceOK, SendSteps, RedlineSteps, IgniterSteps, CalibSteps, StartSteps, Steps
  <2>2. Limit(cmd, pos) \in Int
    BY <2>1 DEF Limit, SendMessages, Default
  <2>3. <<"lower", pos>> \in Cells
    BY <2>1 DEF Cells
  <2>4. QED
    BY <2>1, <2>2, <2>3 DEF WriteLower, Goes
<1>9. CASE WriteUpper
  <2> USE <1>9
  <2>1. pos \in 1 .. NumRedlines /\ cmd \in SendMessages
    BY DEF WriteUpper, CommandOK, PlaceOK, SendSteps, RedlineSteps, IgniterSteps, CalibSteps, StartSteps, Steps
  <2>2. Limit(cmd, pos) \in Int
    BY <2>1 DEF Limit, SendMessages, Default
  <2>3. <<"upper", pos>> \in Cells
    BY <2>1 DEF Cells
  <2>4. QED
    BY <2>1, <2>2, <2>3 DEF WriteUpper, Goes
<1>10. CASE WriteTimeout
  <2> USE <1>10
  <2>1. pos \in 1 .. NumRedlines /\ cmd \in SendMessages
    BY DEF WriteTimeout, CommandOK, PlaceOK, SendSteps, RedlineSteps, IgniterSteps, CalibSteps, StartSteps, Steps
  <2>2. Limit(cmd, pos) \in Int
    BY <2>1 DEF Limit, SendMessages, Default
  <2>3. <<"timeout", pos>> \in Cells
    BY <2>1 DEF Cells
  <2>4. QED
    BY <2>1, <2>2, <2>3 DEF WriteTimeout, Goes
<1>11. CASE WriteDelays
  <2> USE <1>11
  <2>1. cmd \in SendMessages
    BY DEF WriteDelays, Sent, CommandOK, PlaceOK, SendSteps, RedlineSteps, IgniterSteps, CalibSteps, StartSteps, Steps
  <2>2. <<"delays", 0>> \in Cells
    BY <2>1 DEF Cells
  <2>3. cmd.number \in Int
    BY <2>1 DEF SendMessages, CalibMessages
  <2>4. QED
    BY <2>2, <2>3 DEF WriteDelays, Goes
<1>12. CASE Igniter
  <2> USE <1>12
  <2>1. cmd \in SendMessages /\ pos \in 1 .. NumIgniters
    BY DEF Igniter, Sent, CommandOK, PlaceOK, SendSteps, RedlineSteps, IgniterSteps, CalibSteps, StartSteps, Steps
  <2>2. cmd.number \in Nat
    BY <2>1 DEF SendMessages, CalibMessages
  <2>3. memory.igniter \in [1 .. NumIgniters -> Nat]
    BY DEF Memories
  <2>4. memory' \in Memories
    BY <2>1, <2>2, <2>3 DEF Igniter, Sent, Goes, Memories
  <2>5. QED
    BY <2>4 DEF Igniter
<1>13. CASE IgniterRejected
  BY <1>13 DEF IgniterRejected, Goes
<1>14. CASE IgniterRaises
  BY <1>14 DEF IgniterRaises, Dies
<1>15. CASE WriteDelay
  <2> USE <1>15
  <2>1. cmd \in SendMessages /\ pos \in 1 .. NumIgniters
    BY DEF WriteDelay, Sent, CommandOK, PlaceOK, SendSteps, RedlineSteps, IgniterSteps, CalibSteps, StartSteps, Steps
  <2>2. <<"delay", pos>> \in Cells
    BY <2>1 DEF Cells
  <2>3. cmd.number \in Int
    BY <2>1 DEF SendMessages, CalibMessages
  <2>4. QED
    BY <2>2, <2>3 DEF WriteDelay, Goes
<1>16. CASE WriteEnabled
  <2> USE <1>16
  <2>1. cmd \in SendMessages
    BY DEF WriteEnabled, Sent, CommandOK, PlaceOK, SendSteps, RedlineSteps, IgniterSteps, CalibSteps, StartSteps, Steps
  <2>2. <<"enabled", 0>> \in Cells
    BY <2>1 DEF Cells
  <2>3. cmd.number \in Int
    BY <2>1 DEF SendMessages, CalibMessages
  <2>4. QED
    BY <2>2, <2>3 DEF WriteEnabled, Goes
<1>17. CASE CalibRow
  <2> USE <1>17
  <2>1. cmd \in CalibMessages /\ Here.sensor \in 1 .. NumSensors
    BY DEF CalibRow, Sent, CommandOK, PlaceOK, SendSteps, RedlineSteps, IgniterSteps, CalibSteps, StartSteps, Steps
  <2>2. cmd.number \in Nat
    BY <2>1 DEF SendMessages, CalibMessages
  <2>3. memory.calib \in [1 .. NumSensors -> Nat]
    BY DEF Memories
  <2>4. memory' \in Memories
    BY <2>1, <2>2, <2>3 DEF CalibRow, Sent, Goes, Memories
  <2>5. QED
    BY <2>4 DEF CalibRow
<1>18. CASE RowSkipped
  <2> USE <1>18
  <2>1. cmd \in CalibMessages /\ pos \in 1 .. Len(cmd.rows)
    BY DEF RowSkipped, CommandOK, CalibSteps, CalibMessages
  <2>2. cmd.number \in Nat /\ Here.sensor \in 0 .. NumSensors
    BY <2>1, RowParts DEF Here, CalibMessages
  <2>3. memory.calib \in [1 .. NumSensors -> Nat]
    BY DEF Memories
  <2>4. memory' \in Memories
    BY <2>1, <2>2, <2>3 DEF RowSkipped, Goes, Memories
  <2>5. QED
    BY <2>4 DEF RowSkipped
<1>19. CASE RowRejected
  BY <1>19 DEF RowRejected, Goes
<1>20. CASE WriteOffset
  <2> USE <1>20
  <2>1. cmd \in CalibMessages /\ Here.sensor \in HasNodes
    BY DEF WriteOffset, Sent, CommandOK, PlaceOK, SendSteps, RedlineSteps, IgniterSteps, CalibSteps, StartSteps, Steps
  <2>2. <<"offset", Here.sensor>> \in Cells
    BY <2>1 DEF Cells
  <2>3. cmd.number \in Int
    BY <2>1 DEF SendMessages, CalibMessages
  <2>4. QED
    BY <2>2, <2>3 DEF WriteOffset, Goes
<1>21. CASE WriteSlope
  <2> USE <1>21
  <2>1. cmd \in CalibMessages /\ Here.sensor \in HasNodes
    BY DEF WriteSlope, Sent, CommandOK, PlaceOK, SendSteps, RedlineSteps, IgniterSteps, CalibSteps, StartSteps, Steps
  <2>2. <<"slope", Here.sensor>> \in Cells
    BY <2>1 DEF Cells
  <2>3. cmd.number \in Int
    BY <2>1 DEF SendMessages, CalibMessages
  <2>4. QED
    BY <2>2, <2>3 DEF WriteSlope, Goes
<1>22. CASE Save
  BY <1>22 DEF Save, Goes
<1>23. CASE ReadTrigger
  BY <1>23 DEF ReadTrigger, Goes
<1>24. CASE WriteTrigger
  BY <1>24 DEF WriteTrigger, Goes
<1>25. CASE Crash
  BY <1>25 DEF Crash, Dies
<1>26. CASE McsLooks
  BY <1>26 DEF McsLooks
<1>27. CASE \E newContainer \in BOOLEAN : Restart(newContainer)
  BY <1>27 DEF Restart, Configured, Memories
<1>28. CASE UNCHANGED vars
  BY <1>28 DEF vars
<1>29. QED
  BY <1>1, <1>2, <1>3, <1>4, <1>5, <1>6, <1>7, <1>8, <1>9, <1>10, <1>11, <1>12, <1>13, <1>14,
     <1>15, <1>16, <1>17, <1>18, <1>19, <1>20, <1>21, <1>22, <1>23, <1>24, <1>25, <1>26,
     <1>27, <1>28 DEF Next, Command

(* The trigger's values are Boolean, and starts are counted. *)
LEMMA TriggerStep == TriggerOK /\ [Next]_vars => TriggerOK'
<1> SUFFICES ASSUME TriggerOK, [Next]_vars PROVE TriggerOK'
  OBVIOUS
<1> USE DEF TriggerOK, nodes, counters
<1>1. CASE Send
  BY <1>1 DEF Send, Message
<1>2. CASE SendCalibs
  BY <1>2 DEF SendCalibs, Message
<1>3. CASE Start
  BY <1>3 DEF Start
<1>4. CASE Take
  BY <1>4 DEF Take
<1>5. CASE Redline
  BY <1>5 DEF Redline, Goes
<1>6. CASE RedlinesEnd
  BY <1>6 DEF RedlinesEnd, Goes
<1>7. CASE RedlineRaises
  BY <1>7 DEF RedlineRaises, Dies
<1>8. CASE WriteLower
  BY <1>8 DEF WriteLower, Goes
<1>9. CASE WriteUpper
  BY <1>9 DEF WriteUpper, Goes
<1>10. CASE WriteTimeout
  BY <1>10 DEF WriteTimeout, Goes
<1>11. CASE WriteDelays
  BY <1>11 DEF WriteDelays, Goes
<1>12. CASE Igniter
  BY <1>12 DEF Igniter, Goes
<1>13. CASE IgniterRejected
  BY <1>13 DEF IgniterRejected, Goes
<1>14. CASE IgniterRaises
  BY <1>14 DEF IgniterRaises, Dies
<1>15. CASE WriteDelay
  BY <1>15 DEF WriteDelay, Goes
<1>16. CASE WriteEnabled
  BY <1>16 DEF WriteEnabled, Goes
<1>17. CASE CalibRow
  BY <1>17 DEF CalibRow, Goes
<1>18. CASE RowSkipped
  BY <1>18 DEF RowSkipped, Goes
<1>19. CASE RowRejected
  BY <1>19 DEF RowRejected, Goes
<1>20. CASE WriteOffset
  BY <1>20 DEF WriteOffset, Goes
<1>21. CASE WriteSlope
  BY <1>21 DEF WriteSlope, Goes
<1>22. CASE Save
  BY <1>22 DEF Save, Goes
<1>23. CASE ReadTrigger
  BY <1>23 DEF ReadTrigger, Goes
<1>24. CASE WriteTrigger
  BY <1>24 DEF WriteTrigger, Goes
<1>25. CASE Crash
  BY <1>25 DEF Crash, Dies
<1>26. CASE McsLooks
  BY <1>26 DEF McsLooks
<1>27. CASE \E newContainer \in BOOLEAN : Restart(newContainer)
  BY <1>27 DEF Restart
<1>28. CASE UNCHANGED vars
  BY <1>28 DEF vars
<1>29. QED
  BY <1>1, <1>2, <1>3, <1>4, <1>5, <1>6, <1>7, <1>8, <1>9, <1>10, <1>11, <1>12, <1>13, <1>14,
     <1>15, <1>16, <1>17, <1>18, <1>19, <1>20, <1>21, <1>22, <1>23, <1>24, <1>25, <1>26,
     <1>27, <1>28 DEF Next, Command

-----------------------------------------------------------------------------
(* Every variable stays in its type, a command stays within its message, and   *)
(* each write has behind it the check of what it writes (client.py 471-664).     *)
THEOREM TypeCorrect == Spec => []TypeOK
<1>1. TypeOK /\ [Next]_vars => TypeOK'
  BY CommandStep, PlaceStep, NodesStep, TriggerStep DEF TypeOK
<1>2. QED
  BY TypesInit, <1>1, PTL DEF Spec

-----------------------------------------------------------------------------
(* The trigger.                                                                *)

\* start_sequence is the trigger's only writer, so what it has read holds until it writes.
EdgeInv == EdgeMeansOdd /\ (step = "toggle" => readVal = trigger)

LEMMA Odd == ASSUME NEW n \in Nat PROVE ((n + 1) % 2 = 1) <=> ~(n % 2 = 1)
OBVIOUS

(* The MCS sees an edge for an odd number of starts since it looked, and only     *)
(* then (client.py, start_sequence).                                           *)
THEOREM EdgesAreOdd == Spec => []EdgeMeansOdd
<1>1. Init => EdgeInv
  <2> SUFFICES ASSUME Init PROVE EdgeInv
    OBVIOUS
  <2>1. trigger = looked /\ unseen = 0 /\ step = "idle"
    BY DEF Init
  <2>2. ~(unseen % 2 = 1)
    BY <2>1
  <2>3. QED
    BY <2>1, <2>2 DEF EdgeInv, EdgeMeansOdd
<1>2. TypeOK /\ EdgeInv /\ [Next]_vars => EdgeInv'
  <2> SUFFICES ASSUME TypeOK, EdgeInv, [Next]_vars PROVE EdgeInv'
    OBVIOUS
  <2>1. CASE UNCHANGED <<trigger, looked, unseen, readVal>> /\ (step' = "toggle" => step = "toggle")
    BY <2>1 DEF EdgeInv, EdgeMeansOdd
  <2>2. CASE ReadTrigger
    BY <2>2 DEF ReadTrigger, Goes, EdgeInv, EdgeMeansOdd, nodes
  <2>3. CASE WriteTrigger
    <3>1. trigger \in BOOLEAN /\ looked \in BOOLEAN /\ readVal = trigger /\ unseen \in Nat
      BY <2>3 DEF WriteTrigger, EdgeInv, TypeOK, TriggerOK
    <3>2. trigger' = ~trigger /\ looked' = looked /\ unseen' = unseen + 1 /\ step' = "idle"
      BY <2>3, <3>1 DEF WriteTrigger, Goes
    <3>3. (trigger' # looked') <=> ~(trigger # looked)
      BY <3>1, <3>2, Zenon
    <3>4. (unseen' % 2 = 1) <=> ~(unseen % 2 = 1)
      BY <3>1, <3>2, Odd
    <3>5. QED
      BY <3>2, <3>3, <3>4 DEF EdgeInv, EdgeMeansOdd
  <2>4. CASE McsLooks
    BY <2>4 DEF McsLooks, EdgeInv, EdgeMeansOdd
  <2>5. \/ UNCHANGED <<trigger, looked, unseen, readVal>> /\ (step' = "toggle" => step = "toggle")
        \/ ReadTrigger \/ WriteTrigger \/ McsLooks
    <3> USE DEF nodes, counters, Goes
    <3>1. Send \/ SendCalibs \/ Start => UNCHANGED <<trigger, looked, unseen, readVal, step>>
      BY DEF Send, SendCalibs, Start, Message
    <3>2. QED
      BY <3>1 DEF Next, Command, vars, Dies, Take, Redline, RedlinesEnd, RedlineRaises, WriteLower,
         WriteUpper, WriteTimeout, WriteDelays, Igniter, IgniterRejected, IgniterRaises, WriteDelay,
         WriteEnabled, CalibRow, RowSkipped, RowRejected, WriteOffset, WriteSlope, Save, Crash, Restart
  <2>6. QED
    BY <2>1, <2>2, <2>3, <2>4, <2>5
<1>3. QED
  BY <1>1, <1>2, TypeCorrect, PTL DEF Spec, EdgeInv

-----------------------------------------------------------------------------
(* The igniters.                                                               *)

\* What is enabled stays the delays' until the first delay is written; then the delays up to
\* the igniter at pos are the message's.
EnabledInv ==
  /\ ~cut /\ (step \in {"igniter", "delay"} => pos = 1) /\ step # "enabled" =>
       \A i \in 1 .. NumIgniters : mcs[<<"delay", i>>] = mcs[<<"enabled", 0>>]
  /\ step \in IgniterSteps => \A i \in 1 .. pos - 1 : mcs[<<"delay", i>>] = cmd.number

(* Every step keeps this; an end of the process in between is remembered in cut. *)
LEMMA EnabledStep == CommandOK /\ PlaceOK /\ NodesOK /\ EnabledInv /\ [Next]_vars => EnabledInv'
<1> SUFFICES ASSUME CommandOK, PlaceOK, NodesOK, EnabledInv, [Next]_vars PROVE EnabledInv'
  OBVIOUS
<1> USE DEF EnabledInv, EnabledWithDelays, CommandOK, PlaceOK, nodes, stored, counters, SendSteps, RedlineSteps, IgniterSteps, CalibSteps, StartSteps, Steps
<1>1. CASE Send
  BY <1>1 DEF Send, Message
<1>2. CASE SendCalibs
  BY <1>2 DEF SendCalibs, Message
<1>3. CASE Start
  BY <1>3 DEF Start
<1>4. CASE Take
  BY <1>4 DEF Take
<1>5. CASE Redline
  BY <1>5 DEF Redline, Goes
<1>6. CASE RedlinesEnd
  BY <1>6 DEF RedlinesEnd, Goes
<1>7. CASE RedlineRaises
  BY <1>7 DEF RedlineRaises, Dies
<1>8. CASE WriteLower
  <2>1. \A i \in 1 .. NumIgniters : mcs'[<<"delay", i>>] = mcs[<<"delay", i>>]
    BY <1>8 DEF WriteLower, NodesOK, Cells
  <2>2. mcs'[<<"enabled", 0>>] = mcs[<<"enabled", 0>>]
    BY <1>8 DEF WriteLower, NodesOK, Cells
  <2>3. QED
    BY <1>8, <2>1, <2>2 DEF WriteLower, Goes
<1>9. CASE WriteUpper
  <2>1. \A i \in 1 .. NumIgniters : mcs'[<<"delay", i>>] = mcs[<<"delay", i>>]
    BY <1>9 DEF WriteUpper, NodesOK, Cells
  <2>2. mcs'[<<"enabled", 0>>] = mcs[<<"enabled", 0>>]
    BY <1>9 DEF WriteUpper, NodesOK, Cells
  <2>3. QED
    BY <1>9, <2>1, <2>2 DEF WriteUpper, Goes
<1>10. CASE WriteTimeout
  <2>1. \A i \in 1 .. NumIgniters : mcs'[<<"delay", i>>] = mcs[<<"delay", i>>]
    BY <1>10 DEF WriteTimeout, NodesOK, Cells
  <2>2. mcs'[<<"enabled", 0>>] = mcs[<<"enabled", 0>>]
    BY <1>10 DEF WriteTimeout, NodesOK, Cells
  <2>3. QED
    BY <1>10, <2>1, <2>2 DEF WriteTimeout, Goes
<1>11. CASE WriteDelays
  <2>1. \A i \in 1 .. NumIgniters : mcs'[<<"delay", i>>] = mcs[<<"delay", i>>]
    BY <1>11 DEF WriteDelays, NodesOK, Cells
  <2>2. mcs'[<<"enabled", 0>>] = mcs[<<"enabled", 0>>]
    BY <1>11 DEF WriteDelays, NodesOK, Cells
  <2>3. QED
    BY <1>11, <2>1, <2>2 DEF WriteDelays, Goes
<1>12. CASE Igniter
  BY <1>12 DEF Igniter, Goes
<1>13. CASE IgniterRejected
  <2>1. ~cut' => ~cut /\ ~(pos > 1)
    BY <1>13 DEF IgniterRejected
  <2>2. step' = "idle" /\ UNCHANGED <<mcs, cmd, pos>>
    BY <1>13 DEF IgniterRejected, Goes
  <2>3. QED
    BY <1>13, <2>1, <2>2 DEF IgniterRejected
<1>14. CASE IgniterRaises
  <2>1. ~cut' => ~cut /\ ~(step \in {"igniter", "delay", "enabled"} /\ pos > 1)
    BY <1>14 DEF IgniterRaises, Dies
  <2>2. step' = "idle" /\ UNCHANGED <<mcs, cmd, pos>>
    BY <1>14 DEF IgniterRaises, Dies
  <2>3. QED
    BY <1>14, <2>1, <2>2
<1>15. CASE WriteDelay
  <2> USE <1>15
  <2>1. pos \in 1 .. NumIgniters /\ cmd \in SendMessages /\ pos' = pos + 1 /\ cmd' = cmd /\ cut' = cut
    BY DEF WriteDelay
  <2>2. \A i \in 1 .. pos : mcs'[<<"delay", i>>] = cmd.number
    <3> SUFFICES ASSUME NEW i \in 1 .. pos PROVE mcs'[<<"delay", i>>] = cmd.number
      OBVIOUS
    <3>1. mcs' = [mcs EXCEPT ![<<"delay", pos>>] = cmd.number] /\ <<"delay", i>> \in Cells
      BY <2>1 DEF WriteDelay, Cells
    <3>2. i # pos => mcs[<<"delay", i>>] = cmd.number /\ <<"delay", i>> # <<"delay", pos>>
      BY <2>1 DEF WriteDelay
    <3>3. QED
      BY <3>1, <3>2 DEF NodesOK
  <2>3. step' \in {"igniter", "enabled"}
    BY DEF WriteDelay, Goes
  <2>4. QED
    BY <2>1, <2>2, <2>3
<1>16. CASE WriteEnabled
  <2> USE <1>16
  <2>1. step = "enabled" /\ pos = NumIgniters + 1 /\ step' = "idle" /\ cmd' = cmd
    BY DEF WriteEnabled, Goes
  <2>2. \A i \in 1 .. NumIgniters : mcs'[<<"delay", i>>] = mcs[<<"delay", i>>]
    BY DEF WriteEnabled, NodesOK, Cells
  <2>3. mcs'[<<"enabled", 0>>] = cmd.number
    BY DEF WriteEnabled, NodesOK, Cells
  <2>4. QED
    BY <2>1, <2>2, <2>3
<1>17. CASE CalibRow
  BY <1>17 DEF CalibRow, Sent, Goes
<1>18. CASE RowSkipped
  BY <1>18 DEF RowSkipped, Goes
<1>19. CASE RowRejected
  BY <1>19 DEF RowRejected, Goes
<1>20. CASE WriteOffset
  <2>1. \A i \in 1 .. NumIgniters : mcs'[<<"delay", i>>] = mcs[<<"delay", i>>]
    BY <1>20 DEF WriteOffset, NodesOK, Cells
  <2>2. mcs'[<<"enabled", 0>>] = mcs[<<"enabled", 0>>]
    BY <1>20 DEF WriteOffset, NodesOK, Cells
  <2>3. QED
    BY <1>20, <2>1, <2>2 DEF WriteOffset, Goes
<1>21. CASE WriteSlope
  <2>1. \A i \in 1 .. NumIgniters : mcs'[<<"delay", i>>] = mcs[<<"delay", i>>]
    BY <1>21 DEF WriteSlope, NodesOK, Cells
  <2>2. mcs'[<<"enabled", 0>>] = mcs[<<"enabled", 0>>]
    BY <1>21 DEF WriteSlope, NodesOK, Cells
  <2>3. QED
    BY <1>21, <2>1, <2>2 DEF WriteSlope, Goes
<1>22. CASE Save
  BY <1>22 DEF Save, Goes
<1>23. CASE ReadTrigger
  BY <1>23 DEF ReadTrigger, Goes
<1>24. CASE WriteTrigger
  BY <1>24 DEF WriteTrigger, Goes
<1>25. CASE Crash
  <2>1. ~cut' => ~cut /\ ~(step \in {"igniter", "delay", "enabled"} /\ pos > 1)
    BY <1>25 DEF Crash, Dies
  <2>2. step' = "idle" /\ UNCHANGED <<mcs, cmd, pos>>
    BY <1>25 DEF Crash, Dies
  <2>3. QED
    BY <1>25, <2>1, <2>2
<1>26. CASE McsLooks
  BY <1>26 DEF McsLooks
<1>27. CASE \E newContainer \in BOOLEAN : Restart(newContainer)
  BY <1>27 DEF Restart
<1>28. CASE UNCHANGED vars
  BY <1>28 DEF vars
<1>29. QED
  BY <1>1, <1>2, <1>3, <1>4, <1>5, <1>6, <1>7, <1>8, <1>9, <1>10, <1>11, <1>12, <1>13, <1>14,
     <1>15, <1>16, <1>17, <1>18, <1>19, <1>20, <1>21, <1>22, <1>23, <1>24, <1>25, <1>26,
     <1>27, <1>28 DEF Next, Command

(* What is enabled belongs to the delays beside it, over all messages, restarts and ends of     *)
(* the process, unless a load of igniters was cut in two and none since came to its end.         *)
THEOREM EnabledBelongs == Spec => []EnabledWithDelays
<1>1. Init => EnabledInv
  BY DEF Init, EnabledInv, Initially, Cells, IgniterSteps
<1>2. EnabledInv => EnabledWithDelays
  BY DEF EnabledInv, EnabledWithDelays
<1>3. TypeOK /\ EnabledInv /\ [Next]_vars => EnabledInv'
  BY EnabledStep DEF TypeOK
<1>4. QED
  BY <1>1, <1>2, <1>3, TypeCorrect, PTL DEF Spec


-----------------------------------------------------------------------------
(* What the process remembers.                                                 *)

\* It is what the MCS has, but for the redline, igniter or sensor that is being written,
\* whose first nodes are new already.
LimitsInv ==
  up => \A i \in 1 .. NumRedlines :
          IF step \in {"lower", "upper", "timeout"} /\ i = pos
          THEN /\ memory.limit[i] = Limit(cmd, pos)
               /\ step # "lower" => mcs[<<"lower", i>>] = Limit(cmd, pos)
               /\ step = "timeout" => mcs[<<"upper", i>>] = Limit(cmd, pos)
          ELSE memory.limit[i] # 0 =>
                 \A node \in {"lower", "upper", "timeout"} : mcs[<<node, i>>] = memory.limit[i]

IgnitersInv ==
  up => \A i \in 1 .. NumIgniters :
          IF step = "delay" /\ i = pos THEN memory.igniter[i] = cmd.number
          ELSE memory.igniter[i] \in {0, mcs[<<"delay", i>>]}

CalibsInv ==
  up => \A i \in HasNodes :
          IF step \in {"offset", "slope"} /\ i = Here.sensor
          THEN memory.calib[i] = cmd.number /\ (step = "slope" => mcs[<<"offset", i>>] = cmd.number)
          ELSE memory.calib[i] # 0 => \A node \in {"offset", "slope"} : mcs[<<node, i>>] = memory.calib[i]

MemoryInv == LimitsInv /\ IgnitersInv /\ CalibsInv

LEMMA LimitsFrame ==
  ASSUME LimitsInv, up' = up, step \notin {"lower", "upper", "timeout"}, step' \notin {"lower", "upper", "timeout"}, memory'.limit = memory.limit,
         \A i \in 1 .. NumRedlines, node \in {"lower", "upper", "timeout"} : mcs'[<<node, i>>] = mcs[<<node, i>>]
  PROVE  LimitsInv'
BY DEF LimitsInv

LEMMA LimitsSame == LimitsInv /\ UNCHANGED <<up, cmd, pos, step, memory, mcs>> => LimitsInv'
BY DEF LimitsInv, Limit

(* A limit is remembered before it is written, three nodes long.               *)
LEMMA LimitsStep == CommandOK /\ PlaceOK /\ NodesOK /\ LimitsInv /\ [Next]_vars => LimitsInv'
<1> SUFFICES ASSUME CommandOK, PlaceOK, NodesOK, LimitsInv, [Next]_vars PROVE LimitsInv'
  OBVIOUS
<1> USE DEF nodes, stored, counters
<1>1. CASE Send
  BY <1>1, LimitsSame DEF Send, Message
<1>2. CASE SendCalibs
  BY <1>2, LimitsSame DEF SendCalibs, Message
<1>3. CASE Start
  BY <1>3, LimitsSame DEF Start
<1>4. CASE Take
  <2>1. up' = up /\ step \notin {"lower", "upper", "timeout"} /\ step' \notin {"lower", "upper", "timeout"}
    BY <1>4 DEF Take
  <2>2. memory'.limit = memory.limit
    BY <1>4 DEF Take
  <2>3. \A i \in 1 .. NumRedlines, node \in {"lower", "upper", "timeout"} : mcs'[<<node, i>>] = mcs[<<node, i>>]
    BY <1>4 DEF Take
  <2>4. QED
    BY <2>1, <2>2, <2>3, LimitsFrame
<1>5. CASE Redline
  <2> USE <1>5
  <2>1. pos \in 1 .. NumRedlines /\ step = "redline" /\ step' = "lower" /\ UNCHANGED <<up, cmd, pos, mcs>>
    BY DEF Redline, Goes, CommandOK
  <2>2. \A i \in 1 .. NumRedlines : memory'.limit[i] = IF i = pos THEN Limit(cmd, pos) ELSE memory.limit[i]
    BY <2>1 DEF Redline, NodesOK, Memories
  <2>3. Limit(cmd, pos)' = Limit(cmd, pos)
    BY <2>1 DEF Limit
  <2>4. QED
    BY <2>1, <2>2, <2>3 DEF LimitsInv
<1>6. CASE RedlinesEnd
  <2>1. up' = up /\ step \notin {"lower", "upper", "timeout"} /\ step' \notin {"lower", "upper", "timeout"}
    BY <1>6 DEF RedlinesEnd, Goes
  <2>2. memory'.limit = memory.limit
    BY <1>6 DEF RedlinesEnd, Goes
  <2>3. \A i \in 1 .. NumRedlines, node \in {"lower", "upper", "timeout"} : mcs'[<<node, i>>] = mcs[<<node, i>>]
    BY <1>6 DEF RedlinesEnd, Goes
  <2>4. QED
    BY <2>1, <2>2, <2>3, LimitsFrame
<1>7. CASE RedlineRaises
  BY <1>7 DEF RedlineRaises, Dies, LimitsInv
<1>8. CASE WriteLower
  <2> USE <1>8
  <2>1. pos \in 1 .. NumRedlines /\ step = "lower" /\ step' = "upper" /\ UNCHANGED <<up, cmd, memory>>
    BY DEF WriteLower, Goes, CommandOK, PlaceOK
  <2>2. pos' = pos
    BY DEF WriteLower
  <2>3. \A i \in 1 .. NumRedlines, node \in {"lower", "upper", "timeout"} :
          mcs'[<<node, i>>] = IF node = "lower" /\ i = pos THEN Limit(cmd, pos) ELSE mcs[<<node, i>>]
    BY <2>1 DEF WriteLower, NodesOK, Cells
  <2>4. Limit(cmd, pos)' = Limit(cmd, pos)
    BY <2>1, <2>2 DEF Limit
  <2>5. QED
    BY <2>1, <2>2, <2>3, <2>4 DEF LimitsInv
<1>9. CASE WriteUpper
  <2> USE <1>9
  <2>1. pos \in 1 .. NumRedlines /\ step = "upper" /\ step' = "timeout" /\ UNCHANGED <<up, cmd, memory>>
    BY DEF WriteUpper, Goes, CommandOK, PlaceOK
  <2>2. pos' = pos
    BY DEF WriteUpper
  <2>3. \A i \in 1 .. NumRedlines, node \in {"lower", "upper", "timeout"} :
          mcs'[<<node, i>>] = IF node = "upper" /\ i = pos THEN Limit(cmd, pos) ELSE mcs[<<node, i>>]
    BY <2>1 DEF WriteUpper, NodesOK, Cells
  <2>4. Limit(cmd, pos)' = Limit(cmd, pos)
    BY <2>1, <2>2 DEF Limit
  <2>5. QED
    BY <2>1, <2>2, <2>3, <2>4 DEF LimitsInv
<1>10. CASE WriteTimeout
  <2> USE <1>10
  <2>1. pos \in 1 .. NumRedlines /\ step = "timeout" /\ step' = "redline" /\ UNCHANGED <<up, cmd, memory>>
    BY DEF WriteTimeout, Goes, CommandOK, PlaceOK
  <2>2. pos' = pos + 1
    BY DEF WriteTimeout
  <2>3. \A i \in 1 .. NumRedlines, node \in {"lower", "upper", "timeout"} :
          mcs'[<<node, i>>] = IF node = "timeout" /\ i = pos THEN Limit(cmd, pos) ELSE mcs[<<node, i>>]
    BY <2>1 DEF WriteTimeout, NodesOK, Cells
  <2>4. QED
    BY <2>1, <2>2, <2>3 DEF LimitsInv
<1>11. CASE WriteDelays
  <2>1. up' = up /\ step \notin {"lower", "upper", "timeout"} /\ step' \notin {"lower", "upper", "timeout"}
    BY <1>11 DEF WriteDelays, Goes
  <2>2. memory'.limit = memory.limit
    BY <1>11 DEF WriteDelays, Goes
  <2>3. \A i \in 1 .. NumRedlines, node \in {"lower", "upper", "timeout"} : mcs'[<<node, i>>] = mcs[<<node, i>>]
    BY <1>11 DEF WriteDelays, Goes, NodesOK, Cells
  <2>4. QED
    BY <2>1, <2>2, <2>3, LimitsFrame
<1>12. CASE Igniter
  <2>1. up' = up /\ step \notin {"lower", "upper", "timeout"} /\ step' \notin {"lower", "upper", "timeout"}
    BY <1>12 DEF Igniter, Goes
  <2>2. memory'.limit = memory.limit
    BY <1>12 DEF Igniter, Goes, NodesOK, Memories
  <2>3. \A i \in 1 .. NumRedlines, node \in {"lower", "upper", "timeout"} : mcs'[<<node, i>>] = mcs[<<node, i>>]
    BY <1>12 DEF Igniter, Goes
  <2>4. QED
    BY <2>1, <2>2, <2>3, LimitsFrame
<1>13. CASE IgniterRejected
  <2>1. up' = up /\ step \notin {"lower", "upper", "timeout"} /\ step' \notin {"lower", "upper", "timeout"}
    BY <1>13 DEF IgniterRejected, Goes
  <2>2. memory'.limit = memory.limit
    BY <1>13 DEF IgniterRejected, Goes
  <2>3. \A i \in 1 .. NumRedlines, node \in {"lower", "upper", "timeout"} : mcs'[<<node, i>>] = mcs[<<node, i>>]
    BY <1>13 DEF IgniterRejected, Goes
  <2>4. QED
    BY <2>1, <2>2, <2>3, LimitsFrame
<1>14. CASE IgniterRaises
  BY <1>14 DEF IgniterRaises, Dies, LimitsInv
<1>15. CASE WriteDelay
  <2>1. up' = up /\ step \notin {"lower", "upper", "timeout"} /\ step' \notin {"lower", "upper", "timeout"}
    BY <1>15 DEF WriteDelay, Goes
  <2>2. memory'.limit = memory.limit
    BY <1>15 DEF WriteDelay, Goes
  <2>3. \A i \in 1 .. NumRedlines, node \in {"lower", "upper", "timeout"} : mcs'[<<node, i>>] = mcs[<<node, i>>]
    BY <1>15 DEF WriteDelay, Goes, NodesOK, Cells
  <2>4. QED
    BY <2>1, <2>2, <2>3, LimitsFrame
<1>16. CASE WriteEnabled
  <2>1. up' = up /\ step \notin {"lower", "upper", "timeout"} /\ step' \notin {"lower", "upper", "timeout"}
    BY <1>16 DEF WriteEnabled, Goes
  <2>2. memory'.limit = memory.limit
    BY <1>16 DEF WriteEnabled, Goes
  <2>3. \A i \in 1 .. NumRedlines, node \in {"lower", "upper", "timeout"} : mcs'[<<node, i>>] = mcs[<<node, i>>]
    BY <1>16 DEF WriteEnabled, Goes, NodesOK, Cells
  <2>4. QED
    BY <2>1, <2>2, <2>3, LimitsFrame
<1>17. CASE CalibRow
  <2>1. up' = up /\ step \notin {"lower", "upper", "timeout"} /\ step' \notin {"lower", "upper", "timeout"}
    BY <1>17 DEF CalibRow, Sent, Goes
  <2>2. memory'.limit = memory.limit
    BY <1>17 DEF CalibRow, Sent, Goes, NodesOK, Memories
  <2>3. \A i \in 1 .. NumRedlines, node \in {"lower", "upper", "timeout"} : mcs'[<<node, i>>] = mcs[<<node, i>>]
    BY <1>17 DEF CalibRow, Sent, Goes
  <2>4. QED
    BY <2>1, <2>2, <2>3, LimitsFrame
<1>18. CASE RowSkipped
  <2>1. up' = up /\ step \notin {"lower", "upper", "timeout"} /\ step' \notin {"lower", "upper", "timeout"}
    BY <1>18 DEF RowSkipped, Goes
  <2>2. memory'.limit = memory.limit
    BY <1>18 DEF RowSkipped, Goes, NodesOK, Memories
  <2>3. \A i \in 1 .. NumRedlines, node \in {"lower", "upper", "timeout"} : mcs'[<<node, i>>] = mcs[<<node, i>>]
    BY <1>18 DEF RowSkipped, Goes
  <2>4. QED
    BY <2>1, <2>2, <2>3, LimitsFrame
<1>19. CASE RowRejected
  <2>1. up' = up /\ step \notin {"lower", "upper", "timeout"} /\ step' \notin {"lower", "upper", "timeout"}
    BY <1>19 DEF RowRejected, Goes
  <2>2. memory'.limit = memory.limit
    BY <1>19 DEF RowRejected, Goes
  <2>3. \A i \in 1 .. NumRedlines, node \in {"lower", "upper", "timeout"} : mcs'[<<node, i>>] = mcs[<<node, i>>]
    BY <1>19 DEF RowRejected, Goes
  <2>4. QED
    BY <2>1, <2>2, <2>3, LimitsFrame
<1>20. CASE WriteOffset
  <2>1. up' = up /\ step \notin {"lower", "upper", "timeout"} /\ step' \notin {"lower", "upper", "timeout"}
    BY <1>20 DEF WriteOffset, Goes
  <2>2. memory'.limit = memory.limit
    BY <1>20 DEF WriteOffset, Goes
  <2>3. \A i \in 1 .. NumRedlines, node \in {"lower", "upper", "timeout"} : mcs'[<<node, i>>] = mcs[<<node, i>>]
    BY <1>20 DEF WriteOffset, Goes, NodesOK, Cells
  <2>4. QED
    BY <2>1, <2>2, <2>3, LimitsFrame
<1>21. CASE WriteSlope
  <2>1. up' = up /\ step \notin {"lower", "upper", "timeout"} /\ step' \notin {"lower", "upper", "timeout"}
    BY <1>21 DEF WriteSlope, Goes
  <2>2. memory'.limit = memory.limit
    BY <1>21 DEF WriteSlope, Goes
  <2>3. \A i \in 1 .. NumRedlines, node \in {"lower", "upper", "timeout"} : mcs'[<<node, i>>] = mcs[<<node, i>>]
    BY <1>21 DEF WriteSlope, Goes, NodesOK, Cells
  <2>4. QED
    BY <2>1, <2>2, <2>3, LimitsFrame
<1>22. CASE Save
  <2>1. up' = up /\ step \notin {"lower", "upper", "timeout"} /\ step' \notin {"lower", "upper", "timeout"}
    BY <1>22 DEF Save, Goes
  <2>2. memory'.limit = memory.limit
    BY <1>22 DEF Save, Goes
  <2>3. \A i \in 1 .. NumRedlines, node \in {"lower", "upper", "timeout"} : mcs'[<<node, i>>] = mcs[<<node, i>>]
    BY <1>22 DEF Save, Goes
  <2>4. QED
    BY <2>1, <2>2, <2>3, LimitsFrame
<1>23. CASE ReadTrigger
  <2>1. up' = up /\ step \notin {"lower", "upper", "timeout"} /\ step' \notin {"lower", "upper", "timeout"}
    BY <1>23 DEF ReadTrigger, Goes
  <2>2. memory'.limit = memory.limit
    BY <1>23 DEF ReadTrigger, Goes
  <2>3. \A i \in 1 .. NumRedlines, node \in {"lower", "upper", "timeout"} : mcs'[<<node, i>>] = mcs[<<node, i>>]
    BY <1>23 DEF ReadTrigger, Goes
  <2>4. QED
    BY <2>1, <2>2, <2>3, LimitsFrame
<1>24. CASE WriteTrigger
  <2>1. up' = up /\ step \notin {"lower", "upper", "timeout"} /\ step' \notin {"lower", "upper", "timeout"}
    BY <1>24 DEF WriteTrigger, Goes
  <2>2. memory'.limit = memory.limit
    BY <1>24 DEF WriteTrigger, Goes
  <2>3. \A i \in 1 .. NumRedlines, node \in {"lower", "upper", "timeout"} : mcs'[<<node, i>>] = mcs[<<node, i>>]
    BY <1>24 DEF WriteTrigger, Goes
  <2>4. QED
    BY <2>1, <2>2, <2>3, LimitsFrame
<1>25. CASE Crash
  BY <1>25 DEF Crash, Dies, LimitsInv
<1>26. CASE McsLooks
  BY <1>26, LimitsSame DEF McsLooks
<1>27. CASE \E newContainer \in BOOLEAN : Restart(newContainer)
  <2>1. step' = step /\ step = "idle" /\ \A i \in 1 .. NumRedlines : memory'.limit[i] = 0
    BY <1>27 DEF Restart, Configured, CommandOK
  <2>2. QED
    BY <2>1 DEF LimitsInv
<1>28. CASE UNCHANGED vars
  BY <1>28, LimitsSame DEF vars
<1>29. QED
  BY <1>1, <1>2, <1>3, <1>4, <1>5, <1>6, <1>7, <1>8, <1>9, <1>10, <1>11, <1>12, <1>13, <1>14,
     <1>15, <1>16, <1>17, <1>18, <1>19, <1>20, <1>21, <1>22, <1>23, <1>24, <1>25, <1>26,
     <1>27, <1>28 DEF Next, Command

LEMMA IgnitersFrame ==
  ASSUME IgnitersInv, up' = up, step \notin {"delay"}, step' \notin {"delay"}, memory'.igniter = memory.igniter,
         \A i \in 1 .. NumIgniters, node \in {"delay"} : mcs'[<<node, i>>] = mcs[<<node, i>>]
  PROVE  IgnitersInv'
BY DEF IgnitersInv

LEMMA IgnitersSame == IgnitersInv /\ UNCHANGED <<up, cmd, pos, step, memory, mcs>> => IgnitersInv'
BY DEF IgnitersInv

(* An igniter's delay is remembered before it is written.                      *)
LEMMA IgnitersStep == CommandOK /\ PlaceOK /\ NodesOK /\ IgnitersInv /\ [Next]_vars => IgnitersInv'
<1> SUFFICES ASSUME CommandOK, PlaceOK, NodesOK, IgnitersInv, [Next]_vars PROVE IgnitersInv'
  OBVIOUS
<1> USE DEF nodes, stored, counters
<1>1. CASE Send
  BY <1>1, IgnitersSame DEF Send, Message
<1>2. CASE SendCalibs
  BY <1>2, IgnitersSame DEF SendCalibs, Message
<1>3. CASE Start
  BY <1>3, IgnitersSame DEF Start
<1>4. CASE Take
  <2>1. up' = up /\ step \notin {"delay"} /\ step' \notin {"delay"}
    BY <1>4 DEF Take
  <2>2. memory'.igniter = memory.igniter
    BY <1>4 DEF Take
  <2>3. \A i \in 1 .. NumIgniters, node \in {"delay"} : mcs'[<<node, i>>] = mcs[<<node, i>>]
    BY <1>4 DEF Take
  <2>4. QED
    BY <2>1, <2>2, <2>3, IgnitersFrame
<1>5. CASE Redline
  <2>1. up' = up /\ step \notin {"delay"} /\ step' \notin {"delay"}
    BY <1>5 DEF Redline, Goes
  <2>2. memory'.igniter = memory.igniter
    BY <1>5 DEF Redline, Goes, NodesOK, Memories
  <2>3. \A i \in 1 .. NumIgniters, node \in {"delay"} : mcs'[<<node, i>>] = mcs[<<node, i>>]
    BY <1>5 DEF Redline, Goes
  <2>4. QED
    BY <2>1, <2>2, <2>3, IgnitersFrame
<1>6. CASE RedlinesEnd
  <2>1. up' = up /\ step \notin {"delay"} /\ step' \notin {"delay"}
    BY <1>6 DEF RedlinesEnd, Goes
  <2>2. memory'.igniter = memory.igniter
    BY <1>6 DEF RedlinesEnd, Goes
  <2>3. \A i \in 1 .. NumIgniters, node \in {"delay"} : mcs'[<<node, i>>] = mcs[<<node, i>>]
    BY <1>6 DEF RedlinesEnd, Goes
  <2>4. QED
    BY <2>1, <2>2, <2>3, IgnitersFrame
<1>7. CASE RedlineRaises
  BY <1>7 DEF RedlineRaises, Dies, IgnitersInv
<1>8. CASE WriteLower
  <2>1. up' = up /\ step \notin {"delay"} /\ step' \notin {"delay"}
    BY <1>8 DEF WriteLower, Goes
  <2>2. memory'.igniter = memory.igniter
    BY <1>8 DEF WriteLower, Goes
  <2>3. \A i \in 1 .. NumIgniters, node \in {"delay"} : mcs'[<<node, i>>] = mcs[<<node, i>>]
    BY <1>8 DEF WriteLower, Goes, NodesOK, Cells
  <2>4. QED
    BY <2>1, <2>2, <2>3, IgnitersFrame
<1>9. CASE WriteUpper
  <2>1. up' = up /\ step \notin {"delay"} /\ step' \notin {"delay"}
    BY <1>9 DEF WriteUpper, Goes
  <2>2. memory'.igniter = memory.igniter
    BY <1>9 DEF WriteUpper, Goes
  <2>3. \A i \in 1 .. NumIgniters, node \in {"delay"} : mcs'[<<node, i>>] = mcs[<<node, i>>]
    BY <1>9 DEF WriteUpper, Goes, NodesOK, Cells
  <2>4. QED
    BY <2>1, <2>2, <2>3, IgnitersFrame
<1>10. CASE WriteTimeout
  <2>1. up' = up /\ step \notin {"delay"} /\ step' \notin {"delay"}
    BY <1>10 DEF WriteTimeout, Goes
  <2>2. memory'.igniter = memory.igniter
    BY <1>10 DEF WriteTimeout, Goes
  <2>3. \A i \in 1 .. NumIgniters, node \in {"delay"} : mcs'[<<node, i>>] = mcs[<<node, i>>]
    BY <1>10 DEF WriteTimeout, Goes, NodesOK, Cells
  <2>4. QED
    BY <2>1, <2>2, <2>3, IgnitersFrame
<1>11. CASE WriteDelays
  <2>1. up' = up /\ step \notin {"delay"} /\ step' \notin {"delay"}
    BY <1>11 DEF WriteDelays, Goes
  <2>2. memory'.igniter = memory.igniter
    BY <1>11 DEF WriteDelays, Goes
  <2>3. \A i \in 1 .. NumIgniters, node \in {"delay"} : mcs'[<<node, i>>] = mcs[<<node, i>>]
    BY <1>11 DEF WriteDelays, Goes, NodesOK, Cells
  <2>4. QED
    BY <2>1, <2>2, <2>3, IgnitersFrame
<1>12. CASE Igniter
  <2> USE <1>12
  <2>1. pos \in 1 .. NumIgniters /\ step = "igniter" /\ step' = "delay" /\ UNCHANGED <<up, cmd, pos, mcs>>
    BY DEF Igniter, Goes, CommandOK
  <2>2. \A i \in 1 .. NumIgniters : memory'.igniter[i] = IF i = pos THEN cmd.number ELSE memory.igniter[i]
    BY <2>1 DEF Igniter, NodesOK, Memories
  <2>3. QED
    BY <2>1, <2>2 DEF IgnitersInv
<1>13. CASE IgniterRejected
  <2>1. up' = up /\ step \notin {"delay"} /\ step' \notin {"delay"}
    BY <1>13 DEF IgniterRejected, Goes
  <2>2. memory'.igniter = memory.igniter
    BY <1>13 DEF IgniterRejected, Goes
  <2>3. \A i \in 1 .. NumIgniters, node \in {"delay"} : mcs'[<<node, i>>] = mcs[<<node, i>>]
    BY <1>13 DEF IgniterRejected, Goes
  <2>4. QED
    BY <2>1, <2>2, <2>3, IgnitersFrame
<1>14. CASE IgniterRaises
  BY <1>14 DEF IgniterRaises, Dies, IgnitersInv
<1>15. CASE WriteDelay
  <2> USE <1>15
  <2>1. pos \in 1 .. NumIgniters /\ step = "delay" /\ step' # "delay" /\ UNCHANGED <<up, cmd, memory>>
    BY DEF WriteDelay, Goes, CommandOK, PlaceOK
  <2>2. \A i \in 1 .. NumIgniters : mcs'[<<"delay", i>>] = IF i = pos THEN cmd.number ELSE mcs[<<"delay", i>>]
    BY <2>1 DEF WriteDelay, NodesOK, Cells
  <2>3. QED
    BY <2>1, <2>2 DEF IgnitersInv
<1>16. CASE WriteEnabled
  <2>1. up' = up /\ step \notin {"delay"} /\ step' \notin {"delay"}
    BY <1>16 DEF WriteEnabled, Goes
  <2>2. memory'.igniter = memory.igniter
    BY <1>16 DEF WriteEnabled, Goes
  <2>3. \A i \in 1 .. NumIgniters, node \in {"delay"} : mcs'[<<node, i>>] = mcs[<<node, i>>]
    BY <1>16 DEF WriteEnabled, Goes, NodesOK, Cells
  <2>4. QED
    BY <2>1, <2>2, <2>3, IgnitersFrame
<1>17. CASE CalibRow
  <2>1. up' = up /\ step \notin {"delay"} /\ step' \notin {"delay"}
    BY <1>17 DEF CalibRow, Sent, Goes
  <2>2. memory'.igniter = memory.igniter
    BY <1>17 DEF CalibRow, Sent, Goes, NodesOK, Memories
  <2>3. \A i \in 1 .. NumIgniters, node \in {"delay"} : mcs'[<<node, i>>] = mcs[<<node, i>>]
    BY <1>17 DEF CalibRow, Sent, Goes
  <2>4. QED
    BY <2>1, <2>2, <2>3, IgnitersFrame
<1>18. CASE RowSkipped
  <2>1. up' = up /\ step \notin {"delay"} /\ step' \notin {"delay"}
    BY <1>18 DEF RowSkipped, Goes
  <2>2. memory'.igniter = memory.igniter
    BY <1>18 DEF RowSkipped, Goes, NodesOK, Memories
  <2>3. \A i \in 1 .. NumIgniters, node \in {"delay"} : mcs'[<<node, i>>] = mcs[<<node, i>>]
    BY <1>18 DEF RowSkipped, Goes
  <2>4. QED
    BY <2>1, <2>2, <2>3, IgnitersFrame
<1>19. CASE RowRejected
  <2>1. up' = up /\ step \notin {"delay"} /\ step' \notin {"delay"}
    BY <1>19 DEF RowRejected, Goes
  <2>2. memory'.igniter = memory.igniter
    BY <1>19 DEF RowRejected, Goes
  <2>3. \A i \in 1 .. NumIgniters, node \in {"delay"} : mcs'[<<node, i>>] = mcs[<<node, i>>]
    BY <1>19 DEF RowRejected, Goes
  <2>4. QED
    BY <2>1, <2>2, <2>3, IgnitersFrame
<1>20. CASE WriteOffset
  <2>1. up' = up /\ step \notin {"delay"} /\ step' \notin {"delay"}
    BY <1>20 DEF WriteOffset, Goes
  <2>2. memory'.igniter = memory.igniter
    BY <1>20 DEF WriteOffset, Goes
  <2>3. \A i \in 1 .. NumIgniters, node \in {"delay"} : mcs'[<<node, i>>] = mcs[<<node, i>>]
    BY <1>20 DEF WriteOffset, Goes, NodesOK, Cells
  <2>4. QED
    BY <2>1, <2>2, <2>3, IgnitersFrame
<1>21. CASE WriteSlope
  <2>1. up' = up /\ step \notin {"delay"} /\ step' \notin {"delay"}
    BY <1>21 DEF WriteSlope, Goes
  <2>2. memory'.igniter = memory.igniter
    BY <1>21 DEF WriteSlope, Goes
  <2>3. \A i \in 1 .. NumIgniters, node \in {"delay"} : mcs'[<<node, i>>] = mcs[<<node, i>>]
    BY <1>21 DEF WriteSlope, Goes, NodesOK, Cells
  <2>4. QED
    BY <2>1, <2>2, <2>3, IgnitersFrame
<1>22. CASE Save
  <2>1. up' = up /\ step \notin {"delay"} /\ step' \notin {"delay"}
    BY <1>22 DEF Save, Goes
  <2>2. memory'.igniter = memory.igniter
    BY <1>22 DEF Save, Goes
  <2>3. \A i \in 1 .. NumIgniters, node \in {"delay"} : mcs'[<<node, i>>] = mcs[<<node, i>>]
    BY <1>22 DEF Save, Goes
  <2>4. QED
    BY <2>1, <2>2, <2>3, IgnitersFrame
<1>23. CASE ReadTrigger
  <2>1. up' = up /\ step \notin {"delay"} /\ step' \notin {"delay"}
    BY <1>23 DEF ReadTrigger, Goes
  <2>2. memory'.igniter = memory.igniter
    BY <1>23 DEF ReadTrigger, Goes
  <2>3. \A i \in 1 .. NumIgniters, node \in {"delay"} : mcs'[<<node, i>>] = mcs[<<node, i>>]
    BY <1>23 DEF ReadTrigger, Goes
  <2>4. QED
    BY <2>1, <2>2, <2>3, IgnitersFrame
<1>24. CASE WriteTrigger
  <2>1. up' = up /\ step \notin {"delay"} /\ step' \notin {"delay"}
    BY <1>24 DEF WriteTrigger, Goes
  <2>2. memory'.igniter = memory.igniter
    BY <1>24 DEF WriteTrigger, Goes
  <2>3. \A i \in 1 .. NumIgniters, node \in {"delay"} : mcs'[<<node, i>>] = mcs[<<node, i>>]
    BY <1>24 DEF WriteTrigger, Goes
  <2>4. QED
    BY <2>1, <2>2, <2>3, IgnitersFrame
<1>25. CASE Crash
  BY <1>25 DEF Crash, Dies, IgnitersInv
<1>26. CASE McsLooks
  BY <1>26, IgnitersSame DEF McsLooks
<1>27. CASE \E newContainer \in BOOLEAN : Restart(newContainer)
  <2>1. step' = step /\ step = "idle" /\ \A i \in 1 .. NumIgniters : memory'.igniter[i] = 0
    BY <1>27 DEF Restart, Configured, CommandOK
  <2>2. QED
    BY <2>1 DEF IgnitersInv
<1>28. CASE UNCHANGED vars
  BY <1>28, IgnitersSame DEF vars
<1>29. QED
  BY <1>1, <1>2, <1>3, <1>4, <1>5, <1>6, <1>7, <1>8, <1>9, <1>10, <1>11, <1>12, <1>13, <1>14,
     <1>15, <1>16, <1>17, <1>18, <1>19, <1>20, <1>21, <1>22, <1>23, <1>24, <1>25, <1>26,
     <1>27, <1>28 DEF Next, Command

LEMMA CalibsFrame ==
  ASSUME CalibsInv, up' = up, step \notin {"offset", "slope"}, step' \notin {"offset", "slope"}, memory'.calib = memory.calib,
         \A i \in HasNodes, node \in {"offset", "slope"} : mcs'[<<node, i>>] = mcs[<<node, i>>]
  PROVE  CalibsInv'
BY DEF CalibsInv

LEMMA CalibsSame == CalibsInv /\ UNCHANGED <<up, cmd, pos, step, memory, mcs>> => CalibsInv'
BY DEF CalibsInv, Here

(* A calibration is remembered before it is written, two nodes long.           *)
LEMMA CalibsStep == CommandOK /\ PlaceOK /\ NodesOK /\ CalibsInv /\ [Next]_vars => CalibsInv'
<1> SUFFICES ASSUME CommandOK, PlaceOK, NodesOK, CalibsInv, [Next]_vars PROVE CalibsInv'
  OBVIOUS
<1> USE DEF nodes, stored, counters
<1>1. CASE Send
  BY <1>1, CalibsSame DEF Send, Message
<1>2. CASE SendCalibs
  BY <1>2, CalibsSame DEF SendCalibs, Message
<1>3. CASE Start
  BY <1>3, CalibsSame DEF Start
<1>4. CASE Take
  <2>1. up' = up /\ step \notin {"offset", "slope"} /\ step' \notin {"offset", "slope"}
    BY <1>4 DEF Take
  <2>2. memory'.calib = memory.calib
    BY <1>4 DEF Take
  <2>3. \A i \in HasNodes, node \in {"offset", "slope"} : mcs'[<<node, i>>] = mcs[<<node, i>>]
    BY <1>4 DEF Take
  <2>4. QED
    BY <2>1, <2>2, <2>3, CalibsFrame
<1>5. CASE Redline
  <2>1. up' = up /\ step \notin {"offset", "slope"} /\ step' \notin {"offset", "slope"}
    BY <1>5 DEF Redline, Goes
  <2>2. memory'.calib = memory.calib
    BY <1>5 DEF Redline, Goes, NodesOK, Memories
  <2>3. \A i \in HasNodes, node \in {"offset", "slope"} : mcs'[<<node, i>>] = mcs[<<node, i>>]
    BY <1>5 DEF Redline, Goes
  <2>4. QED
    BY <2>1, <2>2, <2>3, CalibsFrame
<1>6. CASE RedlinesEnd
  <2>1. up' = up /\ step \notin {"offset", "slope"} /\ step' \notin {"offset", "slope"}
    BY <1>6 DEF RedlinesEnd, Goes
  <2>2. memory'.calib = memory.calib
    BY <1>6 DEF RedlinesEnd, Goes
  <2>3. \A i \in HasNodes, node \in {"offset", "slope"} : mcs'[<<node, i>>] = mcs[<<node, i>>]
    BY <1>6 DEF RedlinesEnd, Goes
  <2>4. QED
    BY <2>1, <2>2, <2>3, CalibsFrame
<1>7. CASE RedlineRaises
  BY <1>7 DEF RedlineRaises, Dies, CalibsInv
<1>8. CASE WriteLower
  <2>1. up' = up /\ step \notin {"offset", "slope"} /\ step' \notin {"offset", "slope"}
    BY <1>8 DEF WriteLower, Goes
  <2>2. memory'.calib = memory.calib
    BY <1>8 DEF WriteLower, Goes
  <2>3. \A i \in HasNodes, node \in {"offset", "slope"} : mcs'[<<node, i>>] = mcs[<<node, i>>]
    BY <1>8 DEF WriteLower, Goes, NodesOK, Cells
  <2>4. QED
    BY <2>1, <2>2, <2>3, CalibsFrame
<1>9. CASE WriteUpper
  <2>1. up' = up /\ step \notin {"offset", "slope"} /\ step' \notin {"offset", "slope"}
    BY <1>9 DEF WriteUpper, Goes
  <2>2. memory'.calib = memory.calib
    BY <1>9 DEF WriteUpper, Goes
  <2>3. \A i \in HasNodes, node \in {"offset", "slope"} : mcs'[<<node, i>>] = mcs[<<node, i>>]
    BY <1>9 DEF WriteUpper, Goes, NodesOK, Cells
  <2>4. QED
    BY <2>1, <2>2, <2>3, CalibsFrame
<1>10. CASE WriteTimeout
  <2>1. up' = up /\ step \notin {"offset", "slope"} /\ step' \notin {"offset", "slope"}
    BY <1>10 DEF WriteTimeout, Goes
  <2>2. memory'.calib = memory.calib
    BY <1>10 DEF WriteTimeout, Goes
  <2>3. \A i \in HasNodes, node \in {"offset", "slope"} : mcs'[<<node, i>>] = mcs[<<node, i>>]
    BY <1>10 DEF WriteTimeout, Goes, NodesOK, Cells
  <2>4. QED
    BY <2>1, <2>2, <2>3, CalibsFrame
<1>11. CASE WriteDelays
  <2>1. up' = up /\ step \notin {"offset", "slope"} /\ step' \notin {"offset", "slope"}
    BY <1>11 DEF WriteDelays, Goes
  <2>2. memory'.calib = memory.calib
    BY <1>11 DEF WriteDelays, Goes
  <2>3. \A i \in HasNodes, node \in {"offset", "slope"} : mcs'[<<node, i>>] = mcs[<<node, i>>]
    BY <1>11 DEF WriteDelays, Goes, NodesOK, Cells
  <2>4. QED
    BY <2>1, <2>2, <2>3, CalibsFrame
<1>12. CASE Igniter
  <2>1. up' = up /\ step \notin {"offset", "slope"} /\ step' \notin {"offset", "slope"}
    BY <1>12 DEF Igniter, Goes
  <2>2. memory'.calib = memory.calib
    BY <1>12 DEF Igniter, Goes, NodesOK, Memories
  <2>3. \A i \in HasNodes, node \in {"offset", "slope"} : mcs'[<<node, i>>] = mcs[<<node, i>>]
    BY <1>12 DEF Igniter, Goes
  <2>4. QED
    BY <2>1, <2>2, <2>3, CalibsFrame
<1>13. CASE IgniterRejected
  <2>1. up' = up /\ step \notin {"offset", "slope"} /\ step' \notin {"offset", "slope"}
    BY <1>13 DEF IgniterRejected, Goes
  <2>2. memory'.calib = memory.calib
    BY <1>13 DEF IgniterRejected, Goes
  <2>3. \A i \in HasNodes, node \in {"offset", "slope"} : mcs'[<<node, i>>] = mcs[<<node, i>>]
    BY <1>13 DEF IgniterRejected, Goes
  <2>4. QED
    BY <2>1, <2>2, <2>3, CalibsFrame
<1>14. CASE IgniterRaises
  BY <1>14 DEF IgniterRaises, Dies, CalibsInv
<1>15. CASE WriteDelay
  <2>1. up' = up /\ step \notin {"offset", "slope"} /\ step' \notin {"offset", "slope"}
    BY <1>15 DEF WriteDelay, Goes
  <2>2. memory'.calib = memory.calib
    BY <1>15 DEF WriteDelay, Goes
  <2>3. \A i \in HasNodes, node \in {"offset", "slope"} : mcs'[<<node, i>>] = mcs[<<node, i>>]
    BY <1>15 DEF WriteDelay, Goes, NodesOK, Cells
  <2>4. QED
    BY <2>1, <2>2, <2>3, CalibsFrame
<1>16. CASE WriteEnabled
  <2>1. up' = up /\ step \notin {"offset", "slope"} /\ step' \notin {"offset", "slope"}
    BY <1>16 DEF WriteEnabled, Goes
  <2>2. memory'.calib = memory.calib
    BY <1>16 DEF WriteEnabled, Goes
  <2>3. \A i \in HasNodes, node \in {"offset", "slope"} : mcs'[<<node, i>>] = mcs[<<node, i>>]
    BY <1>16 DEF WriteEnabled, Goes, NodesOK, Cells
  <2>4. QED
    BY <2>1, <2>2, <2>3, CalibsFrame
<1>17. CASE CalibRow
  <2> USE <1>17
  <2>1. Here.sensor \in HasNodes /\ step = "row" /\ step' = "offset" /\ UNCHANGED <<up, cmd, pos, mcs>>
    BY DEF CalibRow, Goes, Sent
  <2>2. \A i \in HasNodes : memory'.calib[i] = IF i = Here.sensor THEN cmd.number ELSE memory.calib[i]
    BY <2>1 DEF CalibRow, NodesOK, Memories
  <2>3. Here' = Here
    BY <2>1 DEF Here
  <2>4. QED
    BY <2>1, <2>2, <2>3 DEF CalibsInv
<1>18. CASE RowSkipped
  <2> USE <1>18
  <2>1. Here.sensor \notin HasNodes /\ step = "row" /\ step' = "row" /\ UNCHANGED <<up, cmd, mcs>>
    BY DEF RowSkipped, Goes
  <2>2. \A i \in HasNodes : memory'.calib[i] = memory.calib[i]
    BY <2>1 DEF RowSkipped, NodesOK, Memories
  <2>3. QED
    BY <2>1, <2>2 DEF CalibsInv
<1>19. CASE RowRejected
  <2>1. up' = up /\ step \notin {"offset", "slope"} /\ step' \notin {"offset", "slope"}
    BY <1>19 DEF RowRejected, Goes
  <2>2. memory'.calib = memory.calib
    BY <1>19 DEF RowRejected, Goes
  <2>3. \A i \in HasNodes, node \in {"offset", "slope"} : mcs'[<<node, i>>] = mcs[<<node, i>>]
    BY <1>19 DEF RowRejected, Goes
  <2>4. QED
    BY <2>1, <2>2, <2>3, CalibsFrame
<1>20. CASE WriteOffset
  <2> USE <1>20
  <2>1. Here.sensor \in HasNodes /\ step = "offset" /\ step' = "slope" /\ UNCHANGED <<up, cmd, memory>>
    BY DEF WriteOffset, Goes, PlaceOK
  <2>2. \A i \in HasNodes, node \in {"offset", "slope"} :
          mcs'[<<node, i>>] = IF node = "offset" /\ i = Here.sensor THEN cmd.number ELSE mcs[<<node, i>>]
    BY <2>1 DEF WriteOffset, NodesOK, Cells
  <2>3. Here' = Here
    BY DEF WriteOffset, Here
  <2>4. QED
    BY <2>1, <2>2, <2>3 DEF CalibsInv
<1>21. CASE WriteSlope
  <2> USE <1>21
  <2>1. Here.sensor \in HasNodes /\ step = "slope" /\ step' = "row" /\ UNCHANGED <<up, cmd, memory>>
    BY DEF WriteSlope, Goes, PlaceOK
  <2>2. \A i \in HasNodes, node \in {"offset", "slope"} :
          mcs'[<<node, i>>] = IF node = "slope" /\ i = Here.sensor THEN cmd.number ELSE mcs[<<node, i>>]
    BY <2>1 DEF WriteSlope, NodesOK, Cells
  <2>3. QED
    BY <2>1, <2>2 DEF CalibsInv
<1>22. CASE Save
  <2>1. up' = up /\ step \notin {"offset", "slope"} /\ step' \notin {"offset", "slope"}
    BY <1>22 DEF Save, Goes
  <2>2. memory'.calib = memory.calib
    BY <1>22 DEF Save, Goes
  <2>3. \A i \in HasNodes, node \in {"offset", "slope"} : mcs'[<<node, i>>] = mcs[<<node, i>>]
    BY <1>22 DEF Save, Goes
  <2>4. QED
    BY <2>1, <2>2, <2>3, CalibsFrame
<1>23. CASE ReadTrigger
  <2>1. up' = up /\ step \notin {"offset", "slope"} /\ step' \notin {"offset", "slope"}
    BY <1>23 DEF ReadTrigger, Goes
  <2>2. memory'.calib = memory.calib
    BY <1>23 DEF ReadTrigger, Goes
  <2>3. \A i \in HasNodes, node \in {"offset", "slope"} : mcs'[<<node, i>>] = mcs[<<node, i>>]
    BY <1>23 DEF ReadTrigger, Goes
  <2>4. QED
    BY <2>1, <2>2, <2>3, CalibsFrame
<1>24. CASE WriteTrigger
  <2>1. up' = up /\ step \notin {"offset", "slope"} /\ step' \notin {"offset", "slope"}
    BY <1>24 DEF WriteTrigger, Goes
  <2>2. memory'.calib = memory.calib
    BY <1>24 DEF WriteTrigger, Goes
  <2>3. \A i \in HasNodes, node \in {"offset", "slope"} : mcs'[<<node, i>>] = mcs[<<node, i>>]
    BY <1>24 DEF WriteTrigger, Goes
  <2>4. QED
    BY <2>1, <2>2, <2>3, CalibsFrame
<1>25. CASE Crash
  BY <1>25 DEF Crash, Dies, CalibsInv
<1>26. CASE McsLooks
  BY <1>26, CalibsSame DEF McsLooks
<1>27. CASE \E newContainer \in BOOLEAN : Restart(newContainer)
  <2>1. step' = step /\ step = "idle" /\ \A i \in HasNodes : memory'.calib[i] = 0
    BY <1>27 DEF Restart, Configured, CommandOK
  <2>2. QED
    BY <2>1 DEF CalibsInv
<1>28. CASE UNCHANGED vars
  BY <1>28, CalibsSame DEF vars
<1>29. QED
  BY <1>1, <1>2, <1>3, <1>4, <1>5, <1>6, <1>7, <1>8, <1>9, <1>10, <1>11, <1>12, <1>13, <1>14,
     <1>15, <1>16, <1>17, <1>18, <1>19, <1>20, <1>21, <1>22, <1>23, <1>24, <1>25, <1>26,
     <1>27, <1>28 DEF Next, Command

(* Between two messages, and when load_calibs saves it, the process remembers of limits,          *)
(* igniters and calibrations what the MCS has, whatever was rejected, killed or started again.    *)
THEOREM RememberedIsWritten == Spec => []MemoryIsMcs
<1>1. Init => MemoryInv
  <2> SUFFICES ASSUME Init PROVE MemoryInv
    OBVIOUS
  <2>1. step = "idle" /\ memory = Configured
    BY DEF Init
  <2>2. LimitsInv
    BY <2>1 DEF LimitsInv, Configured
  <2>3. IgnitersInv
    BY <2>1 DEF IgnitersInv, Configured
  <2>4. CalibsInv
    BY <2>1 DEF CalibsInv, Configured
  <2>5. QED
    BY <2>2, <2>3, <2>4 DEF MemoryInv
<1>2. TypeOK /\ MemoryInv => MemoryIsMcs
  BY DEF TypeOK, CommandOK, MemoryInv, LimitsInv, IgnitersInv, CalibsInv, MemoryIsMcs
<1>3. TypeOK /\ MemoryInv /\ [Next]_vars => MemoryInv'
  BY LimitsStep, IgnitersStep, CalibsStep DEF TypeOK, MemoryInv
<1>4. QED
  BY <1>1, <1>2, <1>3, TypeCorrect, PTL DEF Spec


-----------------------------------------------------------------------------
(* What a message writes.                                                      *)

LEMMA SendAt ==
  ASSUME NEW m \in SendMessages, NEW w \in Writes(m)
  PROVE  \/ \E i \in Limited(m) : w = <<3 * i - 2, <<"lower", i>>>>
         \/ \E i \in Limited(m) : w = <<3 * i - 1, <<"upper", i>>>>
         \/ \E i \in Limited(m) : w = <<3 * i, <<"timeout", i>>>>
         \/ m.request.delays /\ w = <<3 * NumRedlines + 1, <<"delays", 0>>>>
         \/ \E i \in Ignited(m) : w = <<3 * NumRedlines + 1 + i, <<"delay", i>>>>
         \/ Ignited(m) = 1 .. NumIgniters /\ w = <<3 * NumRedlines + NumIgniters + 2, <<"enabled", 0>>>>
<1>1. w \in SendWrites(m)
  BY DEF SendMessages, Writes
<1>2. QED
  BY <1>1 DEF SendWrites

LEMMA SendHas ==
  ASSUME NEW m \in SendMessages
  PROVE  /\ \A i \in Limited(m) : /\ <<3 * i - 2, <<"lower", i>>>> \in Writes(m)
                                  /\ <<3 * i - 1, <<"upper", i>>>> \in Writes(m)
                                  /\ <<3 * i, <<"timeout", i>>>> \in Writes(m)
         /\ m.request.delays => <<3 * NumRedlines + 1, <<"delays", 0>>>> \in Writes(m)
         /\ \A i \in Ignited(m) : <<3 * NumRedlines + 1 + i, <<"delay", i>>>> \in Writes(m)
         /\ Ignited(m) = 1 .. NumIgniters =>
              <<3 * NumRedlines + NumIgniters + 2, <<"enabled", 0>>>> \in Writes(m)
<1>1. Writes(m) = SendWrites(m)
  BY DEF SendMessages, Writes
<1>2. QED
  BY <1>1 DEF SendWrites

LEMMA CalibAt ==
  ASSUME NEW m \in CalibMessages, NEW w \in Writes(m)
  PROVE  \/ \E i \in Listed(m) : w = <<2 * i - 1, <<"offset", m.rows[i].sensor>>>>
         \/ \E i \in Listed(m) : w = <<2 * i, <<"slope", m.rows[i].sensor>>>>
<1>1. w \in CalibWrites(m)
  BY DEF CalibMessages, Writes
<1>2. QED
  BY <1>1 DEF CalibWrites

LEMMA CalibHas ==
  ASSUME NEW m \in CalibMessages, NEW i \in Listed(m)
  PROVE  /\ <<2 * i - 1, <<"offset", m.rows[i].sensor>>>> \in Writes(m)
         /\ <<2 * i, <<"slope", m.rows[i].sensor>>>> \in Writes(m)
<1>1. Writes(m) = CalibWrites(m)
  BY DEF CalibMessages, Writes
<1>2. QED
  BY <1>1 DEF CalibWrites

LEMMA Reached ==
  ASSUME NEW m
  PROVE  Limited(m) \subseteq 1 .. NumRedlines /\ Ignited(m) \subseteq 1 .. NumIgniters
BY DEF Limited, Ignited

LEMMA ListedRows ==
  ASSUME NEW m \in CalibMessages
  PROVE  Listed(m) \subseteq 1 .. Len(m.rows) /\ Len(m.rows) \in Nat
<1>1. m.rows \in Seq(Row)
  BY DEF CalibMessages
<1>2. QED
  BY <1>1 DEF Listed

LEMMA PlacesAreInt ==
  ASSUME NEW m \in SendMessages \cup CalibMessages, NEW w \in Writes(m)
  PROVE  w[1] \in Int /\ w[1] > 0
<1>1. CASE m \in SendMessages
  BY <1>1, SendAt, Reached
<1>2. CASE m \in CalibMessages
  BY <1>2, CalibAt, ListedRows
<1>3. QED
  BY <1>1, <1>2

(* The next place is that of one write. *)
LEMMA Advance ==
  ASSUME NEW m \in SendMessages \cup CalibMessages, NEW b, NEW p \in Int, NEW q \in Int, p <= q,
         NEW c \in Cells, <<q, c>> \in Writes(m),
         \A w \in Writes(m) : p < w[1] /\ w[1] <= q => w[2] = c
  PROVE  After(m, q, b) = [After(m, p, b) EXCEPT ![c] = Value(m, c)]
<1> DEFINE At(k, x) == \E w \in {w \in Writes(m) : w[1] <= k} : w[2] = x
<1>1. \A x \in Cells : At(q, x) <=> At(p, x) \/ x = c
  <2>1. \A w \in Writes(m) : w[1] \in Int
    BY PlacesAreInt
  <2>2. At(q, c)
    OBVIOUS
  <2>3. \A x : At(p, x) => At(q, x)
    BY <2>1
  <2>4. \A x : At(q, x) => At(p, x) \/ x = c
    BY <2>1
  <2>5. QED
    BY <2>2, <2>3, <2>4
<1>2. \A k : After(m, k, b) = [x \in Cells |-> IF At(k, x) THEN Value(m, x) ELSE b[x]]
  BY DEF After
<1> HIDE DEF At
<1>3. After(m, q, b) = [x \in Cells |-> IF At(q, x) THEN Value(m, x) ELSE b[x]]
  BY <1>2
<1>4. After(m, p, b) = [x \in Cells |-> IF At(p, x) THEN Value(m, x) ELSE b[x]]
  BY <1>2
<1>5. QED
  BY <1>1, <1>3, <1>4

(* No write has a place up to the next. *)
LEMMA Stays ==
  ASSUME NEW m \in SendMessages \cup CalibMessages, NEW b, NEW p \in Int, NEW q \in Int, p <= q,
         \A w \in Writes(m) : ~(p < w[1] /\ w[1] <= q)
  PROVE  After(m, q, b) = After(m, p, b)
<1>1. \A w \in Writes(m) : w[1] \in Int
  BY PlacesAreInt
<1>2. {w \in Writes(m) : w[1] <= q} = {w \in Writes(m) : w[1] <= p}
  BY <1>1
<1>3. QED
  BY <1>2 DEF After

LEMMA NothingYet ==
  ASSUME NEW m \in Messages, NEW b \in [Cells -> Int]
  PROVE  After(m, 0, b) = b
<1>1. {w \in Writes(m) : w[1] <= 0} = {}
  <2>1. CASE m \in SendMessages \cup CalibMessages
    BY <2>1, PlacesAreInt
  <2>2. CASE m \in [type : {"start"}]
    BY <2>2 DEF Writes
  <2>3. QED
    BY <2>1, <2>2 DEF Messages
<1>2. QED
  BY <1>1 DEF After

LEMMA LowerNext ==
  ASSUME NEW m \in SendMessages, NEW i \in Limited(m), NEW b
  PROVE  After(m, 3 * i - 2, b) = [After(m, 3 * (i - 1), b) EXCEPT ![<<"lower", i>>] = Limit(m, i)]
<1>1. i \in 1 .. NumRedlines /\ <<"lower", i>> \in Cells
  BY Reached DEF Cells
<1>2. <<3 * i - 2, <<"lower", i>>>> \in Writes(m)
  BY SendHas
<1>3. ASSUME NEW w \in Writes(m), 3 * (i - 1) < w[1], w[1] <= 3 * i - 2
      PROVE  w[2] = <<"lower", i>>
  BY <1>1, <1>3, SendAt, Reached
<1>4. Value(m, <<"lower", i>>) = Limit(m, i)
  BY DEF Value
<1>5. 3 * (i - 1) \in Int /\ 3 * i - 2 \in Int /\ 3 * (i - 1) <= 3 * i - 2
  BY <1>1
<1>6. QED
  BY <1>1, <1>2, <1>3, <1>4, <1>5, Advance

LEMMA UpperNext ==
  ASSUME NEW m \in SendMessages, NEW i \in Limited(m), NEW b
  PROVE  After(m, 3 * i - 1, b) = [After(m, 3 * i - 2, b) EXCEPT ![<<"upper", i>>] = Limit(m, i)]
<1>1. i \in 1 .. NumRedlines /\ <<"upper", i>> \in Cells
  BY Reached DEF Cells
<1>2. <<3 * i - 1, <<"upper", i>>>> \in Writes(m)
  BY SendHas
<1>3. ASSUME NEW w \in Writes(m), 3 * i - 2 < w[1], w[1] <= 3 * i - 1
      PROVE  w[2] = <<"upper", i>>
  BY <1>1, <1>3, SendAt, Reached
<1>4. Value(m, <<"upper", i>>) = Limit(m, i)
  BY DEF Value
<1>5. 3 * i - 2 \in Int /\ 3 * i - 1 \in Int /\ 3 * i - 2 <= 3 * i - 1
  BY <1>1
<1>6. QED
  BY <1>1, <1>2, <1>3, <1>4, <1>5, Advance

LEMMA TimeoutNext ==
  ASSUME NEW m \in SendMessages, NEW i \in Limited(m), NEW b
  PROVE  After(m, 3 * i, b) = [After(m, 3 * i - 1, b) EXCEPT ![<<"timeout", i>>] = Limit(m, i)]
<1>1. i \in 1 .. NumRedlines /\ <<"timeout", i>> \in Cells
  BY Reached DEF Cells
<1>2. <<3 * i, <<"timeout", i>>>> \in Writes(m)
  BY SendHas
<1>3. ASSUME NEW w \in Writes(m), 3 * i - 1 < w[1], w[1] <= 3 * i
      PROVE  w[2] = <<"timeout", i>>
  BY <1>1, <1>3, SendAt, Reached
<1>4. Value(m, <<"timeout", i>>) = Limit(m, i)
  BY DEF Value
<1>5. 3 * i - 1 \in Int /\ 3 * i \in Int /\ 3 * i - 1 <= 3 * i
  BY <1>1
<1>6. QED
  BY <1>1, <1>2, <1>3, <1>4, <1>5, Advance

LEMMA DelaysNext ==
  ASSUME NEW m \in SendMessages, NEW b, m.request.delays
  PROVE  After(m, 3 * NumRedlines + 1, b) = [After(m, 3 * NumRedlines, b) EXCEPT ![<<"delays", 0>>] = m.number]
<1>1. <<"delays", 0>> \in Cells
  BY Reached DEF Cells
<1>2. <<3 * NumRedlines + 1, <<"delays", 0>>>> \in Writes(m)
  BY SendHas
<1>3. ASSUME NEW w \in Writes(m), 3 * NumRedlines < w[1], w[1] <= 3 * NumRedlines + 1
      PROVE  w[2] = <<"delays", 0>>
  BY <1>1, <1>3, SendAt, Reached
<1>4. Value(m, <<"delays", 0>>) = m.number
  BY DEF Value
<1>5. 3 * NumRedlines \in Int /\ 3 * NumRedlines + 1 \in Int /\ 3 * NumRedlines <= 3 * NumRedlines + 1
  BY <1>1
<1>6. QED
  BY <1>1, <1>2, <1>3, <1>4, <1>5, Advance

LEMMA DelayNext ==
  ASSUME NEW m \in SendMessages, NEW i \in Ignited(m), NEW b
  PROVE  After(m, 3 * NumRedlines + 1 + i, b) = [After(m, 3 * NumRedlines + i, b) EXCEPT ![<<"delay", i>>] = m.number]
<1>1. i \in 1 .. NumIgniters /\ <<"delay", i>> \in Cells
  BY Reached DEF Cells
<1>2. <<3 * NumRedlines + 1 + i, <<"delay", i>>>> \in Writes(m)
  BY SendHas
<1>3. ASSUME NEW w \in Writes(m), 3 * NumRedlines + i < w[1], w[1] <= 3 * NumRedlines + 1 + i
      PROVE  w[2] = <<"delay", i>>
  BY <1>1, <1>3, SendAt, Reached
<1>4. Value(m, <<"delay", i>>) = m.number
  BY DEF Value
<1>5. 3 * NumRedlines + i \in Int /\ 3 * NumRedlines + 1 + i \in Int /\ 3 * NumRedlines + i <= 3 * NumRedlines + 1 + i
  BY <1>1
<1>6. QED
  BY <1>1, <1>2, <1>3, <1>4, <1>5, Advance

LEMMA EnabledNext ==
  ASSUME NEW m \in SendMessages, NEW b, Ignited(m) = 1 .. NumIgniters
  PROVE  After(m, 3 * NumRedlines + NumIgniters + 2, b) = [After(m, 3 * NumRedlines + NumIgniters + 1, b) EXCEPT ![<<"enabled", 0>>] = m.number]
<1>1. <<"enabled", 0>> \in Cells
  BY Reached DEF Cells
<1>2. <<3 * NumRedlines + NumIgniters + 2, <<"enabled", 0>>>> \in Writes(m)
  BY SendHas
<1>3. ASSUME NEW w \in Writes(m), 3 * NumRedlines + NumIgniters + 1 < w[1], w[1] <= 3 * NumRedlines + NumIgniters + 2
      PROVE  w[2] = <<"enabled", 0>>
  BY <1>1, <1>3, SendAt, Reached
<1>4. Value(m, <<"enabled", 0>>) = m.number
  BY DEF Value
<1>5. 3 * NumRedlines + NumIgniters + 1 \in Int /\ 3 * NumRedlines + NumIgniters + 2 \in Int /\ 3 * NumRedlines + NumIgniters + 1 <= 3 * NumRedlines + NumIgniters + 2
  BY <1>1
<1>6. QED
  BY <1>1, <1>2, <1>3, <1>4, <1>5, Advance

LEMMA OffsetNext ==
  ASSUME NEW m \in CalibMessages, NEW i \in Listed(m), NEW b
  PROVE  After(m, 2 * i - 1, b) = [After(m, 2 * (i - 1), b) EXCEPT ![<<"offset", m.rows[i].sensor>>] = m.number]
<1>1. i \in 1 .. Len(m.rows) /\ Len(m.rows) \in Nat /\ <<"offset", m.rows[i].sensor>> \in Cells
  BY ListedRows DEF Cells, Listed
<1>2. <<2 * i - 1, <<"offset", m.rows[i].sensor>>>> \in Writes(m)
  BY CalibHas
<1>3. ASSUME NEW w \in Writes(m), 2 * (i - 1) < w[1], w[1] <= 2 * i - 1
      PROVE  w[2] = <<"offset", m.rows[i].sensor>>
  BY <1>1, <1>3, CalibAt, ListedRows
<1>4. Value(m, <<"offset", m.rows[i].sensor>>) = m.number
  BY DEF Value
<1>5. 2 * (i - 1) \in Int /\ 2 * i - 1 \in Int /\ 2 * (i - 1) <= 2 * i - 1
  BY <1>1
<1>6. QED
  BY <1>1, <1>2, <1>3, <1>4, <1>5, Advance

LEMMA SlopeNext ==
  ASSUME NEW m \in CalibMessages, NEW i \in Listed(m), NEW b
  PROVE  After(m, 2 * i, b) = [After(m, 2 * i - 1, b) EXCEPT ![<<"slope", m.rows[i].sensor>>] = m.number]
<1>1. i \in 1 .. Len(m.rows) /\ Len(m.rows) \in Nat /\ <<"slope", m.rows[i].sensor>> \in Cells
  BY ListedRows DEF Cells, Listed
<1>2. <<2 * i, <<"slope", m.rows[i].sensor>>>> \in Writes(m)
  BY CalibHas
<1>3. ASSUME NEW w \in Writes(m), 2 * i - 1 < w[1], w[1] <= 2 * i
      PROVE  w[2] = <<"slope", m.rows[i].sensor>>
  BY <1>1, <1>3, CalibAt, ListedRows
<1>4. Value(m, <<"slope", m.rows[i].sensor>>) = m.number
  BY DEF Value
<1>5. 2 * i - 1 \in Int /\ 2 * i \in Int /\ 2 * i - 1 <= 2 * i
  BY <1>1
<1>6. QED
  BY <1>1, <1>2, <1>3, <1>4, <1>5, Advance

(* Behind a rejected redline no limit is written. *)
LEMMA RedlinesOver ==
  ASSUME NEW m \in SendMessages, NEW i \in 1 .. NumRedlines + 1,
         i <= NumRedlines => m.request.redlines[i] = "invalid", NEW b
  PROVE  After(m, 3 * NumRedlines, b) = After(m, 3 * (i - 1), b)
<1>0. \A j \in Limited(m) : j < i
  BY Reached DEF Limited
<1>1. ASSUME NEW w \in Writes(m), 3 * (i - 1) < w[1], w[1] <= 3 * NumRedlines
      PROVE  FALSE
  BY <1>1, <1>0, SendAt, Reached
<1>2. 3 * (i - 1) \in Int /\ 3 * NumRedlines \in Int /\ 3 * (i - 1) <= 3 * NumRedlines
  OBVIOUS
<1>3. QED
  BY <1>1, <1>2, Stays

(* Rejected delays are not written. *)
LEMMA DelaysRejected ==
  ASSUME NEW m \in SendMessages, ~m.request.delays, NEW b
  PROVE  After(m, 3 * NumRedlines + 1, b) = After(m, 3 * NumRedlines, b)
<1>1. ASSUME NEW w \in Writes(m), 3 * NumRedlines < w[1], w[1] <= 3 * NumRedlines + 1
      PROVE  FALSE
  BY <1>1, SendAt, Reached
<1>2. 3 * NumRedlines \in Int /\ 3 * NumRedlines + 1 \in Int /\ 3 * NumRedlines <= 3 * NumRedlines + 1
  OBVIOUS
<1>3. QED
  BY <1>1, <1>2, Stays

(* Behind a rejected igniter no delay is written, and no igniter is enabled. *)
LEMMA IgnitersOver ==
  ASSUME NEW m \in SendMessages, NEW i \in 1 .. NumIgniters,
         i <= Len(m.request.igniters), ~m.request.igniters[i], NEW b
  PROVE  After(m, 3 * NumRedlines + NumIgniters + 2, b) = After(m, 3 * NumRedlines + i, b)
<1>0. (\A j \in Ignited(m) : j < i) /\ Ignited(m) # 1 .. NumIgniters
  <2>1. \A j \in Ignited(m) : j < i
    BY Reached DEF Ignited
  <2>2. i \in 1 .. NumIgniters /\ ~(i < i)
    OBVIOUS
  <2>3. QED
    BY <2>1, <2>2
<1>1. ASSUME NEW w \in Writes(m), 3 * NumRedlines + i < w[1], w[1] <= 3 * NumRedlines + NumIgniters + 2
      PROVE  FALSE
  BY <1>1, <1>0, SendAt, Reached
<1>2. 3 * NumRedlines + i \in Int /\ 3 * NumRedlines + NumIgniters + 2 \in Int /\ 3 * NumRedlines + i <= 3 * NumRedlines + NumIgniters + 2
  OBVIOUS
<1>3. QED
  BY <1>1, <1>2, Stays

(* A row whose sensor has no nodes writes nothing. *)
LEMMA RowPassed ==
  ASSUME NEW m \in CalibMessages, NEW i \in 1 .. Len(m.rows),
         m.rows[i].sensor \notin HasNodes, NEW b
  PROVE  After(m, 2 * i, b) = After(m, 2 * (i - 1), b)
<1>0. i \notin Listed(m)
  BY DEF Listed
<1>1. ASSUME NEW w \in Writes(m), 2 * (i - 1) < w[1], w[1] <= 2 * i
      PROVE  FALSE
  BY <1>1, <1>0, CalibAt, ListedRows
<1>2. 2 * (i - 1) \in Int /\ 2 * i \in Int /\ 2 * (i - 1) <= 2 * i
  BY ListedRows
<1>3. QED
  BY <1>1, <1>2, Stays

(* Behind a rejected row no calibration is written. *)
LEMMA RowsOver ==
  ASSUME NEW m \in CalibMessages, NEW i \in 1 .. Len(m.rows),
         ~m.rows[i].valid, NEW b
  PROVE  After(m, 2 * Len(m.rows), b) = After(m, 2 * (i - 1), b)
<1>0. \A j \in Listed(m) : j < i
  BY ListedRows DEF Listed
<1>1. ASSUME NEW w \in Writes(m), 2 * (i - 1) < w[1], w[1] <= 2 * Len(m.rows)
      PROVE  FALSE
  BY <1>1, <1>0, CalibAt, ListedRows
<1>2. 2 * (i - 1) \in Int /\ 2 * Len(m.rows) \in Int /\ 2 * (i - 1) <= 2 * Len(m.rows)
  BY ListedRows
<1>3. QED
  BY <1>1, <1>2, Stays


-----------------------------------------------------------------------------
(* Where a command is among a message's writes.                                *)

\* What a command has passed was accepted.
ReachedInv ==
  /\ step \in RedlineSteps =>
       \A j \in 1 .. pos - 1 : cmd.request.redlines[j] \in {"unsent", "valid"}
  /\ step \in IgniterSteps => \A j \in 1 .. pos - 1 : j <= Given /\ cmd.request.igniters[j]
  /\ step \in CalibSteps => \A j \in 1 .. pos - 1 : cmd.rows[j].valid

\* The place up to which the message's writes are done.
Done == CASE step \in {"redline", "lower"} -> 3 * (pos - 1)
          [] step = "upper" -> 3 * pos - 2
          [] step = "timeout" -> 3 * pos - 1
          [] step = "delays" -> 3 * NumRedlines
          [] step \in IgniterSteps -> 3 * NumRedlines + pos
          [] step \in {"row", "offset"} -> 2 * (pos - 1)
          [] step = "slope" -> 2 * pos - 1
          [] OTHER -> 0

WrittenInv ==
  /\ step # "idle" => mcs = After(cmd, Done, before)
  /\ step = "idle" => WritesAsDefined

(* A command goes on only past what it accepts.                                *)
LEMMA ReachedStep == CommandOK /\ PlaceOK /\ ReachedInv /\ [Next]_vars => ReachedInv'
<1> SUFFICES ASSUME CommandOK, PlaceOK, ReachedInv, [Next]_vars PROVE ReachedInv'
  OBVIOUS
<1> USE DEF ReachedInv, CommandOK, PlaceOK, Given, Here, nodes, stored, counters, SendSteps, RedlineSteps, IgniterSteps, CalibSteps, StartSteps, Steps
<1>1. CASE Send
  BY <1>1 DEF Send, Message
<1>2. CASE SendCalibs
  BY <1>2 DEF SendCalibs, Message
<1>3. CASE Start
  BY <1>3 DEF Start
<1>4. CASE Take
  BY <1>4 DEF Take
<1>5. CASE Redline
  BY <1>5 DEF Redline, Goes
<1>6. CASE RedlinesEnd
  BY <1>6 DEF RedlinesEnd, Goes
<1>7. CASE RedlineRaises
  BY <1>7 DEF RedlineRaises, Dies
<1>8. CASE WriteLower
  BY <1>8 DEF WriteLower, Goes
<1>9. CASE WriteUpper
  BY <1>9 DEF WriteUpper, Goes
<1>10. CASE WriteTimeout
  BY <1>10 DEF WriteTimeout, Goes
<1>11. CASE WriteDelays
  BY <1>11 DEF WriteDelays, Goes
<1>12. CASE Igniter
  BY <1>12 DEF Igniter, Goes
<1>13. CASE IgniterRejected
  BY <1>13 DEF IgniterRejected, Goes
<1>14. CASE IgniterRaises
  BY <1>14 DEF IgniterRaises, Dies
<1>15. CASE WriteDelay
  BY <1>15 DEF WriteDelay, Goes
<1>16. CASE WriteEnabled
  BY <1>16 DEF WriteEnabled, Goes
<1>17. CASE CalibRow
  BY <1>17 DEF CalibRow, Sent, Goes
<1>18. CASE RowSkipped
  BY <1>18 DEF RowSkipped, Goes
<1>19. CASE RowRejected
  BY <1>19 DEF RowRejected, Goes
<1>20. CASE WriteOffset
  BY <1>20 DEF WriteOffset, Goes
<1>21. CASE WriteSlope
  BY <1>21 DEF WriteSlope, Goes
<1>22. CASE Save
  BY <1>22 DEF Save, Goes
<1>23. CASE ReadTrigger
  BY <1>23 DEF ReadTrigger, Goes
<1>24. CASE WriteTrigger
  BY <1>24 DEF WriteTrigger, Goes
<1>25. CASE Crash
  BY <1>25 DEF Crash, Dies
<1>26. CASE McsLooks
  BY <1>26 DEF McsLooks
<1>27. CASE \E newContainer \in BOOLEAN : Restart(newContainer)
  BY <1>27 DEF Restart
<1>28. CASE UNCHANGED vars
  BY <1>28 DEF vars
<1>29. QED
  BY <1>1, <1>2, <1>3, <1>4, <1>5, <1>6, <1>7, <1>8, <1>9, <1>10, <1>11, <1>12, <1>13, <1>14,
     <1>15, <1>16, <1>17, <1>18, <1>19, <1>20, <1>21, <1>22, <1>23, <1>24, <1>25, <1>26,
     <1>27, <1>28 DEF Next, Command

LEMMA DoneIsAPlace ==
  ASSUME CommandOK, PlaceOK, step # "idle"
  PROVE  cmd \in Messages /\ LastPlace(cmd) \in Nat /\ Done \in 0 .. LastPlace(cmd)
<1>1. CASE step \in SendSteps
  <2>1. cmd \in SendMessages /\ cmd \in Messages /\ LastPlace(cmd) = 3 * NumRedlines + NumIgniters + 2
    BY <1>1 DEF CommandOK, SendMessages, Messages, LastPlace
  <2>2. pos \in Nat \ {0} /\ (step \in RedlineSteps => pos <= NumRedlines + 1)
          /\ (step \in {"lower", "upper", "timeout"} => pos <= NumRedlines)
          /\ (step \in IgniterSteps => pos <= NumIgniters + 1)
    BY <1>1 DEF CommandOK, PlaceOK, RedlineSteps, IgniterSteps
  <2>3. CASE step \in {"redline", "lower"}
    <3>1. Done = 3 * (pos - 1)
      BY <2>3 DEF Done, IgniterSteps
    <3>2. QED
      BY <3>1, <2>1, <2>2, <2>3 DEF RedlineSteps
  <2>4. CASE step \in {"upper", "timeout"}
    <3>1. Done \in {3 * pos - 2, 3 * pos - 1}
      BY <2>4 DEF Done, IgniterSteps
    <3>2. QED
      BY <3>1, <2>1, <2>2, <2>4
  <2>5. CASE step = "delays"
    <3>1. Done = 3 * NumRedlines
      BY <2>5 DEF Done, IgniterSteps
    <3>2. QED
      BY <3>1, <2>1
  <2>6. CASE step \in IgniterSteps
    <3>1. Done = 3 * NumRedlines + pos
      BY <2>6 DEF Done, IgniterSteps
    <3>2. QED
      BY <3>1, <2>1, <2>2, <2>6
  <2>7. QED
    BY <1>1, <2>3, <2>4, <2>5, <2>6 DEF SendSteps, RedlineSteps
<1>2. CASE step \in CalibSteps
  <2>1. cmd \in CalibMessages /\ cmd \in Messages
    BY <1>2 DEF CommandOK, Messages
  <2>2. LastPlace(cmd) = 2 * Len(cmd.rows) /\ Len(cmd.rows) \in Nat
    BY <2>1, ListedRows DEF CalibMessages, LastPlace
  <2>3. pos \in Nat \ {0} /\ pos <= Len(cmd.rows) + 1 /\ (step # "row" => pos <= Len(cmd.rows))
    BY <1>2, <2>2 DEF CommandOK, PlaceOK, CalibSteps
  <2>4. CASE step \in {"row", "offset"}
    <3>1. Done = 2 * (pos - 1)
      BY <2>4 DEF Done, IgniterSteps
    <3>2. QED
      BY <3>1, <2>1, <2>2, <2>3
  <2>5. CASE step = "slope"
    <3>1. Done = 2 * pos - 1
      BY <2>5 DEF Done, IgniterSteps
    <3>2. QED
      BY <3>1, <2>1, <2>2, <2>3, <2>5
  <2>6. QED
    BY <1>2, <2>4, <2>5 DEF CalibSteps
<1>3. CASE step \in StartSteps
  BY <1>3 DEF CommandOK, StartSteps, Messages, IgniterSteps, Done, LastPlace
<1>4. QED
  BY <1>1, <1>2, <1>3 DEF CommandOK, Steps

(* Between the steps of a message, at its end and wherever it was cut, the nodes are its    *)
(* first writes.                                                                         *)
LEMMA WrittenIsDefined ==
  ASSUME CommandOK, PlaceOK, WrittenInv
  PROVE  WritesAsDefined
<1>1. CASE step = "idle"
  BY <1>1 DEF WrittenInv
<1>2. CASE step # "idle"
  BY <1>2, DoneIsAPlace DEF WrittenInv, WritesAsDefined
<1>3. QED
  BY <1>1, <1>2

(* An end of the process leaves what was written. *)
LEMMA CutIsDefined ==
  ASSUME CommandOK, PlaceOK, WrittenInv, up, up' = FALSE, step' = "idle", UNCHANGED <<cmd, mcs, before>>
  PROVE  WrittenInv'
<1>1. CASE step # "idle"
  BY <1>1, DoneIsAPlace DEF WrittenInv, WritesAsDefined
<1>2. CASE step = "idle" /\ cmd = NoCmd
  BY <1>2 DEF WrittenInv, WritesAsDefined
<1>3. CASE step = "idle" /\ cmd # NoCmd
  <2>1. mcs = After(cmd, LastPlace(cmd), before)
    BY <1>3 DEF WrittenInv, WritesAsDefined
  <2>2. LastPlace(cmd) \in 0 .. LastPlace(cmd)
    <3>1. cmd \in Messages
      BY <1>3 DEF CommandOK
    <3>2. LastPlace(cmd) \in Nat
      <4>1. CASE cmd.type = "calibs"
        BY <3>1, <4>1, ListedRows DEF Messages, SendMessages, LastPlace, CalibMessages
      <4>2. CASE cmd.type # "calibs"
        BY <4>2 DEF LastPlace
      <4>3. QED
        BY <4>1, <4>2
    <3>3. QED
      BY <3>2
  <2>3. QED
    BY <2>1, <2>2 DEF WrittenInv, WritesAsDefined
<1>4. QED
  BY <1>1, <1>2, <1>3

LEMMA WrittenSame == WrittenInv /\ UNCHANGED <<up, cmd, pos, step, mcs, before>> => WrittenInv'
BY DEF WrittenInv, WritesAsDefined, Done

LEMMA LastPlaces ==
  /\ \A m \in SendMessages : LastPlace(m) = 3 * NumRedlines + NumIgniters + 2
  /\ \A m \in CalibMessages : LastPlace(m) = 2 * Len(m.rows)
BY DEF SendMessages, CalibMessages, LastPlace

(* Each write is the next one that the message defines.                        *)
LEMMA WrittenStep == CommandOK /\ PlaceOK /\ NodesOK /\ ReachedInv /\ WrittenInv /\ [Next]_vars => WrittenInv'
<1> SUFFICES ASSUME CommandOK, PlaceOK, NodesOK, ReachedInv, WrittenInv, [Next]_vars PROVE WrittenInv'
  OBVIOUS
<1> USE DEF nodes, stored, counters
<1>1. CASE Send
  BY <1>1, WrittenSame DEF Send, Message
<1>2. CASE SendCalibs
  BY <1>2, WrittenSame DEF SendCalibs, Message
<1>3. CASE Start
  BY <1>3, WrittenSame DEF Start
<1>4. CASE Take
  <2> USE <1>4
  <2>1. cmd' \in Messages /\ before' = mcs /\ mcs' = mcs /\ pos' = 1
    BY HeadOfQueue DEF Take, CommandOK
  <2>2. step' \in {"redline", "row", "read"}
    BY <2>1 DEF Take
  <2>3. Done' = 0
    BY <2>1, <2>2 DEF Done, IgniterSteps
  <2>4. After(cmd', 0, mcs) = mcs
    BY <2>1, NothingYet DEF NodesOK
  <2>5. QED
    BY <2>1, <2>2, <2>3, <2>4 DEF WrittenInv
<1>5. CASE Redline
  <2> USE <1>5
  <2>1. cmd \in SendMessages /\ pos \in Nat \ {0} /\ step = "redline" /\ step' = "lower" /\ UNCHANGED <<cmd, before>> /\ pos' = pos
    BY DEF Redline, Goes, CommandOK, SendSteps, RedlineSteps, IgniterSteps, CalibSteps, StartSteps, Steps
  <2>2. mcs' = mcs
    BY <2>1 DEF Redline
  <2>3. Done = 3 * (pos - 1) /\ Done' = 3 * (pos - 1)
    BY <2>1 DEF Done, IgniterSteps, CommandOK
  <2>4. TRUE
    OBVIOUS
  <2>5. mcs = After(cmd, Done, before)
    BY <2>1 DEF WrittenInv
  <2>6. QED
    BY <2>1, <2>2, <2>3, <2>4, <2>5 DEF WrittenInv
<1>6. CASE RedlinesEnd
  <2> USE <1>6
  <2>1. cmd \in SendMessages /\ pos \in Nat \ {0} /\ step = "redline" /\ step' = "delays" /\ UNCHANGED <<cmd, before>> /\ pos' = pos
    BY DEF RedlinesEnd, Goes, CommandOK, SendSteps, RedlineSteps, IgniterSteps, CalibSteps, StartSteps, Steps
  <2>2. mcs' = mcs /\ pos \in 1 .. NumRedlines + 1
          /\ (pos <= NumRedlines => cmd.request.redlines[pos] = "invalid")
    BY <2>1 DEF RedlinesEnd, PlaceOK
  <2>3. Done = 3 * (pos - 1) /\ Done' = 3 * NumRedlines
    BY <2>1 DEF Done, IgniterSteps, CommandOK
  <2>4. After(cmd, 3 * NumRedlines, before) = After(cmd, 3 * (pos - 1), before)
    BY <2>1, <2>2, RedlinesOver
  <2>5. mcs = After(cmd, Done, before)
    BY <2>1 DEF WrittenInv
  <2>6. QED
    BY <2>1, <2>2, <2>3, <2>4, <2>5 DEF WrittenInv
<1>7. CASE RedlineRaises
  BY <1>7, CutIsDefined DEF RedlineRaises, Dies
<1>8. CASE WriteLower
  <2> USE <1>8
  <2>1. cmd \in SendMessages /\ pos \in Nat \ {0} /\ step = "lower" /\ step' = "upper" /\ UNCHANGED <<cmd, before>> /\ pos' = pos
    BY DEF WriteLower, Goes, CommandOK, SendSteps, RedlineSteps, IgniterSteps, CalibSteps, StartSteps, Steps
  <2>2. pos \in Limited(cmd)
    BY <2>1 DEF Limited, PlaceOK, ReachedInv, RedlineSteps, CommandOK
  <2>3. Done = 3 * (pos - 1) /\ Done' = 3 * pos - 2
    BY <2>1 DEF Done, IgniterSteps, CommandOK
  <2>4. mcs' = [mcs EXCEPT ![<<"lower", pos>>] = Limit(cmd, pos)]
    BY DEF WriteLower
  <2>5. mcs = After(cmd, Done, before)
    BY <2>1 DEF WrittenInv
  <2>6. QED
    BY LowerNext, <2>1, <2>2, <2>3, <2>4, <2>5 DEF WrittenInv
<1>9. CASE WriteUpper
  <2> USE <1>9
  <2>1. cmd \in SendMessages /\ pos \in Nat \ {0} /\ step = "upper" /\ step' = "timeout" /\ UNCHANGED <<cmd, before>> /\ pos' = pos
    BY DEF WriteUpper, Goes, CommandOK, SendSteps, RedlineSteps, IgniterSteps, CalibSteps, StartSteps, Steps
  <2>2. pos \in Limited(cmd)
    BY <2>1 DEF Limited, PlaceOK, ReachedInv, RedlineSteps, CommandOK
  <2>3. Done = 3 * pos - 2 /\ Done' = 3 * pos - 1
    BY <2>1 DEF Done, IgniterSteps, CommandOK
  <2>4. mcs' = [mcs EXCEPT ![<<"upper", pos>>] = Limit(cmd, pos)]
    BY DEF WriteUpper
  <2>5. mcs = After(cmd, Done, before)
    BY <2>1 DEF WrittenInv
  <2>6. QED
    BY UpperNext, <2>1, <2>2, <2>3, <2>4, <2>5 DEF WrittenInv
<1>10. CASE WriteTimeout
  <2> USE <1>10
  <2>1. cmd \in SendMessages /\ pos \in Nat \ {0} /\ step = "timeout" /\ step' = "redline" /\ UNCHANGED <<cmd, before>> /\ pos' = pos + 1
    BY DEF WriteTimeout, Goes, CommandOK, SendSteps, RedlineSteps, IgniterSteps, CalibSteps, StartSteps, Steps
  <2>2. pos \in Limited(cmd)
    BY <2>1 DEF Limited, PlaceOK, ReachedInv, RedlineSteps, CommandOK
  <2>3. Done = 3 * pos - 1 /\ Done' = 3 * pos
    BY <2>1 DEF Done, IgniterSteps, CommandOK
  <2>4. mcs' = [mcs EXCEPT ![<<"timeout", pos>>] = Limit(cmd, pos)]
    BY DEF WriteTimeout
  <2>5. mcs = After(cmd, Done, before)
    BY <2>1 DEF WrittenInv
  <2>6. QED
    BY TimeoutNext, <2>1, <2>2, <2>3, <2>4, <2>5 DEF WrittenInv
<1>11. CASE WriteDelays
  <2> USE <1>11
  <2>1. cmd \in SendMessages /\ pos \in Nat \ {0} /\ step = "delays" /\ step' = "igniter" /\ UNCHANGED <<cmd, before>> /\ pos' = 1
    BY DEF WriteDelays, Goes, CommandOK, SendSteps, RedlineSteps, IgniterSteps, CalibSteps, StartSteps, Steps
  <2>2. mcs' = [mcs EXCEPT ![<<"delays", 0>>] = IF cmd.request.delays THEN cmd.number ELSE @]
    BY <2>1 DEF WriteDelays
  <2>3. Done = 3 * NumRedlines /\ Done' = 3 * NumRedlines + 1
    BY <2>1 DEF Done, IgniterSteps, CommandOK
  <2>4. After(cmd, 3 * NumRedlines + 1, before)
          = [After(cmd, 3 * NumRedlines, before)
               EXCEPT ![<<"delays", 0>>] = IF cmd.request.delays THEN cmd.number ELSE @]
    <3>1. CASE cmd.request.delays
      BY <2>1, <3>1, DelaysNext
    <3>2. CASE ~cmd.request.delays
      <4>1. After(cmd, 3 * NumRedlines + 1, before) = After(cmd, 3 * NumRedlines, before)
        BY <2>1, <3>2, DelaysRejected
      <4>2. \A f \in [Cells -> Int] : f = [f EXCEPT ![<<"delays", 0>>] = @]
        OBVIOUS
      <4>3. After(cmd, 3 * NumRedlines, before) \in [Cells -> Int]
        BY <2>1, <2>3 DEF WrittenInv, NodesOK
      <4>4. QED
        BY <3>2, <4>1, <4>2, <4>3
    <3>3. QED
      BY <3>1, <3>2
  <2>5. mcs = After(cmd, Done, before)
    BY <2>1 DEF WrittenInv
  <2>6. QED
    BY <2>1, <2>2, <2>3, <2>4, <2>5 DEF WrittenInv
<1>12. CASE Igniter
  <2> USE <1>12
  <2>1. cmd \in SendMessages /\ pos \in Nat \ {0} /\ step = "igniter" /\ step' = "delay" /\ UNCHANGED <<cmd, before>> /\ pos' = pos
    BY DEF Igniter, Goes, CommandOK, SendSteps, RedlineSteps, IgniterSteps, CalibSteps, StartSteps, Steps
  <2>2. mcs' = mcs
    BY <2>1 DEF Igniter
  <2>3. Done = 3 * NumRedlines + pos /\ Done' = 3 * NumRedlines + pos
    BY <2>1 DEF Done, IgniterSteps, CommandOK
  <2>4. TRUE
    OBVIOUS
  <2>5. mcs = After(cmd, Done, before)
    BY <2>1 DEF WrittenInv
  <2>6. QED
    BY <2>1, <2>2, <2>3, <2>4, <2>5 DEF WrittenInv
<1>13. CASE IgniterRejected
  <2> USE <1>13
  <2>1. cmd \in SendMessages /\ pos \in Nat \ {0} /\ step = "igniter" /\ step' = "idle" /\ UNCHANGED <<cmd, before>>
    BY DEF IgniterRejected, Goes, CommandOK, SendSteps, RedlineSteps, IgniterSteps, CalibSteps, StartSteps, Steps
  <2>2. pos \in 1 .. NumIgniters /\ pos <= Len(cmd.request.igniters) /\ ~cmd.request.igniters[pos]
    BY <2>1 DEF IgniterRejected, Given
  <2>3. Done = 3 * NumRedlines + pos
    BY <2>1, <2>2 DEF Done, IgniterSteps
  <2>4. After(cmd, 3 * NumRedlines + NumIgniters + 2, before) = After(cmd, 3 * NumRedlines + pos, before)
    BY <2>1, <2>2, IgnitersOver
  <2>5. mcs = After(cmd, Done, before)
    BY <2>1 DEF WrittenInv
  <2>6. up' /\ mcs' = After(cmd, LastPlace(cmd), before)
    BY <2>1, <2>2, <2>3, <2>4, <2>5, LastPlaces DEF IgniterRejected, Goes
  <2>7. QED
    BY <2>1, <2>6 DEF WrittenInv, WritesAsDefined
<1>14. CASE IgniterRaises
  BY <1>14, CutIsDefined DEF IgniterRaises, Dies
<1>15. CASE WriteDelay
  <2> USE <1>15
  <2>1. cmd \in SendMessages /\ pos \in Nat \ {0} /\ step = "delay" /\ step' = (IF pos = NumIgniters THEN "enabled" ELSE "igniter") /\ UNCHANGED <<cmd, before>> /\ pos' = pos + 1
    BY DEF WriteDelay, Goes, CommandOK, SendSteps, RedlineSteps, IgniterSteps, CalibSteps, StartSteps, Steps
  <2>2. pos \in Ignited(cmd)
    BY <2>1 DEF Ignited, PlaceOK, ReachedInv, IgniterSteps, Given, CommandOK
  <2>3. Done = 3 * NumRedlines + pos /\ Done' = 3 * NumRedlines + 1 + pos
    BY <2>1 DEF Done, IgniterSteps, CommandOK
  <2>4. mcs' = [mcs EXCEPT ![<<"delay", pos>>] = cmd.number]
    BY DEF WriteDelay
  <2>5. mcs = After(cmd, Done, before)
    BY <2>1 DEF WrittenInv
  <2>6. QED
    BY DelayNext, <2>1, <2>2, <2>3, <2>4, <2>5 DEF WrittenInv
<1>16. CASE WriteEnabled
  <2> USE <1>16
  <2>1. cmd \in SendMessages /\ pos \in Nat \ {0} /\ step = "enabled" /\ step' = "idle" /\ UNCHANGED <<cmd, before>>
    BY DEF WriteEnabled, Goes, CommandOK, SendSteps, RedlineSteps, IgniterSteps, CalibSteps, StartSteps, Steps
  <2>2. Ignited(cmd) = 1 .. NumIgniters /\ pos = NumIgniters + 1
    BY <2>1 DEF Ignited, PlaceOK, ReachedInv, IgniterSteps, Given, CommandOK
  <2>3. Done = 3 * NumRedlines + NumIgniters + 1
    BY <2>1, <2>2 DEF Done, IgniterSteps
  <2>4. After(cmd, 3 * NumRedlines + NumIgniters + 2, before)
          = [After(cmd, 3 * NumRedlines + NumIgniters + 1, before) EXCEPT ![<<"enabled", 0>>] = cmd.number]
    BY <2>1, <2>2, EnabledNext
  <2>5. mcs = After(cmd, Done, before)
    BY <2>1 DEF WrittenInv
  <2>6. up' /\ mcs' = After(cmd, LastPlace(cmd), before)
    BY <2>1, <2>2, <2>3, <2>4, <2>5, LastPlaces DEF WriteEnabled, Goes
  <2>7. QED
    BY <2>1, <2>6 DEF WrittenInv, WritesAsDefined
<1>17. CASE CalibRow
  <2> USE <1>17
  <2>1. cmd \in CalibMessages /\ pos \in Nat \ {0} /\ step = "row" /\ step' = "offset" /\ UNCHANGED <<cmd, before>> /\ pos' = pos
    BY DEF CalibRow, Sent, Goes, CommandOK, SendSteps, RedlineSteps, IgniterSteps, CalibSteps, StartSteps, Steps
  <2>2. mcs' = mcs
    BY <2>1 DEF CalibRow
  <2>3. Done = 2 * (pos - 1) /\ Done' = 2 * (pos - 1)
    BY <2>1 DEF Done, IgniterSteps, CommandOK
  <2>4. TRUE
    OBVIOUS
  <2>5. mcs = After(cmd, Done, before)
    BY <2>1 DEF WrittenInv
  <2>6. QED
    BY <2>1, <2>2, <2>3, <2>4, <2>5 DEF WrittenInv
<1>18. CASE RowSkipped
  <2> USE <1>18
  <2>1. cmd \in CalibMessages /\ pos \in Nat \ {0} /\ step = "row" /\ step' = "row" /\ UNCHANGED <<cmd, before>> /\ pos' = pos + 1
    BY DEF RowSkipped, Goes, CommandOK, SendSteps, RedlineSteps, IgniterSteps, CalibSteps, StartSteps, Steps
  <2>2. mcs' = mcs /\ pos \in 1 .. Len(cmd.rows) /\ cmd.rows[pos].sensor \notin HasNodes
    BY <2>1, ListedRows DEF RowSkipped, Here
  <2>3. Done = 2 * (pos - 1) /\ Done' = 2 * pos
    BY <2>1 DEF Done, IgniterSteps, CommandOK
  <2>4. After(cmd, 2 * pos, before) = After(cmd, 2 * (pos - 1), before)
    BY <2>1, <2>2, RowPassed
  <2>5. mcs = After(cmd, Done, before)
    BY <2>1 DEF WrittenInv
  <2>6. QED
    BY <2>1, <2>2, <2>3, <2>4, <2>5 DEF WrittenInv
<1>19. CASE RowRejected
  <2> USE <1>19
  <2>1. cmd \in CalibMessages /\ pos \in Nat \ {0} /\ step = "row" /\ step' = "idle" /\ UNCHANGED <<cmd, before>>
    BY DEF RowRejected, Goes, CommandOK, SendSteps, RedlineSteps, IgniterSteps, CalibSteps, StartSteps, Steps
  <2>2. pos \in 1 .. Len(cmd.rows) /\ ~cmd.rows[pos].valid
    BY <2>1, ListedRows DEF RowRejected, Here
  <2>3. Done = 2 * (pos - 1)
    BY <2>1, <2>2 DEF Done, IgniterSteps
  <2>4. After(cmd, 2 * Len(cmd.rows), before) = After(cmd, 2 * (pos - 1), before)
    BY <2>1, <2>2, RowsOver
  <2>5. mcs = After(cmd, Done, before)
    BY <2>1 DEF WrittenInv
  <2>6. up' /\ mcs' = After(cmd, LastPlace(cmd), before)
    BY <2>1, <2>2, <2>3, <2>4, <2>5, LastPlaces DEF RowRejected, Goes
  <2>7. QED
    BY <2>1, <2>6 DEF WrittenInv, WritesAsDefined
<1>20. CASE WriteOffset
  <2> USE <1>20
  <2>1. cmd \in CalibMessages /\ pos \in Nat \ {0} /\ step = "offset" /\ step' = "slope" /\ UNCHANGED <<cmd, before>> /\ pos' = pos
    BY DEF WriteOffset, Goes, CommandOK, SendSteps, RedlineSteps, IgniterSteps, CalibSteps, StartSteps, Steps
  <2>2. pos \in Listed(cmd)
    BY <2>1, ListedRows DEF Listed, PlaceOK, ReachedInv, CalibSteps, Here, CalibMessages
  <2>3. Done = 2 * (pos - 1) /\ Done' = 2 * pos - 1
    BY <2>1 DEF Done, IgniterSteps, CommandOK
  <2>4. mcs' = [mcs EXCEPT ![<<"offset", cmd.rows[pos].sensor>>] = cmd.number]
    BY DEF WriteOffset, Here
  <2>5. mcs = After(cmd, Done, before)
    BY <2>1 DEF WrittenInv
  <2>6. QED
    BY OffsetNext, <2>1, <2>2, <2>3, <2>4, <2>5 DEF WrittenInv
<1>21. CASE WriteSlope
  <2> USE <1>21
  <2>1. cmd \in CalibMessages /\ pos \in Nat \ {0} /\ step = "slope" /\ step' = "row" /\ UNCHANGED <<cmd, before>> /\ pos' = pos + 1
    BY DEF WriteSlope, Goes, CommandOK, SendSteps, RedlineSteps, IgniterSteps, CalibSteps, StartSteps, Steps
  <2>2. pos \in Listed(cmd)
    BY <2>1, ListedRows DEF Listed, PlaceOK, ReachedInv, CalibSteps, Here, CalibMessages
  <2>3. Done = 2 * pos - 1 /\ Done' = 2 * pos
    BY <2>1 DEF Done, IgniterSteps, CommandOK
  <2>4. mcs' = [mcs EXCEPT ![<<"slope", cmd.rows[pos].sensor>>] = cmd.number]
    BY DEF WriteSlope, Here
  <2>5. mcs = After(cmd, Done, before)
    BY <2>1 DEF WrittenInv
  <2>6. QED
    BY SlopeNext, <2>1, <2>2, <2>3, <2>4, <2>5 DEF WrittenInv
<1>22. CASE Save
  <2> USE <1>22
  <2>1. cmd \in CalibMessages /\ pos \in Nat \ {0} /\ step = "row" /\ step' = "idle" /\ UNCHANGED <<cmd, before>>
    BY DEF Save, Goes, CommandOK, SendSteps, RedlineSteps, IgniterSteps, CalibSteps, StartSteps, Steps
  <2>2. pos = Len(cmd.rows) + 1
    BY <2>1, ListedRows DEF Save, PlaceOK
  <2>3. Done = 2 * Len(cmd.rows)
    BY <2>1, <2>2 DEF Done, IgniterSteps
  <2>4. TRUE
    OBVIOUS
  <2>5. mcs = After(cmd, Done, before)
    BY <2>1 DEF WrittenInv
  <2>6. up' /\ mcs' = After(cmd, LastPlace(cmd), before)
    BY <2>1, <2>2, <2>3, <2>4, <2>5, LastPlaces DEF Save, Goes
  <2>7. QED
    BY <2>1, <2>6 DEF WrittenInv, WritesAsDefined
<1>23. CASE ReadTrigger
  <2> USE <1>23
  <2>1. step = "read" /\ step' = "toggle" /\ UNCHANGED <<cmd, pos, mcs, before>>
    BY DEF ReadTrigger, Goes, nodes
  <2>2. Done = 0 /\ Done' = 0
    BY <2>1 DEF Done, IgniterSteps
  <2>3. QED
    BY <2>1, <2>2 DEF WrittenInv
<1>24. CASE WriteTrigger
  <2> USE <1>24
  <2>1. step = "toggle" /\ step' = "idle" /\ up' /\ UNCHANGED <<cmd, mcs, before>>
    BY DEF WriteTrigger, Goes
  <2>2. cmd.type = "start" /\ Done = 0
    BY <2>1 DEF CommandOK, StartSteps, Done, IgniterSteps
  <2>3. Writes(cmd) = {}
    BY <2>2 DEF Writes
  <2>4. After(cmd, LastPlace(cmd), before) = After(cmd, Done, before)
    BY <2>3 DEF After
  <2>5. QED
    BY <2>1, <2>4 DEF WrittenInv, WritesAsDefined
<1>25. CASE Crash
  BY <1>25, CutIsDefined DEF Crash, Dies
<1>26. CASE McsLooks
  BY <1>26, WrittenSame DEF McsLooks
<1>27. CASE \E newContainer \in BOOLEAN : Restart(newContainer)
  <2>1. step' = "idle" /\ cmd' = NoCmd
    BY <1>27 DEF Restart, CommandOK
  <2>2. QED
    BY <2>1 DEF WrittenInv, WritesAsDefined
<1>28. CASE UNCHANGED vars
  BY <1>28, WrittenSame DEF vars
<1>29. QED
  BY <1>1, <1>2, <1>3, <1>4, <1>5, <1>6, <1>7, <1>8, <1>9, <1>10, <1>11, <1>12, <1>13, <1>14,
     <1>15, <1>16, <1>17, <1>18, <1>19, <1>20, <1>21, <1>22, <1>23, <1>24, <1>25, <1>26,
     <1>27, <1>28 DEF Next, Command

(* Every message writes just what it defines, in its order, whatever its commands reject and       *)
(* wherever the process dies (client.py, load_redlines to load_calibs).                          *)
THEOREM WritesAreDefined == Spec => []WritesAsDefined
<1>1. Init => ReachedInv /\ WrittenInv
  BY DEF Init, ReachedInv, WrittenInv, WritesAsDefined, RedlineSteps, IgniterSteps, CalibSteps
<1>2. TypeOK /\ WrittenInv => WritesAsDefined
  BY WrittenIsDefined DEF TypeOK
<1>3. TypeOK /\ ReachedInv /\ WrittenInv /\ [Next]_vars => ReachedInv' /\ WrittenInv'
  BY ReachedStep, WrittenStep DEF TypeOK
<1>4. QED
  BY <1>1, <1>2, <1>3, TypeCorrect, PTL DEF Spec

=============================================================================
