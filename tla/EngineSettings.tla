---------------------------- MODULE EngineSettings ----------------------------
(***************************************************************************)
(* What browsers set on the MCS besides valves and steps, and the start of *)
(* a sequence (adapters/opcua/client.py): the limits of the redlines, the  *)
(* delays between redline sequences and the igniters, in one message of    *)
(* the sequence editor (load_redlines, load_redline_delays,                *)
(* load_igniters); the calibrations of the sensors, in a message of the    *)
(* calibration table (load_calibs); start_sequence.                        *)
(*                                                                         *)
(* The commands of a message run in order; one that rejects its values     *)
(* returns early, and the next one runs.  A step is the code up to a node  *)
(* write, at which the process can die; the reads before the writes of an  *)
(* iteration are part of it, since nothing else writes these nodes.        *)
(*                                                                         *)
(* A setting is the number of the message that it comes from, 0 for what   *)
(* the MCS or the configuration had, Default for the limits of a redline   *)
(* that is not sent.                                                       *)
(***************************************************************************)
EXTENDS Integers, Sequences

CONSTANTS
  NumRedlines,  \* the length of datasource["Redlines"], the sensors with limits
  NumIgniters,  \* the length of datasource["Igniters"]
  NumSensors,   \* the length of datasource["Calibrations"]
  HasNodes,     \* the sensors of these with nodes in the MCS
  Requests,     \* what a Send may contain
  Tables,       \* calibrations that may be sent
  MaxSends, MaxStarts, MaxCrashes  \* bounds

\* Per redline "unsent" if it is not in the Send, and which values make sense.
LimitKinds == {"unsent", "valid", "invalid", "incomplete"}
AllRequests == [redlines : [1 .. NumRedlines -> LimitKinds],
                delays   : BOOLEAN,
                igniters : UNION {[1 .. n -> BOOLEAN] : n \in 0 .. NumIgniters}]

\* A row of the calibration table; sensor 0 is one without a calibration.
Row == [sensor : 0 .. NumSensors, valid : BOOLEAN]

ASSUME NumbersAssumption ==
  /\ NumRedlines \in Nat /\ NumIgniters \in Nat \ {0} /\ NumSensors \in Nat
  /\ HasNodes \subseteq 1 .. NumSensors
ASSUME RequestsAssumption == Requests \subseteq AllRequests /\ Tables \subseteq Seq(Row)

Default == -1

VARIABLES
  up,       \* does the process run?
  queue,    \* cmd_queue, messages of both pages
  cmd,      \* the message command_task works on, or the last one
  step,     \* what it does next
  pos,      \* the redline, igniter or row it is at
  memory,   \* datasource: limits, igniters and calibrations as the process knows them
  file,     \* the configuration file: "configuration", or what load_calibs made of it
  mcs,      \* the MCS's nodes
  trigger,  \* the trigger node of the sequence ...
  looked,   \* ... and its value when the MCS looked last
  readVal,  \* trigger_val
  sends, starts, crashes,  \* how many there were
  before,   \* history: the nodes when the last message began
  cut,      \* history: a load of igniters wrote delays, but not what is enabled
  unseen    \* history: starts that were written since the MCS looked

vars == <<up, queue, cmd, step, pos, memory, file, mcs, trigger, looked, readVal, sends, starts, crashes,
          before, cut, unseen>>
nodes == <<mcs, trigger, looked>>
stored == <<memory, file>>
counters == <<sends, starts, crashes>>

\* What is written: elements of nodes.  The limits have a node each for lower, upper and
\* timeout, calibrations one for offset and one for slope; delay and duration of an igniter
\* share one, and so do the enabled values of all.
Cells ==
  {"lower", "upper", "timeout"} \X (1 .. NumRedlines) \cup {"delay"} \X (1 .. NumIgniters)
    \cup {"offset", "slope"} \X HasNodes \cup {<<"delays", 0>>, <<"enabled", 0>>}

Initially == [c \in Cells |-> 0]

Configured == [limit   |-> [i \in 1 .. NumRedlines |-> 0],
               igniter |-> [i \in 1 .. NumIgniters |-> 0],
               calib   |-> [i \in 1 .. NumSensors |-> 0]]

NoCmd == [type |-> "none"]

Init ==
  /\ up = TRUE /\ queue = <<>> /\ cmd = NoCmd /\ step = "idle" /\ pos = 1
  /\ memory = Configured /\ file = "configuration" /\ mcs = Initially
  /\ trigger = FALSE /\ looked = FALSE /\ readVal = FALSE
  /\ sends = 0 /\ starts = 0 /\ crashes = 0
  /\ before = Initially /\ cut = FALSE /\ unseen = 0

-----------------------------------------------------------------------------
(* The sequence editor and the calibration table.                          *)

Message(m) ==
  /\ up /\ sends < MaxSends
  /\ sends' = sends + 1
  /\ queue' = Append(queue, m)
  /\ UNCHANGED <<up, cmd, step, pos, stored, nodes, readVal, starts, crashes, before, cut, unseen>>

Send == \E r \in Requests : Message([type |-> "send", number |-> sends + 1, request |-> r])

SendCalibs == \E t \in Tables : Message([type |-> "calibs", number |-> sends + 1, rows |-> t])

Start ==
  /\ up /\ starts < MaxStarts
  /\ starts' = starts + 1
  /\ queue' = Append(queue, [type |-> "start"])
  /\ UNCHANGED <<up, cmd, step, pos, stored, nodes, readVal, sends, crashes, before, cut, unseen>>

-----------------------------------------------------------------------------
(* command_task.                                                           *)

Take ==
  /\ up /\ step = "idle" /\ queue # <<>>
  /\ queue' = Tail(queue) /\ cmd' = Head(queue)
  /\ step' = CASE cmd'.type = "send" -> "redline" [] cmd'.type = "calibs" -> "row" [] OTHER -> "read"
  /\ before' = mcs
  /\ pos' = 1
  /\ UNCHANGED <<up, stored, nodes, readVal, counters, cut, unseen>>

\* The process ends: an exception of command_task ends all tasks, and with them the
\* messages that wait.
Dies ==
  /\ up' = FALSE /\ queue' = <<>> /\ step' = "idle"
  /\ cut' = (cut \/ (step \in {"igniter", "delay", "enabled"} /\ pos > 1))
  /\ UNCHANGED <<cmd, pos, stored, nodes, readVal, sends, starts, before, unseen>>

\* The value that the Send gives to the redline at pos.
Limit(m, i) == IF m.request.redlines[i] = "unsent" THEN Default ELSE m.number

Goes(next) == up /\ step' = next

\* An iteration of load_redlines up to its first write.
Redline ==
  /\ step = "redline" /\ pos <= NumRedlines
  /\ cmd.request.redlines[pos] \in {"unsent", "valid"}
  /\ Goes("lower")
  /\ memory' = [memory EXCEPT !.limit[pos] = Limit(cmd, pos)]
  /\ UNCHANGED <<up, queue, cmd, pos, file, nodes, readVal, counters, before, cut, unseen>>

\* Mutant: the values are checked when they are already remembered.
RememberFirst ==
  /\ step = "redline" /\ (pos <= NumRedlines => cmd.request.redlines[pos] = "invalid")
  /\ Goes("delays")
  /\ memory' = IF pos <= NumRedlines THEN [memory EXCEPT !.limit[pos] = cmd.number] ELSE memory
  /\ UNCHANGED <<up, queue, cmd, pos, file, nodes, readVal, counters, before, cut, unseen>>

\* The end of load_redlines: at the first value that is not a number, or behind the last.
RedlinesEnd ==
  /\ step = "redline" /\ (pos <= NumRedlines => cmd.request.redlines[pos] = "invalid")
  /\ Goes("delays")
  /\ UNCHANGED <<up, queue, cmd, pos, stored, nodes, readVal, counters, before, cut, unseen>>

\* A redline of the Send without one of its values: a KeyError.
RedlineRaises ==
  /\ up /\ step = "redline" /\ pos <= NumRedlines
  /\ cmd.request.redlines[pos] = "incomplete"
  /\ crashes' = crashes
  /\ Dies

WriteLower ==
  /\ step = "lower" /\ Goes("upper")
  /\ mcs' = [mcs EXCEPT ![<<"lower", pos>>] = Limit(cmd, pos)]
  /\ UNCHANGED <<up, queue, cmd, pos, stored, trigger, looked, readVal, counters, before, cut, unseen>>

WriteUpper ==
  /\ step = "upper" /\ Goes("timeout")
  /\ mcs' = [mcs EXCEPT ![<<"upper", pos>>] = Limit(cmd, pos)]
  /\ UNCHANGED <<up, queue, cmd, pos, stored, trigger, looked, readVal, counters, before, cut, unseen>>

WriteTimeout ==
  /\ step = "timeout" /\ Goes("redline") /\ pos' = pos + 1
  /\ mcs' = [mcs EXCEPT ![<<"timeout", pos>>] = Limit(cmd, pos)]
  /\ UNCHANGED <<up, queue, cmd, stored, trigger, looked, readVal, counters, before, cut, unseen>>

\* load_redline_delays: one write of all delays, unless there are too many or one is invalid.
WriteDelays ==
  /\ step = "delays" /\ Goes("igniter") /\ pos' = 1
  /\ mcs' = [mcs EXCEPT ![<<"delays", 0>>] = IF cmd.request.delays THEN cmd.number ELSE @]
  /\ UNCHANGED <<up, queue, cmd, stored, trigger, looked, readVal, counters, before, cut, unseen>>

Given == Len(cmd.request.igniters)

\* An iteration of load_igniters up to its write.
Igniter ==
  /\ step = "igniter" /\ pos <= NumIgniters
  /\ pos <= Given /\ cmd.request.igniters[pos]
  /\ Goes("delay")
  /\ memory' = [memory EXCEPT !.igniter[pos] = cmd.number]
  /\ UNCHANGED <<up, queue, cmd, pos, file, nodes, readVal, counters, before, cut, unseen>>

\* Mutant: what is enabled is written for the igniters before it.
EnableAnyway ==
  /\ step = "igniter" /\ pos <= NumIgniters
  /\ pos <= Given /\ ~cmd.request.igniters[pos]
  /\ Goes("enabled")
  /\ UNCHANGED <<up, queue, cmd, pos, stored, nodes, readVal, counters, before, cut, unseen>>

\* A negative value, or one that is not a number.
IgniterRejected ==
  /\ step = "igniter" /\ pos <= NumIgniters
  /\ pos <= Given /\ ~cmd.request.igniters[pos]
  /\ Goes("idle")
  /\ cut' = (cut \/ pos > 1)
  /\ UNCHANGED <<up, queue, cmd, pos, stored, nodes, readVal, counters, before, unseen>>

\* cmd["igniters"] is shorter than the configuration's list.
IgniterRaises ==
  /\ up /\ step = "igniter" /\ pos \in Given + 1 .. NumIgniters
  /\ crashes' = crashes
  /\ Dies

\* Mutant: what is enabled is written along with the first delay.
EnableFirst ==
  /\ step = "delay" /\ pos' = pos + 1
  /\ Goes(IF pos = NumIgniters THEN "enabled" ELSE "igniter")
  /\ mcs' = [mcs EXCEPT ![<<"delay", pos>>] = cmd.number, ![<<"enabled", 0>>] = cmd.number]
  /\ UNCHANGED <<up, queue, cmd, stored, trigger, looked, readVal, counters, before, cut, unseen>>

WriteDelay ==
  /\ step = "delay" /\ pos' = pos + 1
  /\ Goes(IF pos = NumIgniters THEN "enabled" ELSE "igniter")
  /\ mcs' = [mcs EXCEPT ![<<"delay", pos>>] = cmd.number]
  /\ UNCHANGED <<up, queue, cmd, stored, trigger, looked, readVal, counters, before, cut, unseen>>

WriteEnabled ==
  /\ step = "enabled" /\ Goes("idle")
  /\ mcs' = [mcs EXCEPT ![<<"enabled", 0>>] = cmd.number]
  /\ cut' = FALSE
  /\ UNCHANGED <<up, queue, cmd, pos, stored, trigger, looked, readVal, counters, before, unseen>>

Here == cmd.rows[pos]

Sent == step = "row" /\ pos <= Len(cmd.rows) /\ Here.valid /\ Here.sensor \in HasNodes

\* An iteration of load_calibs up to its first write.
CalibRow ==
  /\ Sent /\ Goes("offset")
  /\ memory' = [memory EXCEPT !.calib[Here.sensor] = cmd.number]
  /\ UNCHANGED <<up, queue, cmd, pos, file, nodes, readVal, counters, before, cut, unseen>>

\* A row whose sensor has no calibration, or no nodes: in the latter case it is remembered.
RowSkipped ==
  /\ step = "row" /\ pos <= Len(cmd.rows) /\ Here.valid /\ Here.sensor \notin HasNodes
  /\ Goes("row") /\ pos' = pos + 1
  /\ memory' = IF Here.sensor = 0 THEN memory ELSE [memory EXCEPT !.calib[Here.sensor] = cmd.number]
  /\ UNCHANGED <<up, queue, cmd, file, nodes, readVal, counters, before, cut, unseen>>

\* Not a number, or the slope 0: the command ends, and nothing is saved.
RowRejected ==
  /\ step = "row" /\ pos <= Len(cmd.rows) /\ ~Here.valid
  /\ Goes("idle")
  /\ UNCHANGED <<up, queue, cmd, pos, stored, nodes, readVal, counters, before, cut, unseen>>

WriteOffset ==
  /\ step = "offset" /\ Goes("slope")
  /\ mcs' = [mcs EXCEPT ![<<"offset", Here.sensor>>] = cmd.number]
  /\ UNCHANGED <<up, queue, cmd, pos, stored, trigger, looked, readVal, counters, before, cut, unseen>>

WriteSlope ==
  /\ step = "slope" /\ Goes("row") /\ pos' = pos + 1
  /\ mcs' = [mcs EXCEPT ![<<"slope", Here.sensor>>] = cmd.number]
  /\ UNCHANGED <<up, queue, cmd, stored, trigger, looked, readVal, counters, before, cut, unseen>>

\* The configuration file becomes the datasource, with all that is remembered; where it
\* cannot be written, Crash.
Save ==
  /\ step = "row" /\ pos > Len(cmd.rows) /\ Goes("idle")
  /\ file' = "datasource"
  /\ UNCHANGED <<up, queue, cmd, pos, memory, nodes, readVal, counters, before, cut, unseen>>

ReadTrigger ==
  /\ step = "read" /\ Goes("toggle")
  /\ readVal' = trigger
  /\ UNCHANGED <<up, queue, cmd, pos, stored, nodes, counters, before, cut, unseen>>

\* Mutant: the trigger is set, and not toggled.
SetTrigger ==
  /\ step = "toggle" /\ Goes("idle")
  /\ trigger' = TRUE /\ unseen' = unseen + 1
  /\ UNCHANGED <<up, queue, cmd, pos, stored, mcs, looked, readVal, counters, before, cut>>

WriteTrigger ==
  /\ step = "toggle" /\ Goes("idle")
  /\ trigger' = ~readVal /\ unseen' = unseen + 1
  /\ UNCHANGED <<up, queue, cmd, pos, stored, mcs, looked, readVal, counters, before, cut>>

-----------------------------------------------------------------------------
(* The environment.                                                        *)

\* The process is killed, or a call to the MCS or the browser raises.
Crash ==
  /\ up /\ crashes < MaxCrashes /\ crashes' = crashes + 1
  /\ Dies

\* parse_eq_config, in the same container or in a new one, which has the file that was
\* deployed.  With a datasource for a configuration it raises a KeyError: the process stays down.
Restart(newContainer) ==
  /\ ~up /\ (newContainer \/ file = "configuration")
  /\ file' = "configuration" /\ memory' = Configured
  /\ up' = TRUE /\ cmd' = NoCmd
  /\ UNCHANGED <<queue, step, pos, nodes, readVal, counters, before, cut, unseen>>

\* The MCS's cycle: an edge of the trigger starts the sequence.
McsLooks ==
  /\ trigger # looked
  /\ looked' = trigger /\ unseen' = 0
  /\ UNCHANGED <<up, queue, cmd, step, pos, stored, mcs, trigger, readVal, counters, before, cut>>

Command ==
  \/ Take \/ Redline \/ RedlinesEnd \/ RedlineRaises \/ WriteLower \/ WriteUpper \/ WriteTimeout
  \/ WriteDelays \/ Igniter \/ IgniterRejected \/ IgniterRaises \/ WriteDelay \/ WriteEnabled
  \/ CalibRow \/ RowSkipped \/ RowRejected \/ WriteOffset \/ WriteSlope \/ Save
  \/ ReadTrigger \/ WriteTrigger

Next ==
  \/ Send \/ SendCalibs \/ Start \/ Command \/ Crash \/ McsLooks
  \/ \E newContainer \in BOOLEAN : Restart(newContainer)

Spec == Init /\ [][Next]_vars

-----------------------------------------------------------------------------
(* Properties.                                                             *)

\* The parts of a message that are reached: each command goes on up to its first rejected value.
Limited(m) ==
  {i \in 1 .. NumRedlines : \A j \in 1 .. i : m.request.redlines[j] \notin {"invalid", "incomplete"}}

Ignited(m) ==
  {i \in 1 .. NumIgniters : \A j \in 1 .. i : j <= Len(m.request.igniters) /\ m.request.igniters[j]}

Listed(m) == {i \in DOMAIN m.rows : m.rows[i].sensor \in HasNodes /\ \A j \in 1 .. i : m.rows[j].valid}

\* What a message writes, without a word of how: each node with its place in the order.  The
\* igniters are enabled only if none is rejected.
SendWrites(m) ==
       {<<3 * i - 2, <<"lower", i>>>> : i \in Limited(m)}
  \cup {<<3 * i - 1, <<"upper", i>>>> : i \in Limited(m)}
  \cup {<<3 * i, <<"timeout", i>>>> : i \in Limited(m)}
  \cup (IF m.request.delays THEN {<<3 * NumRedlines + 1, <<"delays", 0>>>>} ELSE {})
  \cup {<<3 * NumRedlines + 1 + i, <<"delay", i>>>> : i \in Ignited(m)}
  \cup (IF Ignited(m) = 1 .. NumIgniters
        THEN {<<3 * NumRedlines + NumIgniters + 2, <<"enabled", 0>>>>} ELSE {})

CalibWrites(m) ==
       {<<2 * i - 1, <<"offset", m.rows[i].sensor>>>> : i \in Listed(m)}
  \cup {<<2 * i, <<"slope", m.rows[i].sensor>>>> : i \in Listed(m)}

Writes(m) == CASE m.type = "send" -> SendWrites(m) [] m.type = "calibs" -> CalibWrites(m) [] OTHER -> {}

Value(m, c) == IF c[1] \in {"lower", "upper", "timeout"} THEN Limit(m, c[2]) ELSE m.number

LastPlace(m) == IF m.type = "calibs" THEN 2 * Len(m.rows) ELSE 3 * NumRedlines + NumIgniters + 2

\* The nodes when message m has done its writes up to a place: these, and the rest as it was.
After(m, place, nodesBefore) ==
  LET done == {w \in Writes(m) : w[1] <= place}
  IN [c \in Cells |-> IF \E w \in done : w[2] = c THEN Value(m, c) ELSE nodesBefore[c]]

\* A message that came to its end, in a process that still runs, has made of the nodes just
\* what it defines, for every combination of values that its commands reject.  Wherever the
\* process dies, the nodes written are the first ones of these: no upper limit is new beside an
\* old lower one, no slope beside an old offset, and no igniter is enabled by a message that
\* has not set all delays.
WritesAsDefined ==
  cmd # NoCmd =>
    IF up /\ step = "idle" THEN mcs = After(cmd, LastPlace(cmd), before)
    ELSE \E place \in 0 .. LastPlace(cmd) : mcs = After(cmd, place, before)

\* What is enabled belongs to the delays beside it, over all messages and restarts, unless a load
\* of igniters was cut in two (by a rejected value behind a good one, or an end of the
\* process) and none since came to its end.
EnabledWithDelays ==
  ~cut /\ step \notin {"igniter", "delay", "enabled"} =>
    \A i \in 1 .. NumIgniters : mcs[<<"delay", i>>] = mcs[<<"enabled", 0>>]

\* Between two messages, and when load_calibs saves it, what the process remembers of a limit, an
\* igniter or a calibration is what the MCS has, unless it is the configuration's own.
MemoryIsMcs ==
  up /\ (step = "idle" \/ (step = "row" /\ pos > Len(cmd.rows))) =>
    /\ \A i \in 1 .. NumRedlines :
         memory.limit[i] # 0 => \A node \in {"lower", "upper", "timeout"} : mcs[<<node, i>>] = memory.limit[i]
    /\ \A i \in 1 .. NumIgniters : memory.igniter[i] \in {0, mcs[<<"delay", i>>]}
    /\ \A i \in HasNodes :
         memory.calib[i] # 0 => \A node \in {"offset", "slope"} : mcs[<<node, i>>] = memory.calib[i]

\* The MCS sees an edge for an odd number of starts since it looked, and only then: two
\* starts within a cycle of the MCS take each other back.
EdgeMeansOdd == (trigger # looked) <=> unseen % 2 = 1

=============================================================================
