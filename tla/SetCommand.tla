----------------------------- MODULE SetCommand ------------------------------
(***************************************************************************)
(* handle_cmd_set of adapters/opcua/client.py against the MCS: the set of  *)
(* a valve first takes the MCS out of its safe state.  An action of the    *)
(* adapter is the code up to the next await; the MCS acts in between.      *)
(*                                                                         *)
(* The MCS is not part of the repository: it answers to an edge of the     *)
(* node switch_to_manual_state, changes its state for reasons of its own   *)
(* at any time, and moves valves while it runs a sequence.                 *)
(***************************************************************************)
EXTENDS Integers, FiniteSets

CONSTANTS
  Keys,         \* configured inputs
  IndexedKeys,  \* those that are an element of the shared vector node
  UnknownKeys,  \* keys a command may name that are not configured
  Values,
  RetryCounter, \* polls until the set gives up (5 in the code)
  MaxSets,      \* bound: set commands
  MaxMcsSteps,  \* bound: steps the MCS takes on its own
  MaxCrashes    \* bound: ends of the adapter

ASSUME KeysAssumption == IndexedKeys \subseteq Keys /\ UnknownKeys \cap Keys = {}
ASSUME CountsArePositive == RetryCounter \in Nat \ {0}
ASSUME BoundsAreNat == MaxSets \in Nat /\ MaxMcsSteps \in Nat /\ MaxCrashes \in Nat

VARIABLES
  mcsState,   \* MCS: "manual" (1 in the code), "safe" (3) or "sequence"
  trigger,    \* MCS: the node switch_to_manual_state
  seen,       \* MCS: the trigger's value it acted on last
  valves,     \* MCS: value of each input
  phase,      \* what the set does next
  state,      \* the MCS state it has read last
  retry_counter,
  val,        \* its copy of the vector node
  target,     \* the key and value it sets
  gaveUp,     \* history: a set timed out, or the adapter ended, after a toggle
              \* the MCS had not acted on ...
  leftSafe,   \* ... or the MCS left the safe state by itself, when a set had found
              \* it there; both since a set began that found no toggle pending
  moved,      \* history: inputs the MCS moved since val was read
  sets, mcsSteps, crashes

mcs == <<mcsState, trigger, seen, valves>>
local == <<phase, state, retry_counter, val, target>>
ghosts == <<gaveUp, leftSafe, moved>>
bounds == <<sets, mcsSteps, crashes>>
vars == <<mcs, local, ghosts, bounds>>

McsStates == {"manual", "safe", "sequence"}

TypeOK ==
  /\ mcsState \in McsStates /\ state \in McsStates
  /\ {trigger, seen, gaveUp, leftSafe} \subseteq BOOLEAN
  /\ valves \in [Keys -> Values] /\ val \in [Keys -> Values]
  /\ phase \in {"idle", "readState", "toggle", "poll", "readNode", "write"}
  /\ retry_counter \in 1..RetryCounter
  /\ target \in [key : Keys, value : Values]
  /\ moved \subseteq Keys
  /\ sets \in 0..MaxSets /\ mcsSteps \in 0..MaxMcsSteps /\ crashes \in 0..MaxCrashes

Init ==
  /\ mcsState \in McsStates
  /\ trigger = FALSE /\ seen = FALSE
  /\ \E v \in Values : valves = [key \in Keys |-> v]
  /\ phase = "idle" /\ state = mcsState /\ retry_counter = RetryCounter
  /\ val = valves
  /\ target \in [key : Keys, value : Values]
  /\ gaveUp = FALSE /\ leftSafe = FALSE /\ moved = {}
  /\ sets = 0 /\ mcsSteps = 0 /\ crashes = 0

-----------------------------------------------------------------------------
(* The adapter. *)

BeginSet(key, value) ==
  /\ phase = "idle" /\ sets < MaxSets
  /\ sets' = sets + 1
  /\ target' = [key |-> key, value |-> value]
  /\ phase' = "readState"
  /\ gaveUp' = (gaveUp /\ trigger # seen) /\ leftSafe' = (leftSafe /\ trigger # seen)
  /\ UNCHANGED <<mcs, state, retry_counter, val, moved, mcsSteps, crashes>>

\* "unsupported command input key".
RejectSet(key) ==
  /\ phase = "idle" /\ sets < MaxSets
  /\ sets' = sets + 1
  /\ key \notin Keys
  /\ UNCHANGED <<mcs, local, ghosts, mcsSteps, crashes>>

WriteNext == IF target.key \in IndexedKeys THEN "readNode" ELSE "write"

\* Mutant: the trigger is toggled on every set, not only in the safe state.
MutantReadState ==
  /\ phase = "readState"
  /\ state' = mcsState
  /\ phase' = "toggle"
  /\ UNCHANGED <<mcs, retry_counter, val, target, ghosts, bounds>>

ReadState ==
  /\ phase = "readState"
  /\ state' = mcsState
  /\ phase' = IF mcsState = "safe" THEN "toggle" ELSE WriteNext
  /\ UNCHANGED <<mcs, retry_counter, val, target, ghosts, bounds>>

\* Read, negate and write the trigger, which only sets write.
Toggle ==
  /\ phase = "toggle"
  /\ trigger' = ~trigger
  /\ retry_counter' = RetryCounter
  /\ phase' = "poll"
  /\ UNCHANGED <<mcsState, seen, valves, state, val, target, ghosts, bounds>>

\* Mutant: a set that gave up waiting goes on to write.
MutantPollTimesOut ==
  /\ phase = "poll"
  /\ retry_counter = 1
  /\ state' = mcsState
  /\ phase' = WriteNext
  /\ gaveUp' = (gaveUp \/ trigger # seen)
  /\ UNCHANGED <<mcs, retry_counter, val, target, leftSafe, moved, bounds>>

\* The last poll: the set returns, also if it has just read manual.
PollTimesOut ==
  /\ phase = "poll"
  /\ retry_counter = 1
  /\ state' = mcsState
  /\ phase' = "idle"
  /\ gaveUp' = (gaveUp \/ trigger # seen)
  /\ UNCHANGED <<mcs, retry_counter, val, target, leftSafe, moved, bounds>>

\* Mutant: the counter is not decremented.
MutantPoll ==
  /\ phase = "poll"
  /\ retry_counter > 1
  /\ state' = mcsState
  /\ phase' = IF mcsState = "manual" THEN WriteNext ELSE "poll"
  /\ UNCHANGED <<mcs, retry_counter, val, target, ghosts, bounds>>

Poll ==
  /\ phase = "poll"
  /\ retry_counter > 1
  /\ retry_counter' = retry_counter - 1
  /\ state' = mcsState
  /\ phase' = IF mcsState = "manual" THEN WriteNext ELSE "poll"
  /\ UNCHANGED <<mcs, val, target, ghosts, bounds>>

\* Mutant: the vector is read once and kept for later sets.
MutantReadNode ==
  /\ phase = "readNode"
  /\ val' = IF sets = 1 THEN valves ELSE val
  /\ moved' = {}
  /\ phase' = "write"
  /\ UNCHANGED <<mcs, state, retry_counter, target, gaveUp, leftSafe, bounds>>

ReadNode ==
  /\ phase = "readNode"
  /\ val' = valves
  /\ moved' = {}
  /\ phase' = "write"
  /\ UNCHANGED <<mcs, state, retry_counter, target, gaveUp, leftSafe, bounds>>

\* The whole vector is written back; an input without an index has its own node.
WriteNode ==
  /\ phase = "write"
  /\ valves' = [key \in Keys |-> IF key = target.key THEN target.value
                                ELSE IF {key, target.key} \subseteq IndexedKeys THEN val[key]
                                ELSE valves[key]]
  /\ phase' = "idle"
  /\ UNCHANGED <<mcsState, trigger, seen, state, retry_counter, val, target, ghosts, bounds>>

\* A call of the MCS raises or the process is killed; the container starts again.
AdapterEnds ==
  /\ phase # "idle" /\ crashes < MaxCrashes
  /\ crashes' = crashes + 1
  /\ phase' = "idle"
  /\ gaveUp' = (gaveUp \/ trigger # seen)
  /\ UNCHANGED <<mcs, state, retry_counter, val, target, leftSafe, moved, sets, mcsSteps>>

-----------------------------------------------------------------------------
(* The MCS. *)

\* An edge of the trigger takes it out of the safe state.
McsSeesTrigger ==
  /\ trigger # seen
  /\ seen' = trigger
  /\ mcsState' = IF mcsState = "safe" THEN "manual" ELSE mcsState
  /\ UNCHANGED <<trigger, valves, local, ghosts, bounds>>

\* An abort, a redline, the start or the end of a sequence, another panel: also while
\* a toggle is pending.
McsSwitches ==
  /\ mcsSteps < MaxMcsSteps
  /\ mcsSteps' = mcsSteps + 1
  /\ mcsState' \in McsStates \ {mcsState}
  /\ leftSafe' = (leftSafe \/ (mcsState = "safe" /\ phase \in {"toggle", "poll"}))
  /\ UNCHANGED <<trigger, seen, valves, local, gaveUp, moved, sets, crashes>>

\* A step of a running sequence.
McsMoves ==
  /\ mcsState = "sequence" /\ mcsSteps < MaxMcsSteps
  /\ mcsSteps' = mcsSteps + 1
  /\ \E key \in Keys, value \in Values :
       /\ value # valves[key]
       /\ valves' = [valves EXCEPT ![key] = value]
       /\ moved' = moved \cup {key}
  /\ UNCHANGED <<mcsState, trigger, seen, local, gaveUp, leftSafe, sets, crashes>>

-----------------------------------------------------------------------------
HandleSet == ReadState \/ Toggle \/ Poll \/ PollTimesOut \/ ReadNode \/ WriteNode

Next ==
  \/ \E key \in Keys, value \in Values : BeginSet(key, value)
  \/ \E key \in UnknownKeys : RejectSet(key)
  \/ ReadState \/ Toggle \/ Poll \/ PollTimesOut \/ ReadNode \/ WriteNode
  \/ AdapterEnds
  \/ McsSeesTrigger \/ McsSwitches \/ McsMoves

Spec == Init /\ [][Next]_vars

(* The OPC UA calls return; the MCS is not obliged to anything. *)
FairSpec == Spec /\ WF_vars(HandleSet)

-----------------------------------------------------------------------------
\* A set that goes on to its write has itself read, after any toggle of its own,
\* that the MCS is out of the safe state; giving up leads to no write
\* (client.py 217-249).
WriteFollowsReading == phase \in {"readNode", "write"} => state # "safe"

\* A set takes back a toggle that the MCS has not acted on only if, since a set last began
\* with none pending, a set gave up on its toggle, the adapter ended after one, or the MCS
\* left the safe state by itself under a set: then the poll ends with the toggle still
\* pending (client.py 219-237).
TogglesAreSeen == phase = "toggle" /\ trigger # seen => gaveUp \/ leftSafe

\* What a set leaves at the other inputs is what was there: a value of theirs is
\* only undone if the MCS moved it between the set's read and its write of the
\* vector (client.py 239-243).
OthersKept ==
  phase = "write" /\ target.key \in IndexedKeys =>
    \A key \in IndexedKeys \ moved : val[key] = valves[key]

\* Every set comes to its end, however the MCS behaves (client.py 230-237).
SetEnds == phase # "idle" ~> phase = "idle"

\* "switching valves in safe state not allowed" (client.py 229).
NoSwitchingInSafe == [][WriteNode => mcsState # "safe"]_vars
=============================================================================
