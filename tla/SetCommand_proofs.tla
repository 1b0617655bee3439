--------------------------- MODULE SetCommand_proofs --------------------------
(* Theorems about SetCommand for every set of inputs, values and bounds. *)
EXTENDS SetCommand, TLAPS

(* Without an excuse, a set that has found the MCS in its safe state still has  *)
(* it there, until the MCS acts on the toggle; and it polls until then.         *)
EdgeInv ==
  ~gaveUp /\ ~leftSafe =>
    /\ phase = "toggle" => trigger = seen /\ mcsState = "safe"
    /\ trigger # seen => phase = "poll" /\ mcsState = "safe"

-----------------------------------------------------------------------------
(* Every reachable state is well typed; in particular a set polls at most       *)
(* RetryCounter times (client.py 230-237).                                      *)
THEOREM TypeCorrect == Spec => []TypeOK
<1> USE KeysAssumption, CountsArePositive, BoundsAreNat
<1>1. Init => TypeOK
  <2> SUFFICES ASSUME Init PROVE TypeOK
    OBVIOUS
  <2>1. valves \in [Keys -> Values] /\ val \in [Keys -> Values]
    BY DEF Init
  <2>2. {trigger, seen, gaveUp, leftSafe} \subseteq BOOLEAN
    BY DEF Init
  <2>3. mcsState \in McsStates /\ state \in McsStates /\ target \in [key : Keys, value : Values]
    BY DEF Init
  <2>4. moved \subseteq Keys /\ retry_counter \in 1..RetryCounter /\ phase = "idle"
    BY DEF Init
  <2>5. sets \in 0..MaxSets /\ mcsSteps \in 0..MaxMcsSteps /\ crashes \in 0..MaxCrashes
    BY DEF Init
  <2>6. QED
    BY <2>1, <2>2, <2>3, <2>4, <2>5 DEF TypeOK
<1>2. TypeOK /\ [Next]_vars => TypeOK'
  <2> SUFFICES ASSUME TypeOK, [Next]_vars
               PROVE  TypeOK'
    OBVIOUS
  <2> USE DEF TypeOK, McsStates, mcs, local, ghosts, bounds
  <2>1. ASSUME NEW key \in Keys, NEW value \in Values, BeginSet(key, value) PROVE TypeOK'
    BY <2>1 DEF BeginSet
  <2>2. ASSUME NEW key \in UnknownKeys, RejectSet(key) PROVE TypeOK'
    BY <2>2 DEF RejectSet
  <2>3. CASE ReadState
    BY <2>3 DEF ReadState, WriteNext
  <2>4. CASE Toggle
    BY <2>4 DEF Toggle
  <2>5. CASE Poll
    BY <2>5 DEF Poll, WriteNext
  <2>6. CASE PollTimesOut
    BY <2>6 DEF PollTimesOut
  <2>7. CASE ReadNode
    BY <2>7 DEF ReadNode
  <2>8. CASE WriteNode
    BY <2>8 DEF WriteNode
  <2>9. CASE AdapterEnds
    BY <2>9 DEF AdapterEnds
  <2>10. CASE McsSeesTrigger
    BY <2>10 DEF McsSeesTrigger
  <2>11. CASE McsSwitches
    BY <2>11 DEF McsSwitches
  <2>12. CASE McsMoves
    BY <2>12 DEF McsMoves
  <2>13. CASE UNCHANGED vars
    BY <2>13 DEF vars
  <2>14. QED
    BY <2>1, <2>2, <2>3, <2>4, <2>5, <2>6, <2>7, <2>8, <2>9, <2>10, <2>11, <2>12, <2>13 DEF Next
<1>3. QED
  BY <1>1, <1>2, PTL DEF Spec

(* No set writes unless its own last reading shows the MCS out of the safe      *)
(* state (client.py 217-249).                                                   *)
THEOREM WriteIsGuarded == Spec => []WriteFollowsReading
<1>1. Init => WriteFollowsReading
  BY DEF Init, WriteFollowsReading
<1>2. WriteFollowsReading /\ [Next]_vars => WriteFollowsReading'
  <2> SUFFICES ASSUME WriteFollowsReading, [Next]_vars
               PROVE  WriteFollowsReading'
    OBVIOUS
  <2>1. CASE ReadState
    BY <2>1 DEF ReadState, WriteNext, WriteFollowsReading
  <2>2. CASE Poll
    BY <2>2 DEF Poll, WriteNext, WriteFollowsReading
  <2>3. CASE ReadNode
    BY <2>3 DEF ReadNode, WriteFollowsReading
  <2>4. QED
    BY <2>1, <2>2, <2>3
       DEF WriteFollowsReading, Next, BeginSet, RejectSet, Toggle, PollTimesOut, WriteNode,
           AdapterEnds, McsSeesTrigger, McsSwitches, McsMoves, vars, local
<1>3. QED
  BY <1>1, <1>2, PTL DEF Spec

(* No set takes back a toggle that the MCS has not acted on, unless an earlier  *)
(* set gave up on it, the adapter ended, or the MCS left the safe state by      *)
(* itself, whatever it does between the steps of a set (client.py 219-237).     *)
THEOREM EdgesAreSeen == Spec => []TogglesAreSeen
<1>1. Init => EdgeInv
  BY DEF Init, EdgeInv
<1>2. TypeOK /\ EdgeInv /\ [Next]_vars => EdgeInv'
  <2> SUFFICES ASSUME TypeOK, EdgeInv, [Next]_vars
               PROVE  EdgeInv'
    OBVIOUS
  <2> USE DEF EdgeInv
  <2>1. ASSUME NEW key \in Keys, NEW value \in Values, BeginSet(key, value) PROVE EdgeInv'
    BY <2>1 DEF BeginSet, TypeOK, mcs
  <2>2. CASE ReadState
    BY <2>2 DEF ReadState, WriteNext, mcs, ghosts
  <2>3. CASE Toggle
    BY <2>3 DEF Toggle, ghosts
  <2>4. CASE Poll
    BY <2>4 DEF Poll, WriteNext, mcs, ghosts
  <2>5. CASE PollTimesOut \/ AdapterEnds
    BY <2>5 DEF PollTimesOut, AdapterEnds, mcs
  <2>6. CASE McsSeesTrigger
    BY <2>6 DEF McsSeesTrigger, local, ghosts
  <2>7. CASE McsSwitches
    BY <2>7 DEF McsSwitches, local
  <2>8. CASE McsMoves
    BY <2>8 DEF McsMoves, local
  <2>9. CASE ReadNode \/ WriteNode
    BY <2>9 DEF ReadNode, WriteNode, mcs, ghosts
  <2>10. QED
    BY <2>1, <2>2, <2>3, <2>4, <2>5, <2>6, <2>7, <2>8, <2>9
       DEF Next, RejectSet, vars, mcs, local, ghosts
<1>3. EdgeInv => TogglesAreSeen
  BY DEF EdgeInv, TogglesAreSeen
<1>4. QED
  BY <1>1, <1>2, <1>3, TypeCorrect, PTL DEF Spec

(* Between its read and its write of the vector, a set can only lose moves of   *)
(* the MCS (client.py 239-243).                                                 *)
THEOREM OnlyMovesAreLost == Spec => []OthersKept
<1>1. Init => OthersKept
  BY DEF Init, OthersKept
<1>2. TypeOK /\ OthersKept /\ [Next]_vars => OthersKept'
  <2> SUFFICES ASSUME TypeOK, OthersKept, [Next]_vars
               PROVE  OthersKept'
    OBVIOUS
  <2>1. CASE ReadState
    BY <2>1 DEF ReadState, WriteNext, OthersKept
  <2>2. CASE Poll
    BY <2>2 DEF Poll, WriteNext, OthersKept
  <2>3. CASE ReadNode
    BY <2>3 DEF ReadNode, OthersKept, mcs
  <2>4. CASE McsMoves
    BY <2>4, KeysAssumption DEF McsMoves, OthersKept, TypeOK, local
  <2>5. QED
    BY <2>1, <2>2, <2>3, <2>4
       DEF OthersKept, Next, BeginSet, RejectSet, Toggle, PollTimesOut, WriteNode,
           AdapterEnds, McsSeesTrigger, McsSwitches, vars, mcs, local, ghosts
<1>3. QED
  BY <1>1, <1>2, TypeCorrect, PTL DEF Spec
=============================================================================
