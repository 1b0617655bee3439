CONSTANTS
  v1 = v1
  v2 = v2
  Outputs <- MCOutputs
  Amount = 3
  DelayLen = 2
  HasHold = TRUE
  Requests <- MCRequests
  MaxLoads = 3
SPECIFICATION Spec
INVARIANTS EndHolds OpenOrHold
PROPERTY Implements
CHECK_DEADLOCK FALSE
