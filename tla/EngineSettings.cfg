CONSTANTS
  NumRedlines = 2
  NumIgniters = 2
  NumSensors = 3
  HasNodes = {1, 2}
  Requests <- MCRequests
  Tables <- MCTables
  MaxSends = 2
  MaxStarts = 2
  MaxCrashes = 1
SPECIFICATION Spec
INVARIANTS WritesAsDefined EnabledWithDelays MemoryIsMcs EdgeMeansOdd
CHECK_DEADLOCK FALSE
