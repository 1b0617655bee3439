CONSTANTS
  Types = {"purge"}
  p1 = p1
  p2 = p2
  EmptyStep = EmptyStep
  Blank = Blank
  Programs <- MCPrograms
  Valid <- MCValid
  MaxClicks = 2
  MaxEdits = 0
  MaxLosses = 0
SPECIFICATION Spec
INVARIANT VerifiedIsReal
CHECK_DEADLOCK FALSE
