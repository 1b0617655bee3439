CONSTANTS
  Types = {"primary", "purge"}
  p1 = p1
  p2 = p2
  EmptyStep = EmptyStep
  Blank = Blank
  Programs <- MCPrograms
  Valid <- MCValid
  MaxClicks = 3
  MaxEdits = 1
  MaxLosses = 1
SPECIFICATION FairSpec
INVARIANTS FlagsHaveReplies VerdictIsTrue
PROPERTY SendEnabledAgain
CHECK_DEADLOCK FALSE
