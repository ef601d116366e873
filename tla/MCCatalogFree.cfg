CONSTANTS
  e = e
  f = f
  g = g
  s = s
  EdgeTable = e
  Unlisted = {s}
  Sorted <- MCSorted
  Schemas <- MCSchemas
  Commands <- MCCommands
  MaxChanges = 0
  MaxRows = 2
SPECIFICATION FairProgramSpec
INVARIANT FreedOnce
CHECK_DEADLOCK FALSE
