CONSTANTS
  e = e
  f = f
  g = g
  s = s
  EdgeTable = e
  Unlisted = {s}
  Sorted <- MCSorted
  Schemas <- MCSchemas
  Commands <- MCCommands
  MaxChanges = 1
  MaxRows = 2
SPECIFICATION FairProgramSpec
INVARIANTS TypeOK OwnsItsTables  NothingHeldAtExit AllOrNothing MissesOnlyWhatIsGone
PROPERTY Termination
CHECK_DEADLOCK FALSE
