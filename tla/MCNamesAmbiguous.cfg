CONSTANTS
  NoLabel = NoLabel
  f = f
  g = g
  h = h
  Maps <- MCMaps
  Spellings <- MCSpellings
  Labels <- MCLabels
SPECIFICATION FairSpec
INVARIANT AmbiguityReported
CHECK_DEADLOCK FALSE
