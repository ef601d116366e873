CONSTANTS
  NoLabel = NoLabel
  Maps <- MCMaps
  Spellings <- MCSpellings
  Labels <- MCLabels
  Characters <- MCCharacters
  Inputs <- MCInputs
  FirstCap <- MCFirstCap
SPECIFICATION ParseFairSpec
INVARIANTS ComputesResolve AmbiguityExact EitherSpelling RoomForEnd 
PROPERTY Ends
CHECK_DEADLOCK FALSE
