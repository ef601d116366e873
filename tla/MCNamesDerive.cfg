CONSTANTS
  NULL = NULL
  NoLabel = NoLabel
  EdgeTable = EdgeTable
  f = f
  g = g
  j = j
  Tables <- MCTables
  PeerSets <- MCPeerSets
  Holdings <- MCHoldings
SPECIFICATION FairSpec
INVARIANTS MissingOnlyIfTable OrderIrrelevant ReadsBothWays
PROPERTY Termination
CHECK_DEADLOCK FALSE
