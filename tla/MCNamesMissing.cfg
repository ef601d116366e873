CONSTANTS
  NULL = NULL
  NoLabel = NoLabel
  EdgeTable = EdgeTable
  f = f
  g = g
  j = j
  Tables <- MCTables
  PeerSets <- MCPeerSets
  Holdings <- MCHoldings
SPECIFICATION FairSpec
INVARIANT EveryNameMapped
CHECK_DEADLOCK FALSE
