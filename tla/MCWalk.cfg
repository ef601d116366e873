CONSTANTS
  f = f
  g = g
  t = t
  u = u
  NULL = NULL
  NoType = NoType
  Rowid <- MCRowid
  EdgeRows <- MCEdgeRows
  Hops <- MCHops
  Slash = Slash
  Digit <- MCDigit
  Decimal <- MCDecimal
SPECIFICATION TextFairSpec
INVARIANTS TypeOK RowsAreTrails NoRowTwice AllTrailsFound GuardIsMembership
PROPERTIES Termination ImplementsSearch ImplementsWalk
CHECK_DEADLOCK FALSE
