CONSTANTS
  va = va
  vb = vb
  vr = vr
  f = f
  j = j
  st = st
  ty = ty
  unbound = unbound
  NULL = NULL
  NoType = NoType
  Anon = Anon
  NoLabel = NoLabel
  EdgeTable = EdgeTable
  WalkTable = WalkTable
  EdgeColumns = {"source_id", "source_name", "target_id", "target_name", "edge_type", "alias"}
  Catalog = {f, j, st}
  Rowid = {1, 2, 3}
  IntBits = 4
  LongBits = 6
  Maps <- MCMaps
  Databases <- MCDatabases
CHECK_DEADLOCK FALSE
SPECIFICATION FairSpec
CONSTANT Queries <- MCQueries
INVARIANTS TypeOK AnchorsFirst SlotsAreNodes StatementWellFormed TranslationCorrect NothingLost RejectsExactly
PROPERTY Termination
