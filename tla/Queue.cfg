\* Two jobs and one consumer across two rotations of two event tables.
SPECIFICATION Spec
CONSTANTS
  Jobs = {j1, j2}
  Malformed = {}
  Consumers = {c1}
  MaxRetries = 1
  MaxReturn = 100
  NTables = 2
  Nearby = 2
  Maintained = TRUE
  Budgets <- RotatingOrStopping
INVARIANTS
  TypeOK
  BatchesAreExact
  CursorKept
  NothingLost
  OnlyCommitted
PROPERTIES
  NoReplay
  PromiseKept
SYMMETRY Exchange
CHECK_DEADLOCK FALSE
