SPECIFICATION FairSpec
CONSTANTS
  Workers = {w1, w2, w3}
  a = a
  b = b
  Ids = {a, b}
  Points <- MCPoints
  Batches <- MCBatches
  CreateRequests <- MCRequests
  MaxPos = 2
  OverflowChecks = FALSE
  MaxUpserts = 2
INVARIANTS TypeOK AnswersAreCommitted SnapshotsLoad
PROPERTIES ImplementsPointStore RequestsEnd
CHECK_DEADLOCK FALSE
