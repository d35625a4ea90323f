SPECIFICATION FairSpec
CONSTANTS
  Journals = {1, 2}
  MaxLines = 2
  DbMayFail = TRUE
INVARIANTS
  TypeOK
  AppliedOnceAfterRecorders
  AuditTrailComplete
  ReplayInOrder
  NewerStateKept
PROPERTY EveryEventApplied
CHECK_DEADLOCK FALSE
