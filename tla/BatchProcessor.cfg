CHECK_DEADLOCK FALSE
SPECIFICATION FairSpec
CONSTANTS
  Proposals = 3
  Priorities = {0, 1, 2}
  BufferSize = 2
  MaxBatch = 2
  MinBatch = 1
  MinSamples = 1
  MaxPending = 2
INVARIANTS
  PendingIsAccounted
  LimitHolds
  UrgentIsLabelled
PROPERTIES
  KeepsOrder
  RefinesPipe
  NobodyIsKept
