CHECK_DEADLOCK FALSE
SPECIFICATION StoreSpec
CONSTANTS
  StoreReplicas = {r1, r2}
  StoreKeys = {k}
  MaxStoreLog = 3
  MaxClock = 0
INVARIANTS
  ReplicasAgree
