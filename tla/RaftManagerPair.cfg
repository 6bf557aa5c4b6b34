CHECK_DEADLOCK FALSE
SPECIFICATION Spec
CONSTANTS
  Server = {1, 2}
  Boot = 1
  Req = {a}
  NoReq = NoReq
  Addable = {2}
  Removable = {1, 2}
  Refusable = {a}
  MaxIndex = 4
  MaxTerm = 2
  CompactMin = 3
  CompactGap = 1
  MaxRestarts = 1
INVARIANTS
  EveryCrashIsLoadable
  AcknowledgedIsStored
  SentTermIsStored
CONSTRAINTS
  InTurns
