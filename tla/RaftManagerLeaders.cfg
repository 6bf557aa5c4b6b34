CHECK_DEADLOCK FALSE
SPECIFICATION Spec
CONSTANTS
  Server = {1, 2}
  Boot = 1
  Req = {a}
  NoReq = NoReq
  Addable = {2}
  Removable = {}
  Refusable = {}
  MaxIndex = 5
  MaxTerm = 2
  CompactMin = 3
  CompactGap = 1
  MaxRestarts = 2
INVARIANTS
  OneLeaderPerTerm
CONSTRAINTS
  CrashAfterCompaction
  InTurns
