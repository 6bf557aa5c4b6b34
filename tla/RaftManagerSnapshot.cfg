CHECK_DEADLOCK FALSE
SPECIFICATION Spec
CONSTANTS
  Server = {1, 2}
  Boot = 1
  Req = {}
  NoReq = NoReq
  Addable = {2}
  Removable = {}
  Refusable = {}
  MaxIndex = 4
  MaxTerm = 2
  CompactMin = 2
  CompactGap = 1
  MaxRestarts = 0
INVARIANTS
  LaggingVoterIsServed
