CHECK_DEADLOCK FALSE
SPECIFICATION FairSpec
CONSTANTS
  Server = {1}
  Boot = 1
  Req = {a, b}
  NoReq = NoReq
  Addable = {1}
  Removable = {1}
  Refusable = {b}
  MaxIndex = 6
  MaxTerm = 2
  CompactMin = 2
  CompactGap = 1
  MaxRestarts = 1
INVARIANTS
  AnsweredIsDurable
  AppliedIsProcessed
  PendingHasEntry
  HandedOutIsStored
PROPERTIES
  AppliesOnce
  WaitingIsAnswered
