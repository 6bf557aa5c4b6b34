CHECK_DEADLOCK FALSE
SPECIFICATION FairSpec
CONSTANTS
  Sender = {t1, t2}
  Levels = 3
  Capacity = 2
  Direct = {2}
  MaxMessages = 4
INVARIANTS
  PermitsConserved
  PermitMeansRoom
PROPERTIES
  ScanKeepsPriority
  CriticalIsReceived
