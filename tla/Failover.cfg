SPECIFICATION FairSpec
CHECK_DEADLOCK FALSE
CONSTANTS
  Components = {"client"}
  TimeoutCallers = {c1, c2}
  MaxRetries = 1
  MinTimeout = 2
  BaseTimeout = 4
  MaxTimeout = 6
  MaxOperations = 3
  Requesters = {t1, t2}
  Members = {n1, n2}
  Strangers = {s1}
  None = None
  MaxOutages = 1
  c1 = c1
  c2 = c2
  t1 = t1
  t2 = t2
  n1 = n1
  n2 = n2
  s1 = s1
PROPERTIES
  EveryRequestEnds
