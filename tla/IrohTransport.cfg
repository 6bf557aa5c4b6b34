SPECIFICATION FairSpec
CONSTANTS
  Peers = {p1}
  p1 = p1
  Senders = {s1}
  s1 = s1
  Messages = 3
  Priorities = {0, 3}
  Sizes = {3}
  MaxBuffered = 2
  BatchLimit = 1
  LargeThreshold = 1
  MaxPayload = 3
INVARIANTS
  OnePlace
  BufferIsOrdered
PROPERTIES
  BufferedLeaves
  ShutdownEnds
