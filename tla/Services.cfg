SPECIFICATION Spec
CHECK_DEADLOCK FALSE
CONSTANTS
  Components <- Local
  NoNode = "none"
  Occurrences <- SomeOccurrences
  Filters <- SomeFilters
  StatusCallers = {c1, c2}
  StatusCapacity = 3
  MaxStatusCommands = 4
  PoolCallers = {c1, c2}
  PoolPeers = {p1}
  PoolCapacity = 2
  MaxPoolAdded = 2
  Threads = {c1, c2}
  PoolKeys = {p1, p2}
  QueueSize = 1
  MaxCounted = 2
  Samples = {0, 1, 9, 10, 10000000}
  MaxSamples = 3
  Caller = {c1, c2}
  Operator = {p1}
  FailureThreshold = 1
  SuccessThreshold = 2
  HalfOpenMax = 1
  MayCancel = TRUE
  MaxFailures = 1
  BreakerUsers = {c1, c2}
  BreakerServices = {p1}
  MaxBreakers = 2
  LoopProposals = {p1, p2}
  MaxLoopMessages = 1
  VmNames = {p1}
  MaxBuilt = 2
  Processors = {c1, c2}
  Hashes = {p1, p2}
  CacheCapacity = 1
  MaxQueuedMessages = 3
  MaxIndex = 4
  Publishers = {c1, c2}
  Subscriptions = {p1, p2}
  MaxEvents = 1
  MaxOpened = 2
  Clusters = {p1, p2}
  LocalCluster = p1
  DiscoveryNodes = {1}
  Placeholder = {1}
  NoLeader = 0
  Streams = {p1, p2}
  AuthNodes = {n1}
  Peers = {p1, p2}
  Issuers = {c1}
  FacadeCallers = {c1, c2}
  MaxFacadeCommands = 3
  ApiCallers = {c1, c2}
  ApiNode = 1
  ApiNodes = {1, 2}
  MaxListed = 3
  MaxApplied = 1
  Durations = {1000, 6000}
  Addresses = {p1}
  MaxPeers = 1
  KvReplicas = {c1, c2}
  KvKeys = {p1}
  KvValues = {n1}
  MaxKvLog = 3
  StoreReplicas = {c1, c2}
  StoreKeys = {p1}
  MaxStoreLog = 2
  MaxClock = 1
  KvClients = {c1, c2}
  NodeCount = 2
  MaxKvRequests = 2
  CodecNumbers = {1, 2}
  CodecStrings <- SomeStrings
  MaxInstalled = 3
  MaxInstalls = 2
  DeployConfigs <- SomeDeployments
  DeployIds = {1, 2, 3}
  MaxDeployCalls = 4
  BackupCallers = {c1}
  Schedule = "schedule"
  Retention = 2
  MaxBackups = 5
  Monitors = {c1, c2}
  FailuresLimit = 1
  MaxCollections = 3
  MaxAlerts = 3
  MaxSpans = 2
  c1 = c1
  c2 = c2
  p1 = p1
  p2 = p2
  n1 = n1
INVARIANTS
  CountsSettle
  QuotaOvershoot
  SuccessOvershoot
  PercentileIsTight
  OnlyTheCutReadyIsLost
  ServesItsRange
  FirstStreamsMissNothing
  NoCallIsCutOff
  ClassesKeepTheirOrder
  ReadsBackOrRefuses
  NewestBackupsAreKept
  TablesAgree
