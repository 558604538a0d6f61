SPECIFICATION MCSpec
CONSTANTS
  r1 = r1
  r2 = r2
  r3 = r3
  None = None
  Requests <- MCCalls
  ByteLength <- MCByteLength
  QueueLimit = 1
  ByteLimit = 4
  PendingLimit = 2
  Connections <- MCConnections
  HttpRequests <- MCCalls
  MaximumConcurrent = 1
  Burst = 1
  Scale = 2
  Refill = 1
  LastTick = 2
  TaskCount = 3
  TaskSizes <- MCTaskSizes
  PoolSize = 2
  MaximumBytes = 2
  LongestBody = 3
  Reads <- MCCalls
  ProcessOf <- MCProcessOf
  Releases <- MCReleases
  DigestOf <- MCDigestOf
  Fitting <- MCFitting
  Room = 1
INVARIANTS AccountsExact ServersSafe ReadsSafe
PROPERTIES WorkEnds ServersShutDown ReadsEnd
CHECK_DEADLOCK FALSE
