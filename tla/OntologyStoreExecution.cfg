SPECIFICATION FairSpec
CONSTANTS
  r1 = r1
  r2 = r2
  r3 = r3
  d1 = d1
  d2 = d2
  None = None
  Requests <- MCRequests
  Datasets <- MCDatasets
  DatasetOf <- MCDatasetOf
  ByteLength <- MCByteLength
  QueueLimit = 2
  ByteLimit = 3
INVARIANTS UnsettledIsHeld OneAtATime AnswersAreOwn
PROPERTIES EventuallyAnswered ImplementsService
CHECK_DEADLOCK FALSE
