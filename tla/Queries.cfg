SPECIFICATION QueriesSpec
CONSTANTS
  Snapshots <- MCSnapshots
  Iris <- MCIris
  MaxSnapshots = 2
  Calls <- MCSnapshots
  Keys <- MCKeys
  ByteSize <- MCByteSize
  MaxIndexBytes = 3
  Matches <- MCMatches
  MaxMatches = 3
  Budgets = {2, 4}
  Counts = {1, 2}
  CandidateLimit = 2
  Candidates <- MCCandidates
  IndexSize = 2
  Queries <- MCQueriedTexts
  Preferences <- MCPreferences
  Selections <- MCSelections
  CurrentProperty = 1
  NotALiteral <- MCNotALiteral
  Graph <- MCGraph
  MaxEdges = 3
  Source = 1
  Target = 3
  Depths = {0, 1, 2}
  Directions = {"both", "outgoing"}
  NodeLimits = {2, 4}
  ConnectionLimits = {2, 4}
  MaximumPaths = 1
  Events <- MCEvents
  Changeable <- MCChangeable
  MaxChanges = 2
  MaxRuns = 2
  MaxAttempts = 2
  MaxBase = 2
  Images <- MCImages
  Uses <- MCImages
  Versions <- MCVersions
  MaxLoads = 2
  ArtifactsOf <- MCArtifactsOf
  Recorded = {1}
  Violating <- MCViolating
  Qualifications = {1}
  MaxWorldChanges = 2
  a = a
  b = b
  c = c
  i = i
  NoIri = NoIri
  NoEntry = NoEntry
  None = None
  Begin = Begin
  End = End
  m1 = m1
  m2 = m2
SYMMETRY MCInterchangeable
INVARIANTS ReferencesAreSelections PagesCoverOnce RanksAreDeterministic AnswersAreHonest
  IndexCacheBounded DeliverySafe
CHECK_DEADLOCK FALSE
