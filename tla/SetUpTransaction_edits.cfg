SPECIFICATION OperationsSpec
CONSTANTS
  r1 = r1
  r2 = r2
  i1 = i1
  i2 = i2
  e1 = e1
  g1 = g1
  g2 = g2
  s1 = s1
  s2 = s2
  Old = Old
  None = None
  Readers <- MCReaders
  Installers <- MCInstallers
  Evictors <- MCEvictors
  Attempts = 2
  Builds = {"b1", "b2"}
  Releases = {1}
  Importing = {1, 2}
  ImportFree = {3}
  FirstText = 1
  MaxTextEdits = 2
  Archivers = {"a1", "a2"}
  TargetOf <- MCTargetOf
  VersionOf <- MCVersionOf
  MaxEvents = 1
  Publishers <- MCPublishers
  WebsiteBuilds = {"w1"}
  Stagings = {"s1"}
  Channels = {"stable"}
  DatedReleases = {1}
  ReleaseTexts = {1, 2}
  MaxReleaseEdits = 1
  Destinations <- MCTargets
  Guarded = {"codex", "json"}
  Before <- MCBefore
  MaxEdits = 3
  Setups <- MCSetups
  BundleBuilds = {"b1"}
  PackageVersions <- MCVersionOf
  MaxInstallationEvents = 2
  ArgumentLists <- MCArgumentLists
  Environments <- MCEnvironments
  Managed <- MCManaged
  Legacy <- MCLegacy
  CodexTexts <- MCTexts
  JsonDocuments <- MCJsonDocuments
  InsertedLines <- MCInsertedLines
INVARIANTS EditsSurvive
CHECK_DEADLOCK FALSE
