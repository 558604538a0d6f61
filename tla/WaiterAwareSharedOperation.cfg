SPECIFICATION FairSpec
CONSTANTS
  NoEntry = NoEntry
  Calls = {c1, c2, c3, c4}
  Keys = {k1, k2}
INVARIANTS TypeOK WaiterCountExact AwaitedNotAborted RegistryExact
PROPERTIES NoAbortAfterSettlement AbstractSpec WaitersAnswered
