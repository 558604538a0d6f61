SPECIFICATION MCSpec
CONSTANTS
  p1 = p1
  p2 = p2
  p3 = p3
  p4 = p4
  None = None
  Processes <- MCFour
  MayCrash <- MCFirst
  StaleAfter = 1
INVARIANTS TypeOK ExclusiveUntilDisturbed OwnershipKept NothingLeftBehind
PROPERTIES LiveLeaseNotReclaimed NeverBlockedForGood
CHECK_DEADLOCK FALSE
