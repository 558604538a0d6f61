SPECIFICATION MCLongHeldSpec
CONSTANTS
  p1 = p1
  p2 = p2
  p3 = p3
  p4 = p4
  None = None
  Processes <- MCFour
  MayCrash <- MCNobody
  StaleAfter = 1
INVARIANTS ExclusiveOperations
CHECK_DEADLOCK FALSE
