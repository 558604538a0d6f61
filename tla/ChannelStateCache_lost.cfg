SPECIFICATION Spec
CONSTANTS
  None = None
  Processes = {p1, p2}
  MayCrash = {}
  Limit = 3
  Versions = 4
  MaxStarts = 2
PROPERTIES LastKnownGoodKept
CHECK_DEADLOCK FALSE
