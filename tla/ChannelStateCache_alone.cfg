SPECIFICATION Spec
CONSTANTS
  None = None
  Processes = {p1}
  MayCrash = {p1}
  Limit = 2
  Versions = 4
  MaxStarts = 4
PROPERTIES LastKnownGoodKept TwoCompleteKept RetainedStatesProtected
CHECK_DEADLOCK FALSE
