SPECIFICATION FairSpec
CONSTANTS
  None = None
  Processes = {p1, p2}
  MayCrash = {p1}
  Limit = 3
  Versions = 2
  MaxStarts = 2
PROPERTIES GenerationsGrow InitializationEnds
CHECK_DEADLOCK FALSE
