SPECIFICATION Spec
CONSTANTS
  None = None
  Processes = {p1, p2}
  MayCrash = {}
  Limit = 9
  Versions = 3
  MaxStarts = 2
PROPERTIES RetainedStateIsReadable
CHECK_DEADLOCK FALSE
