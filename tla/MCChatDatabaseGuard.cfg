CONSTANTS
  p1 = p1
  p2 = p2
  n1 = n1
  n2 = n2
  Pids = {p1, p2}
  WatchList <- List
  Arguments <- LongAndShort
  MaxChanges = 2
  Requests = {}
  Commands = {}
  MaxInputs = 2
SPECIFICATION Spec
INVARIANTS
  OneEntryPerName
  ScanMissesNobody
PROPERTY
  RunningOnesAreListed
CHECK_DEADLOCK FALSE
