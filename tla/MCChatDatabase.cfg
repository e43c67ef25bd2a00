CONSTANTS
  p1 = p1
  p2 = p2
  n1 = n1
  n2 = n2
  Pids = {p1}
  WatchList <- List
  Arguments <- LongAndShort
  MaxChanges = 0
  Requests = {"post_messages", "get_context", "post_cleanup"}
  Commands = {"cleanup_old_data", "backup_index", "switch_provider"}
  MaxInputs = 3
SPECIFICATION Spec
INVARIANTS
  TypeOK
  UsersFindParts
  NothingRunsAtExit
  
  CallbacksHaveSocket
PROPERTIES
  DropsOnlyBeforeReady
  InitializeReturns
  ShutdownReturns
CHECK_DEADLOCK FALSE
