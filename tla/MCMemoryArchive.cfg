\* One caller and the worker, two messages, two saves.
CONSTANTS
  c1 = c1
  w = w
  Callers <- MCCallers
  Worker = w
  NoLevel = NoLevel
  Groups = {g1}
  Levels = {"3h", "12h"}
  Enough = 2
  MessageIds = {2}
  MemoryIds = {1, 2}
  MaxMessages = 2
  MaxSaves = 2
SPECIFICATION Spec
VIEW Relevant
INVARIANTS
  ArchiveTypeOK
  
  
  
CHECK_DEADLOCK FALSE
