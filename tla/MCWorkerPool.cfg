CONSTANTS
  t1 = t1
  t2 = t2
  Nobody = Nobody
  Threads <- Both
  Pools <- AllPools
  MaxPushed = 6
SPECIFICATION FairPool
INVARIANTS
  PoolTypeOK
  PopsSomething
  
PROPERTIES
  Served
  StopReturns
