---------------------------- MODULE WorkerPoolProofs ----------------------------
(***************************************************************************)
(* Proofs about WorkerPool for every kind of pool: any number of threads,  *)
(* with and without a timeout, every threshold, batch size and bound.      *)
(***************************************************************************)
EXTENDS WorkerPool, TLAPS

(* A pool at hand has a thread, and its numbers are positive.               *)
LEMMA PoolAtHand ==
  ASSUME PoolTypeOK
  PROVE  /\ Workers \subseteq Threads /\ Workers # {} /\ Nobody \notin Workers
         /\ NotifyAt \in Nat \ {0} /\ TakeUpTo \in Nat \ {0} /\ PushUpTo \in Nat \ {0}
<1>1. pool \in PoolKinds
  BY PoolAssumption DEF PoolTypeOK
<1>2. QED
  BY <1>1, PoolAssumption
     DEF PoolKinds, Workers, NotifyAt, TakeUpTo, PushUpTo

(* What a pool is does not change: its threads and numbers are the same in  *)
(* the next state.                                                          *)
LEMMA SamePool ==
  ASSUME pool' = pool
  PROVE  /\ Workers' = Workers /\ NotifyAt' = NotifyAt
         /\ TakeUpTo' = TakeUpTo /\ PushUpTo' = PushUpTo /\ Timed' = Timed
  BY DEF Workers, NotifyAt, TakeUpTo, PushUpTo, Timed

LEMMA PoolInitInv == PoolInit => PoolInv
<1> SUFFICES ASSUME PoolInit PROVE PoolInv
  OBVIOUS
<1>1. PoolTypeOK
  <2>1. pool \in PoolKinds
    BY PoolAssumption DEF PoolInit
  <2>2. QED
    BY <2>1, PoolAssumption DEF PoolInit, PoolTypeOK, PoolPC
<1>2. MutexHeld /\ BlocksOnEmpty /\ PopsSomething /\ NoSleepingOnWork
  BY <1>1, PoolAtHand
     DEF PoolInit, MutexHeld, BlocksOnEmpty, PopsSomething, NoSleepingOnWork, Holding
<1>3. QED
  BY <1>1, <1>2 DEF PoolInv

(* What a worker does by itself keeps the invariant.                        *)
LEMMA RunInv ==
  ASSUME PoolInv, NEW w \in Workers, Run(w) \/ SpuriousWakeup(w)
  PROVE  PoolInv'
<1>a. pool' = pool
  BY DEF Run, LoopTop, Lock, Check, Block, Expire, Recheck, TakeTasks, Work, SpuriousWakeup
<1> USE <1>a, PoolAtHand, SamePool
    DEF PoolInv, PoolTypeOK, PoolPC, Holding, Step, Acquire, Release, WaitOver
<1>1. CASE LoopTop(w)
  BY <1>1 DEF LoopTop, MutexHeld, BlocksOnEmpty, PopsSomething, NoSleepingOnWork
<1>2. CASE Lock(w)
  BY <1>2 DEF Lock, MutexHeld, BlocksOnEmpty, PopsSomething, NoSleepingOnWork
<1>3. CASE Check(w)
  BY <1>3 DEF Check, MutexHeld, BlocksOnEmpty, PopsSomething, NoSleepingOnWork
<1>4. CASE Block(w)
  <2>1. queue = 0
    BY <1>4 DEF Block, BlocksOnEmpty
  <2>2. QED
    BY <1>4, <2>1 DEF Block, MutexHeld, BlocksOnEmpty, PopsSomething, NoSleepingOnWork
<1>5. CASE Expire(w)
  BY <1>5 DEF Expire, MutexHeld, BlocksOnEmpty, PopsSomething, NoSleepingOnWork
<1>6. CASE Recheck(w)
  BY <1>6 DEF Recheck, MutexHeld, BlocksOnEmpty, PopsSomething, NoSleepingOnWork
<1>7. CASE TakeTasks(w)
  <2>1. \A v \in Workers \ {w} : pc[v] \notin {"take", "block"}
    BY <1>7 DEF TakeTasks, MutexHeld
  <2>2. pc'[w] \in {"done", "work"} /\ \A v \in Workers \ {w} : pc'[v] = pc[v]
    BY <1>7 DEF TakeTasks
  <2>3. PoolTypeOK'
    BY <1>7 DEF TakeTasks
  <2>4. MutexHeld'
    BY <1>7, <2>2 DEF TakeTasks, MutexHeld
  <2>5. BlocksOnEmpty' /\ PopsSomething' /\ NoSleepingOnWork'
    BY <2>1, <2>2 DEF BlocksOnEmpty, PopsSomething, NoSleepingOnWork
  <2>6. QED
    BY <2>3, <2>4, <2>5
<1>8. CASE Work(w)
  BY <1>8 DEF Work, MutexHeld, BlocksOnEmpty, PopsSomething, NoSleepingOnWork
<1>9. CASE SpuriousWakeup(w)
  BY <1>9 DEF SpuriousWakeup, MutexHeld, BlocksOnEmpty, PopsSomething, NoSleepingOnWork
<1>10. QED
  BY <1>1, <1>2, <1>3, <1>4, <1>5, <1>6, <1>7, <1>8, <1>9 DEF Run

(* notify_one leaves at least one worker awake and moves nobody into the    *)
(* locked block.                                                            *)
LEMMA NotifyOneWakes ==
  ASSUME PoolTypeOK, NotifyOne
  PROVE  /\ pc' \in [Workers -> PoolPC]
         /\ \A v \in Workers : pc'[v] = pc[v] \/ (pc[v] = "blocked" /\ pc'[v] = "relock")
         /\ \E v \in Workers : pc'[v] # "blocked"
<1>1. CASE \E v \in Workers : pc[v] = "blocked"
  <2>1. PICK u \in Workers : pc[u] = "blocked" /\ pc' = [pc EXCEPT ![u] = "relock"]
    BY <1>1 DEF NotifyOne, Step
  <2>2. pc'[u] = "relock" /\ \A v \in Workers \ {u} : pc'[v] = pc[v]
    BY <2>1 DEF PoolTypeOK
  <2>3. pc' \in [Workers -> PoolPC]
    BY <2>1 DEF PoolTypeOK, PoolPC
  <2>4. QED
    BY <2>1, <2>2, <2>3
<1>2. CASE ~\E v \in Workers : pc[v] = "blocked"
  <2>1. pc' = pc
    BY <1>2 DEF NotifyOne
  <2>2. QED
    BY <1>2, <2>1, PoolAtHand DEF PoolTypeOK
<1>3. QED
  BY <1>1, <1>2

(* A push keeps the invariant: nobody is between check and block then.      *)
LEMMA PushInv ==
  ASSUME PoolInv, NEW k \in 1 .. PushUpTo, Push(k)
  PROVE  PoolInv'
<1>a. pool' = pool
  BY DEF Push
<1> USE <1>a, PoolAtHand, SamePool DEF PoolInv
<1>1. mutex = Nobody /\ mutex' = mutex /\ running' = running /\ stopper' = stopper
  BY DEF Push
<1>2. \A v \in Workers : pc[v] \notin Holding
  BY <1>1 DEF MutexHeld
<1>3. queue' \in Nat /\ queue' >= queue /\ pushed' \in 0 .. MaxPushed
  BY DEF Push, PoolTypeOK
<1>4. /\ pc' \in [Workers -> PoolPC]
      /\ \A v \in Workers : pc'[v] = pc[v] \/ (pc[v] = "blocked" /\ pc'[v] = "relock")
      /\ queue' >= NotifyAt => \E v \in Workers : pc'[v] # "blocked"
  <2>1. CASE queue' >= NotifyAt
    BY <2>1, NotifyOneWakes DEF Push
  <2>2. CASE ~(queue' >= NotifyAt)
    BY <2>2 DEF Push, PoolTypeOK
  <2>3. QED
    BY <2>1, <2>2
<1>5. \A v \in Workers : pc'[v] \notin Holding
  BY <1>2, <1>4 DEF Holding
<1>6. PoolTypeOK'
  BY <1>1, <1>3, <1>4 DEF PoolTypeOK
<1>7. MutexHeld' /\ BlocksOnEmpty' /\ PopsSomething'
  BY <1>1, <1>5 DEF MutexHeld, BlocksOnEmpty, PopsSomething, Holding
<1>8. NoSleepingOnWork'
  BY <1>4 DEF NoSleepingOnWork
<1>9. QED
  BY <1>6, <1>7, <1>8

(* stop() keeps the invariant although it never takes the mutex.            *)
LEMMA StopInv ==
  ASSUME PoolInv, Stop
  PROVE  PoolInv'
<1>a. pool' = pool
  BY DEF Stop, ClearRunning, NotifyAll, Join
<1> USE <1>a, PoolAtHand, SamePool DEF PoolInv, PoolTypeOK, PoolPC, Holding
<1>1. CASE ClearRunning
  BY <1>1 DEF ClearRunning, MutexHeld, BlocksOnEmpty, PopsSomething, NoSleepingOnWork
<1>2. CASE NotifyAll
  BY <1>2
     DEF NotifyAll, MutexHeld, BlocksOnEmpty, PopsSomething, NoSleepingOnWork
<1>3. CASE Join
  BY <1>3 DEF Join, MutexHeld, BlocksOnEmpty, PopsSomething, NoSleepingOnWork
<1>4. QED
  BY <1>1, <1>2, <1>3 DEF Stop

LEMMA PoolNextInv == PoolInv /\ [PoolNext]_poolVars => PoolInv'
<1> SUFFICES ASSUME PoolInv, [PoolNext]_poolVars PROVE PoolInv'
  OBVIOUS
<1>1. CASE \E w \in Workers : Run(w) \/ SpuriousWakeup(w)
  BY <1>1, RunInv
<1>2. CASE \E k \in 1 .. PushUpTo : Push(k)
  BY <1>2, PushInv
<1>3. CASE Stop
  BY <1>3, StopInv
<1>4. CASE Stopped \/ UNCHANGED poolVars
  BY <1>4, SamePool
     DEF Stopped, poolVars, PoolInv, PoolTypeOK, MutexHeld, BlocksOnEmpty,
              PopsSomething, NoSleepingOnWork
<1>5. QED
  BY <1>1, <1>2, <1>3, <1>4 DEF PoolNext

LEMMA PoolInvariance == PoolSpec => []PoolInv
  BY PoolInitInv, PoolNextInv, PTL DEF PoolSpec

(* Type correctness, and with it that a pop never takes more than there is. *)
THEOREM PoolTypeCorrect == PoolSpec => []PoolTypeOK
<1>1. PoolInv => PoolTypeOK
  BY DEF PoolInv
<1>2. QED
  BY <1>1, PoolInvariance, PTL

(* However threads wake up and whoever stops them, a worker pops only from  *)
(* a queue that holds something.                                            *)
THEOREM PopsAreSafe == PoolSpec => []PopsSomething
<1>1. PoolInv => PopsSomething
  BY DEF PoolInv
<1>2. QED
  BY <1>1, PoolInvariance, PTL

(* Notifying one thread per push, and only from the threshold on, never     *)
(* leaves all of them asleep on announced work.                             *)
THEOREM NobodySleepsOnWork == PoolSpec => []NoSleepingOnWork
<1>1. PoolInv => NoSleepingOnWork
  BY DEF PoolInv
<1>2. QED
  BY <1>1, PoolInvariance, PTL
=============================================================================
