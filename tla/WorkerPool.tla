------------------------------- MODULE WorkerPool -------------------------------
(***************************************************************************)
(* The worker loops of chatdb at the level of their mutex and condition    *)
(* variable.  MessageProcessor, OllamaClient and MemorySummarizer wait on  *)
(* a condition variable without a timeout and are woken at every push;     *)
(* SQLiteStorage waits at most flush_interval_ms_ and is woken only when   *)
(* batch_size_ messages have gathered.  All of them stop the same way: the *)
(* atomic running_ is cleared and everybody notified without the mutex,    *)
(* then the threads are joined.                                            *)
(***************************************************************************)
EXTENDS Naturals

CONSTANTS
  Threads,    \* threads
  Nobody,     \* the mutex is free
  Pools,      \* the pools a behaviour may be about
  MaxPushed   \* bound: tasks pushed in a behaviour

(* What distinguishes the pools: their threads, whether they wait with      *)
(* wait_for instead of wait, the queue length from which a push notifies,   *)
(* how many tasks a worker takes at once and one locked push appends.       *)
PoolKinds ==
  [threads  : (SUBSET Threads) \ {{}},
   timed    : BOOLEAN,
   notifyAt : Nat \ {0},
   takeUpTo : Nat \ {0},
   pushUpTo : Nat \ {0}]

ASSUME PoolAssumption ==
  /\ Nobody \notin Threads
  /\ Pools \subseteq PoolKinds
  /\ MaxPushed \in Nat

VARIABLES
  pool,       \* the pool at hand
  running,    \* the atomic flag running_
  queue,      \* number of tasks in the queue
  mutex,      \* who holds queue_mutex_
  pc,         \* where each worker is
  stopper,    \* the thread in stop(): "serving", "cleared", "joining", "stopped"
  pushed      \* tasks pushed so far

poolVars == <<pool, running, queue, mutex, pc, stopper, pushed>>

Workers  == pool.threads
Timed    == pool.timed
NotifyAt == pool.notifyAt
TakeUpTo == pool.takeUpTo
PushUpTo == pool.pushUpTo

Holding == {"check", "recheck", "block", "take"}
PoolPC == {"top", "lock", "blocked", "relock", "expired", "work", "done"} \cup Holding

PoolTypeOK ==
  /\ pool \in Pools
  /\ running \in BOOLEAN
  /\ queue \in Nat
  /\ mutex \in Workers \cup {Nobody}
  /\ pc \in [Workers -> PoolPC]
  /\ stopper \in {"serving", "cleared", "joining", "stopped"}
  /\ pushed \in 0 .. MaxPushed

PoolInit ==
  /\ pool \in Pools
  /\ running = TRUE
  /\ queue = 0
  /\ mutex = Nobody
  /\ pc = [w \in Workers |-> "top"]
  /\ stopper = "serving"
  /\ pushed = 0

Step(w, from, to) == pc[w] = from /\ pc' = [pc EXCEPT ![w] = to]

Acquire(w) == mutex = Nobody /\ mutex' = w
Release == mutex' = Nobody

(* while (running_)                                                         *)
LoopTop(w) ==
  /\ Step(w, "top", IF running THEN "lock" ELSE "done")
  /\ UNCHANGED <<pool, running, queue, mutex, stopper, pushed>>

(* Mutant: a woken worker does not test the predicate again.                *)
LockTrustsWakeup(w) ==
  /\ \/ Step(w, "lock", "check") \/ Step(w, "relock", "take") \/ Step(w, "expired", "recheck")
  /\ Acquire(w)
  /\ UNCHANGED <<pool, running, queue, stopper, pushed>>

Lock(w) ==
  /\ \/ Step(w, "lock", "check") \/ Step(w, "relock", "check") \/ Step(w, "expired", "recheck")
  /\ Acquire(w)
  /\ UNCHANGED <<pool, running, queue, stopper, pushed>>

(* The predicate of the wait is evaluated under the mutex, but running_ is  *)
(* also written without it.                                                 *)
WaitOver == queue # 0 \/ ~running

Check(w) ==
  /\ Step(w, "check", IF WaitOver THEN "take" ELSE "block")
  /\ UNCHANGED <<pool, running, queue, mutex, stopper, pushed>>

Block(w) ==
  /\ Step(w, "block", "blocked")
  /\ Release
  /\ UNCHANGED <<pool, running, queue, stopper, pushed>>

SpuriousWakeup(w) ==
  /\ Step(w, "blocked", "relock")
  /\ UNCHANGED <<pool, running, queue, mutex, stopper, pushed>>

(* Mutant: waits for a full batch only.                                     *)
ExpireFull(w) ==
  /\ Timed
  /\ queue >= NotifyAt
  /\ Step(w, "blocked", "expired")
  /\ UNCHANGED <<pool, running, queue, mutex, stopper, pushed>>

Expire(w) ==
  /\ Timed
  /\ Step(w, "blocked", "expired")
  /\ UNCHANGED <<pool, running, queue, mutex, stopper, pushed>>

(* After a timeout wait_for returns the predicate; nothing to do means      *)
(* another round of the loop.                                               *)
Recheck(w) ==
  /\ \/ WaitOver /\ Step(w, "recheck", "take") /\ UNCHANGED mutex
     \/ ~WaitOver /\ Step(w, "recheck", "top") /\ Release
  /\ UNCHANGED <<pool, running, queue, stopper, pushed>>

(* Mutant: flush_batch pops a full batch without looking for the end.       *)
TakeWholeBatch(w) ==
  /\ Release
  /\ \/ ~running /\ Step(w, "take", "done") /\ UNCHANGED queue
     \/ running /\ Step(w, "take", "work") /\ queue' = queue - TakeUpTo
  /\ UNCHANGED <<pool, running, stopper, pushed>>

(* if (!running_) break; otherwise pop and leave the locked block.          *)
TakeTasks(w) ==
  /\ Release
  /\ \/ ~running /\ Step(w, "take", "done") /\ UNCHANGED queue
     \/ /\ running
        /\ Step(w, "take", "work")
        /\ queue' = IF queue > TakeUpTo THEN queue - TakeUpTo ELSE 0
  /\ UNCHANGED <<pool, running, stopper, pushed>>

Work(w) ==
  /\ Step(w, "work", "top")
  /\ UNCHANGED <<pool, running, queue, mutex, stopper, pushed>>

(* Mutant: an empty pool is not woken by a push of several tasks.           *)
NotifyOneIfSingle ==
  IF queue' = queue + 1 /\ \E v \in Workers : pc[v] = "blocked"
    THEN \E v \in Workers : Step(v, "blocked", "relock")
    ELSE UNCHANGED pc

(* notify_one wakes one blocked thread, if there is any.                    *)
NotifyOne ==
  IF \E v \in Workers : pc[v] = "blocked"
    THEN \E v \in Workers : Step(v, "blocked", "relock")
    ELSE UNCHANGED pc

(* Producers push under the mutex; they are stopped before the pool is.     *)
Push(k) ==
  /\ stopper = "serving"
  /\ mutex = Nobody
  /\ pushed + k <= MaxPushed
  /\ queue' = queue + k
  /\ pushed' = pushed + k
  /\ IF queue' >= NotifyAt THEN NotifyOne ELSE UNCHANGED pc
  /\ UNCHANGED <<pool, running, mutex, stopper>>

ClearRunning ==
  /\ stopper = "serving"
  /\ stopper' = "cleared"
  /\ running' = FALSE
  /\ UNCHANGED <<pool, queue, mutex, pc, pushed>>

(* Mutant: stop() wakes one thread.                                         *)
NotifyOnlyOne ==
  /\ stopper = "cleared"
  /\ stopper' = "joining"
  /\ NotifyOne
  /\ UNCHANGED <<pool, running, queue, mutex, pushed>>

NotifyAll ==
  /\ stopper = "cleared"
  /\ stopper' = "joining"
  /\ pc' = [w \in Workers |-> IF pc[w] = "blocked" THEN "relock" ELSE pc[w]]
  /\ UNCHANGED <<pool, running, queue, mutex, pushed>>

Join ==
  /\ stopper = "joining"
  /\ \A w \in Workers : pc[w] = "done"
  /\ stopper' = "stopped"
  /\ UNCHANGED <<pool, running, queue, mutex, pc, pushed>>

(* The end of the program's use of the pool.                                *)
Stopped == stopper = "stopped" /\ UNCHANGED poolVars

(* What a worker does by itself.                                            *)
Run(w) ==
  \/ LoopTop(w) \/ Lock(w) \/ Check(w) \/ Block(w) \/ Expire(w)
  \/ Recheck(w) \/ TakeTasks(w) \/ Work(w)

Stop == ClearRunning \/ NotifyAll \/ Join

PoolNext ==
  \/ \E w \in Workers : Run(w) \/ SpuriousWakeup(w)
  \/ \E k \in 1 .. PushUpTo : Push(k)
  \/ Stop
  \/ Stopped

PoolSpec == PoolInit /\ [][PoolNext]_poolVars

(* Threads that can run do run, timeouts expire, and stop(), once called,   *)
(* goes on; nothing makes clients push, the owner stop, or a wait wake up   *)
(* spuriously.                                                              *)
FairPool ==
  /\ PoolSpec
  /\ \A w \in Threads : WF_poolVars(w \in Workers /\ Run(w))
  /\ WF_poolVars(NotifyAll) /\ WF_poolVars(Join)

-----------------------------------------------------------------------------
(* Properties *)

(* A worker that goes on to pop finds a task, although threads wake up      *)
(* spuriously or after another worker took the task they were woken for:    *)
(* front() of an empty std::queue is undefined.                             *)
PopsSomething == \A w \in Workers : pc[w] = "take" => queue # 0 \/ ~running

(* Nobody sleeps on work: with as many tasks queued as a push announces, at *)
(* least one worker is awake, although one notify_one announces several     *)
(* tasks and may hit the only sleeper while others are busy.                *)
NoSleepingOnWork ==
  running /\ queue >= NotifyAt => \E w \in Workers : pc[w] # "blocked"

(* The inductive invariant behind both: the mutex is held by exactly the    *)
(* worker inside the locked block, and who is about to block saw no task.   *)
MutexHeld == \A w \in Workers : mutex = w <=> pc[w] \in Holding
BlocksOnEmpty == \A w \in Workers : pc[w] = "block" => queue = 0
PoolInv ==
  PoolTypeOK /\ MutexHeld /\ BlocksOnEmpty /\ PopsSomething /\ NoSleepingOnWork

(* What is queued is taken while the pool runs, also when it stays below    *)
(* the length at which a push notifies.                                     *)
Served == queue # 0 ~> (queue = 0 \/ ~running)

(* The hazard of stop(): it clears running_ and notifies without the mutex, *)
(* between a worker's look at the predicate and its sleep; without a        *)
(* timeout that worker is not woken again.                                  *)
MissesStop == ~Timed /\ stopper = "joining" /\ \E w \in Workers : pc[w] = "block"

(* stop() returns, whatever its threads were doing, in every pool: only a   *)
(* worker between its look and its sleep can miss it, and none can in the   *)
(* pool whose wait has a timeout.                                           *)
StopReturns == stopper = "cleared" ~> stopper = "stopped" \/ MissesStop
=============================================================================
