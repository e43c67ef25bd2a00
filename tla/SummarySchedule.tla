---------------------------- MODULE SummarySchedule ----------------------------
(***************************************************************************)
(* MemorySummarizer's task queue: threads that call summarize_now, the     *)
(* cron thread, which pushes without the queue's mutex, and the one worker *)
(* thread that waits on the condition variable without a timeout.          *)
(*                                                                         *)
(* Time is counted in rounds of one minute; a round of the cron may last   *)
(* up to LongestSleep of them (a suspended machine, a stepped clock).      *)
(***************************************************************************)
EXTENDS Naturals, FiniteSets, Sequences

CONSTANTS
  Callers,       \* threads that may call summarize_now
  Groups,        \* the group ids; the cron's list is fixed in the code
  Levels,        \* the levels the cron schedules: 3h, 12h, 24h
  Interval,      \* Config::summary_*_interval, [Levels -> Nat]
  LongestSleep,  \* bound: the longest round of the cron
  MaxTasks       \* bound: no push beyond this queue length

ASSUME ScheduleAssumption ==
  /\ IsFiniteSet(Groups) /\ IsFiniteSet(Levels)
  /\ Interval \in [Levels -> Nat \ {0}]
  /\ LongestSleep \in Nat \ {0}
  /\ MaxTasks \in Nat

VARIABLES
  phase,    \* "up", "flagged" (running_ is false), "stopping" (notified), "down"
  tasks,    \* task_queue_
  worker,   \* "check" (takes the mutex), "block" (found nothing, still has it),
            \* "asleep", "busy" (in do_summarize), "exited"
  telling,  \* callers between their unlock and their notify_one
  cron,     \* "sleep", "notify", "exited"
  last,     \* how long ago last_3h, last_12h, last_24h were set
  idle      \* history: how long ago the cron last queued each level, capped

vars == <<phase, tasks, worker, telling, cron, last, idle>>

Task == [group : Groups, level : Levels]

ScheduleTypeOK ==
  /\ phase \in {"up", "flagged", "stopping", "down"}
  /\ tasks \in Seq(Task)
  /\ worker \in {"check", "block", "asleep", "busy", "exited"}
  /\ telling \subseteq Callers
  /\ cron \in {"sleep", "notify", "exited"}
  /\ last \in [Levels -> Nat]
  /\ idle \in [Levels -> Nat]
  /\ phase = "up" => worker # "exited" /\ cron # "exited"

Running == phase = "up"

Init ==
  /\ phase = "up"
  /\ tasks = <<>>
  /\ worker = "check"
  /\ telling = {}
  /\ cron = "sleep"
  /\ last = [l \in Levels |-> 0]
  /\ idle = [l \in Levels |-> 0]

Notify == worker' = IF worker = "asleep" THEN "check" ELSE worker

-----------------------------------------------------------------------------
(* The threads that ask for a summary. *)

SummarizeNow(c, g, l) ==
  /\ Running
  /\ worker # "block"
  /\ c \notin telling
  /\ Len(tasks) < MaxTasks
  /\ tasks' = Append(tasks, [group |-> g, level |-> l])
  /\ telling' = telling \cup {c}
  /\ UNCHANGED <<phase, worker, cron, last, idle>>

Tell(c) ==
  /\ c \in telling
  /\ telling' = telling \ {c}
  /\ Notify
  /\ UNCHANGED <<phase, tasks, cron, last, idle>>

-----------------------------------------------------------------------------
(* worker_loop *)

WorkerTake ==
  /\ worker = "check" /\ Running /\ tasks # <<>>
  /\ tasks' = Tail(tasks)
  /\ worker' = "busy"
  /\ UNCHANGED <<phase, telling, cron, last, idle>>

(* The predicate is false: the thread is about to block.                    *)
WorkerFindsNothing ==
  /\ worker = "check" /\ Running /\ tasks = <<>>
  /\ worker' = "block"
  /\ UNCHANGED <<phase, tasks, telling, cron, last, idle>>

WorkerSleeps ==
  /\ worker = "block"
  /\ worker' = "asleep"
  /\ UNCHANGED <<phase, tasks, telling, cron, last, idle>>

SpuriousWakeup ==
  /\ worker = "asleep"
  /\ worker' = "check"
  /\ UNCHANGED <<phase, tasks, telling, cron, last, idle>>

(* do_summarize returns or throws; MemoryArchive says what it writes.       *)
WorkerDone ==
  /\ worker = "busy"
  /\ worker' = "check"
  /\ UNCHANGED <<phase, tasks, telling, cron, last, idle>>

WorkerExit ==
  /\ worker = "check" /\ ~Running
  /\ worker' = "exited"
  /\ UNCHANGED <<phase, tasks, telling, cron, last, idle>>

-----------------------------------------------------------------------------
(* cron_loop *)

Due(d) == {l \in Levels : last[l] + d >= Interval[l]}

(* The tasks of a round, pushed in any order.                               *)
Orders(kept) ==
  {s \in [1 .. Cardinality(kept) -> kept] : \A i, j \in DOMAIN s : s[i] = s[j] => i = j}

(* What unlocked pushes leave in the queue: a caller or the worker may be   *)
(* at the queue too, and of two pushes to the same slot only one survives:  *)
(* the cron's, or the one of a caller that has just pushed.                 *)
PushUnlocked(new) ==
  \E kept \in SUBSET new :
    /\ Len(tasks) + Cardinality(kept) <= MaxTasks
    /\ \E s \in Orders(kept) :
         \/ tasks' = tasks \o s
         \/ /\ telling # {} /\ tasks # <<>> /\ kept # {}
            /\ tasks' = SubSeq(tasks, 1, Len(tasks) - 1) \o s

Older(d) ==
  [l \in Levels |->
     IF l \in Due(d) THEN 0
     ELSE IF idle[l] + d < Interval[l] THEN idle[l] + d ELSE Interval[l]]

(* A round: what is due is pushed, and all three times are set to now.      *)
CronRound(d) ==
  /\ cron = "sleep" /\ Running
  /\ PushUnlocked([group : Groups, level : Due(d)])
  /\ last' = [l \in Levels |-> 0]
  /\ idle' = Older(d)
  /\ cron' = "notify"
  /\ UNCHANGED <<phase, worker, telling>>

(* Mutant: the cron notifies only in rounds in which something was due.     *)
CronNotifyWhenDue ==
  /\ cron = "notify"
  /\ cron' = "sleep"
  /\ IF \E l \in Levels : idle[l] = 0 THEN Notify ELSE UNCHANGED worker
  /\ UNCHANGED <<phase, tasks, telling, last, idle>>

CronNotify ==
  /\ cron = "notify"
  /\ cron' = "sleep"
  /\ IF tasks # <<>> THEN Notify ELSE UNCHANGED worker
  /\ UNCHANGED <<phase, tasks, telling, last, idle>>

CronExit ==
  /\ cron = "sleep" /\ ~Running
  /\ cron' = "exited"
  /\ UNCHANGED <<phase, tasks, worker, telling, last, idle>>

-----------------------------------------------------------------------------
(* MemorySummarizer::stop, when shutdown has stopped the HTTP server, and   *)
(* the next start; tasks still queued are dropped.                          *)

Stop ==
  /\ Running /\ telling = {}
  /\ phase' = "flagged"
  /\ UNCHANGED <<tasks, worker, telling, cron, last, idle>>

StopNotifies ==
  /\ phase = "flagged"
  /\ phase' = "stopping"
  /\ Notify
  /\ UNCHANGED <<tasks, telling, cron, last, idle>>

Joined ==
  /\ phase = "stopping"
  /\ worker = "exited" /\ cron = "exited"
  /\ phase' = "down"
  /\ tasks' = <<>>
  /\ UNCHANGED <<worker, telling, cron, last, idle>>

(* Mutant: the cron thread of the previous run is not replaced.             *)
StartWithoutCron ==
  /\ phase = "down"
  /\ phase' = "up"
  /\ worker' = "check"
  /\ last' = [l \in Levels |-> 0]
  /\ idle' = [l \in Levels |-> 0]
  /\ UNCHANGED <<tasks, telling, cron>>

Start ==
  /\ phase = "down"
  /\ phase' = "up"
  /\ worker' = "check"
  /\ cron' = "sleep"
  /\ last' = [l \in Levels |-> 0]
  /\ idle' = [l \in Levels |-> 0]
  /\ UNCHANGED <<tasks, telling>>

-----------------------------------------------------------------------------
WorkerStep ==
  WorkerTake \/ WorkerFindsNothing \/ WorkerSleeps \/ WorkerDone \/ WorkerExit

CronStep == CronNotify \/ CronExit \/ \E d \in 1 .. LongestSleep : CronRound(d)

Next ==
  \/ \E c \in Callers, g \in Groups, l \in Levels : SummarizeNow(c, g, l)
  \/ \E c \in Callers : Tell(c)
  \/ WorkerStep \/ SpuriousWakeup
  \/ CronStep
  \/ Stop \/ StopNotifies \/ Joined \/ Start

Spec == Init /\ [][Next]_vars

(* Fairness: threads are scheduled, a caller that has pushed notifies, and  *)
(* do_summarize returns.  No wakeup without a notification is assumed.      *)
FairSpec ==
  /\ Spec
  /\ WF_vars(WorkerStep)
  /\ WF_vars(CronStep)
  /\ \A c \in Callers : WF_vars(Tell(c))

-----------------------------------------------------------------------------
(* The cron pushes and notifies without the mutex, so its notification can  *)
(* fall between the worker's look at the queue and its sleep; the worker    *)
(* waits without a timeout, and still no task is left in the queue with the *)
(* worker asleep for good, because every round of the cron notifies again   *)
(* while the queue is not empty.                                            *)
QueuedTaskServed == (Running /\ tasks # <<>>) ~> (worker = "busy" \/ ~Running)

(* What the README says and the code does not do.                           *)

(* README.md:329: a summary of level 3h is made "每3h" (every 3 hours): no   *)
(* interval passes without the cron queueing its level.                     *)
OnTime == \A l \in Levels : idle[l] < Interval[l]
=============================================================================
