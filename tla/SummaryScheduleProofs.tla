------------------------- MODULE SummaryScheduleProofs -------------------------
(***************************************************************************)
(* Proofs about SummarySchedule for every set of callers, groups and       *)
(* levels, all intervals, lengths of a round and lengths of the queue.     *)
(***************************************************************************)
EXTENDS SummarySchedule, FiniteSetTheorems, SequenceTheorems, TLAPS

(* What the cron pushes are tasks, whatever their order.                    *)
LEMMA OrdersTyped ==
  ASSUME NEW kept, IsFiniteSet(kept), NEW s \in Orders(kept)
  PROVE  s \in Seq(kept) /\ (kept = {} => s = <<>>)
<1>1. Cardinality(kept) \in Nat /\ (kept = {} => Cardinality(kept) = 0)
  BY FS_CardinalityType, FS_EmptySet
<1>2. s \in [1 .. Cardinality(kept) -> kept]
  BY DEF Orders
<1>3. s \in Seq(kept) /\ Len(s) = Cardinality(kept)
  BY <1>1, <1>2
<1> QED  BY <1>1, <1>3, EmptySeq

LEMMA TasksFinite == IsFiniteSet(Task)
<1>1. IsFiniteSet(Groups \X Levels)
  BY ScheduleAssumption, FS_Product
<1> DEFINE f == [x \in Groups \X Levels |-> [group |-> x[1], level |-> x[2]]]
<1>2. f \in Surjection(Groups \X Levels, Task)
  <2>1. \A x \in Groups \X Levels : f[x] \in Task
    BY DEF Task
  <2>2. \A t \in Task : <<t.group, t.level>> \in Groups \X Levels /\ f[<<t.group, t.level>>] = t
    BY DEF Task
  <2>3. f \in [Groups \X Levels -> Task]
    BY <2>1
  <2> HIDE DEF f
  <2> QED  BY <2>2, <2>3 DEF Surjection
<1> QED  BY <1>1, <1>2, FS_Surjection

(* The unlocked pushes of a round leave tasks in the queue.                 *)
LEMMA PushesTyped ==
  ASSUME tasks \in Seq(Task), NEW new \in SUBSET Task, PushUnlocked(new)
  PROVE  tasks' \in Seq(Task) /\ (new = {} => tasks' = tasks)
<1> DEFINE Pushed(s, kept) ==
             \/ tasks' = tasks \o s
             \/ /\ telling # {} /\ tasks # <<>> /\ kept # {}
                /\ tasks' = SubSeq(tasks, 1, Len(tasks) - 1) \o s
<1>0. PICK kept \in SUBSET new : \E s \in Orders(kept) : Pushed(s, kept)
  BY DEF PushUnlocked
<1>1. PICK s \in Orders(kept) : Pushed(s, kept)
  BY <1>0
<1>2. IsFiniteSet(kept)
  BY TasksFinite, FS_Subset
<1>3. s \in Seq(Task) /\ (kept = {} => s = <<>>)
  <2>1. s \in Seq(kept) /\ (kept = {} => s = <<>>)
    BY <1>2, OrdersTyped
  <2> QED  BY <2>1
<1>4. tasks # <<>> => SubSeq(tasks, 1, Len(tasks) - 1) \in Seq(Task)
  BY SubSeqProperties, EmptySeq, LenProperties
<1>5. tasks' \in Seq(Task)
  <2>1. CASE tasks' = tasks \o s
    BY <1>3, <2>1, ConcatProperties
  <2>2. CASE tasks # <<>> /\ tasks' = SubSeq(tasks, 1, Len(tasks) - 1) \o s
    BY <1>3, <1>4, <2>2, ConcatProperties
  <2> QED  BY <1>1, <2>1, <2>2
<1>6. ASSUME new = {}  PROVE tasks' = tasks
  <2>1. kept = {} /\ s = <<>>
    BY <1>3, <1>6
  <2> QED  BY <1>1, <2>1, ConcatEmptySeq
<1> QED  BY <1>5, <1>6

LEMMA TypesInit == Init => ScheduleTypeOK
BY EmptySeq DEF Init, ScheduleTypeOK

LEMMA TypesStep ==
  ASSUME ScheduleTypeOK, [Next]_vars
  PROVE  ScheduleTypeOK'
<1> USE DEF ScheduleTypeOK, Running, Notify
<1>1. ASSUME NEW c \in Callers, NEW g \in Groups, NEW l \in Levels, SummarizeNow(c, g, l)
      PROVE  ScheduleTypeOK'
  <2>1. [group |-> g, level |-> l] \in Task
    BY DEF Task
  <2>2. tasks' \in Seq(Task)
    BY <1>1, <2>1 DEF SummarizeNow
  <2> QED  BY <1>1, <2>2 DEF SummarizeNow
<1>2. ASSUME NEW c \in Callers, Tell(c)  PROVE ScheduleTypeOK'
  BY <1>2 DEF Tell
<1>3. CASE WorkerTake
  <2>1. tasks' \in Seq(Task)
    BY <1>3 DEF WorkerTake
  <2> QED  BY <1>3, <2>1 DEF WorkerTake
<1>4. CASE WorkerFindsNothing \/ WorkerSleeps \/ WorkerDone \/ WorkerExit \/ SpuriousWakeup
  BY <1>4 DEF WorkerFindsNothing, WorkerSleeps, WorkerDone, WorkerExit, SpuriousWakeup
<1>5. CASE CronNotify \/ CronExit
  BY <1>5 DEF CronNotify, CronExit
<1>6. ASSUME NEW d \in 1 .. LongestSleep, CronRound(d)  PROVE ScheduleTypeOK'
  <2>1. tasks' \in Seq(Task)
    <3>1. [group : Groups, level : Due(d)] \in SUBSET Task
      BY DEF Task, Due
    <3> QED  BY <1>6, <3>1, PushesTyped DEF CronRound
  <2>2. idle' \in [Levels -> Nat]
    BY <1>6, ScheduleAssumption DEF CronRound, Older
  <2> QED  BY <1>6, <2>1, <2>2 DEF CronRound
<1>7. CASE Stop \/ StopNotifies
  BY <1>7 DEF Stop, StopNotifies
<1>8. CASE Joined \/ Start
  <2>1. CASE Joined
    <3>1. tasks' \in Seq(Task)
      BY <2>1, EmptySeq DEF Joined
    <3> QED  BY <2>1, <3>1 DEF Joined
  <2>2. CASE Start
    BY <2>2 DEF Start
  <2> QED  BY <1>8, <2>1, <2>2
<1>9. CASE UNCHANGED vars
  BY <1>9 DEF vars
<1> QED
  BY <1>1, <1>2, <1>3, <1>4, <1>5, <1>6, <1>7, <1>8, <1>9 DEF Next, WorkerStep, CronStep

(* The queue holds tasks whatever the unlocked pushes of the cron lose, and *)
(* both threads run whenever the summarizer does, also when it is started   *)
(* again: neither leaves its loop before stop() has cleared running_.       *)
THEOREM ScheduleTypesKept == Spec => []ScheduleTypeOK
BY TypesInit, TypesStep, PTL DEF Spec

-----------------------------------------------------------------------------
(* The cron never finds anything due. *)

(* Every round sets the three times to now.                                 *)
JustSet == \A l \in Levels : last[l] = 0

LEMMA JustSetStep ==
  ASSUME JustSet, [Next]_vars
  PROVE  JustSet'
<1>1. last' = last \/ last' = [l \in Levels |-> 0]
  BY DEF Next, vars, SummarizeNow, Tell, WorkerStep, WorkerTake, WorkerFindsNothing, WorkerSleeps,
         WorkerDone, WorkerExit, SpuriousWakeup, CronStep, CronNotify, CronExit, CronRound, Stop,
         StopNotifies, Joined, Start
<1> QED  BY <1>1 DEF JustSet

(* The rounds of cron_loop.                                                 *)
Round == cron = "sleep" /\ cron' = "notify"

(* cron_loop forgets in every round when a level was last queued: as long   *)
(* as every round is shorter than every interval, no summary is ever queued *)
(* by the cron, whatever the intervals are.                                 *)
THEOREM ShortRoundsQueueNothing ==
  ASSUME \A l \in Levels : LongestSleep < Interval[l]
  PROVE  Spec => [][Round => tasks' = tasks]_vars
<1> DEFINE Quiet == Round => tasks' = tasks
<1>1. Init => JustSet
  BY DEF Init, JustSet
<1>2. ASSUME ScheduleTypeOK, JustSet, [Next]_vars  PROVE [Quiet]_vars
  <2>1. SUFFICES ASSUME Next, Round  PROVE tasks' = tasks
    BY <1>2
  <2>2. PICK d \in 1 .. LongestSleep : CronRound(d)
    BY <2>1 DEF Round, Next, SummarizeNow, Tell, WorkerStep, WorkerTake, WorkerFindsNothing,
                WorkerSleeps, WorkerDone, WorkerExit, SpuriousWakeup, CronStep, CronNotify,
                CronExit, Stop, StopNotifies, Joined, Start
  <2>3. Due(d) = {}
    BY <1>2, ScheduleAssumption DEF Due, JustSet
  <2>4. [group : Groups, level : Due(d)] = {}
    BY <2>3
  <2> QED  BY <1>2, <2>2, <2>4, PushesTyped DEF CronRound, ScheduleTypeOK
<1>3. JustSet /\ [Next]_vars => JustSet'
  BY JustSetStep
<1> QED  BY <1>1, <1>2, <1>3, ScheduleTypesKept, PTL DEF Spec
=============================================================================
