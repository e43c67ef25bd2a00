\* One caller and the cron queue tasks of two levels; a round may last as long
\* as the longer interval, so that the cron does queue.
CONSTANTS
  Callers = {c1}
  Groups = {g1}
  Levels = {"3h", "12h"}
  LongestSleep = 3
  MaxTasks = 3
  Interval <- MCInterval
SPECIFICATION FairSpec
INVARIANT ScheduleTypeOK
PROPERTY QueuedTaskServed
