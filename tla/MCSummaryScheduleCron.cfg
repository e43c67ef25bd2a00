\* Rounds of a minute, as sleep_for(1 min) makes them: shorter than any interval.
CONSTANTS
  Callers = {c1}
  Groups = {g1}
  Levels = {"3h", "12h"}
  LongestSleep = 1
  MaxTasks = 3
  Interval <- MCInterval
SPECIFICATION FairSpec
INVARIANT OnTime
