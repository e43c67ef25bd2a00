--------------------------- MODULE MCSummarySchedule ---------------------------
(* Intervals, in rounds of the cron, for the runs of SummarySchedule.       *)
EXTENDS SummarySchedule

MCInterval == [l \in Levels |-> IF l = "3h" THEN 2 ELSE 3]
=============================================================================
