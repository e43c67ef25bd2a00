----------------------------- MODULE MCChatDatabase -----------------------------
(* Instances of ChatDatabase for TLC: one name to watch is part of the      *)
(* other, as "node" is of "nodejs"; one process is found under both, the    *)
(* other under one, and has the second name in an argument only.            *)
EXTENDS ChatDatabase

CONSTANTS p1, p2, n1, n2

List == <<n1, n2>>
LongAndShort == [p \in Pids |-> IF p = p1 THEN <<{n1}, {n2}>> ELSE <<{n1, n2}>>]
=============================================================================
