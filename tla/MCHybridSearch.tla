----------------------------- MODULE MCHybridSearch -----------------------------
(* Instances of HybridSearch for TLC.  m1 is the oldest message; m1 and m3  *)
(* are equally similar to the query; m2 is in another group.                *)
EXTENDS HybridSearch

CONSTANTS m1, m2, m3, g1, g2, ollama, openai

Three == {m1, m2, m3}
Two   == {g1, g2}

MCTime == [m \in Msgs |-> CASE m = m1 -> 0 [] m = m2 -> 1 [] m = m3 -> 2]
MCSim  == [m \in Msgs |-> CASE m = m1 -> 90 [] m = m2 -> 60 [] m = m3 -> 90]
MCMatching == {m1, m2}
MCGroupOf == [m \in Msgs |-> IF m = m2 THEN g2 ELSE g1]
=============================================================================
