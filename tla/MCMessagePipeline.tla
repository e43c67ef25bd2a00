--------------------------- MODULE MCMessagePipeline ---------------------------
(* Instances of MessagePipeline for TLC.  In the text of a message "a1a",   *)
(* the letter is the sender, the digit the (group, content) key and the     *)
(* last letter tells copies apart: copies have the same msg_hash.           *)
EXTENDS MessagePipeline, TLC

CONSTANTS w1, w2, k1, k2, g1, g2, h1, h2, h3, a1a, a1b, b1a, a2a

MCWorkers == {w1, w2}
MCKeys    == {k1, k2}
MCGroups  == {g1, g2}
MCHashes  == {h1, h2, h3}
MCGroupOf == k1 :> g1 @@ k2 :> g2

(* a1a and a1b are copies; b1a is the same words from another sender.       *)
MCKey  == [m \in Msgs |-> IF m = a2a THEN k2 ELSE k1]
MCHash == [m \in Msgs |-> CASE m \in {a1a, a1b} -> h1 [] m = b1a -> h2 [] m = a2a -> h3]

Copies   == {a1a, a1b}
ThreeMsgs == {a1a, a1b, a2a}
Senders  == {a1a, b1a}

NoMsgs == {}
First  == {a1a}

(* The id of the first memory; nothing was inserted elsewhere.              *)
MemoryIds == {1}
NoIds     == {}

(* The two copies differ in nothing the model looks at: they may be swapped *)
(* wherever both of them are messages and no cleanup tells them apart.      *)
Symmetric     == Permutations(MCWorkers)
SameOrSwapped == Symmetric \cup Permutations(Copies)
=============================================================================
