------------------------------ MODULE MessageStore ------------------------------
(***************************************************************************)
(* What chatdb's message path promises the clients that hand it messages,  *)
(* without queues, threads, transactions or Redis: a message is pending    *)
(* until it is stored, discarded in favour of a message of the same group  *)
(* and content, or lost to a failure.                                      *)
(***************************************************************************)
CONSTANTS Msgs, Key, Hash

VARIABLES
  pending,   \* accepted and not decided
  stored,    \* in the table
  failed     \* lost to a failure or removed by a cleanup

storeVars == <<pending, stored, failed>>

StoreInit == pending = {} /\ stored = {} /\ failed = {}

Accept(m) ==
  /\ m \notin pending \cup stored
  /\ pending' = pending \cup {m}
  /\ UNCHANGED <<stored, failed>>

(* One transaction: its messages differ in hash, from each other and from   *)
(* every stored message.                                                    *)
Store(S) ==
  /\ S # {}
  /\ \A m \in S, n \in S \cup stored : Hash[m] = Hash[n] => m = n
  /\ stored' = stored \cup S
  /\ pending' = pending \ S
  /\ UNCHANGED failed

(* Only in favour of a message that is stored, will be decided later, or    *)
(* was itself lost.                                                         *)
Discard(m) ==
  /\ \E n \in (pending \ {m}) \cup stored \cup failed : Key[n] = Key[m]
  /\ pending' = pending \ {m}
  /\ UNCHANGED <<stored, failed>>

Fail(S) ==
  /\ pending' = pending \ S
  /\ failed' = failed \cup S
  /\ UNCHANGED stored

(* Stored messages are removed on demand when they are old.                 *)
Forget(S) ==
  /\ stored' = stored \ S
  /\ failed' = failed \cup S
  /\ UNCHANGED pending

StoreNext ==
  \/ \E m \in Msgs : Accept(m)
  \/ \E m \in pending : Discard(m)
  \/ \E S \in SUBSET pending : Store(S) \/ Fail(S)
  \/ \E S \in SUBSET stored : Forget(S)

StoreSpec == StoreInit /\ [][StoreNext]_storeVars
=============================================================================
