------------------------- MODULE MessagePipelineProofs -------------------------
(***************************************************************************)
(* Proofs about MessagePipeline for every set of messages, workers and     *)
(* keys and every batch size.                                              *)
(***************************************************************************)
EXTENDS MessagePipeline, TLAPS

-----------------------------------------------------------------------------
(* Facts about the sequences the queues are made of.                        *)

(* The elements of a sequence over S are in S.                              *)
LEMMA RangeInside ==
  ASSUME NEW S, NEW s \in Seq(S)
  PROVE  Range(s) \subseteq S
  BY DEF Range

(* Appending adds exactly the appended element to the range.                *)
LEMMA RangeAppend ==
  ASSUME NEW S, NEW s \in Seq(S), NEW x \in S
  PROVE  /\ Append(s, x) \in Seq(S)
         /\ Range(Append(s, x)) = Range(s) \cup {x}
<1>1. Append(s, x) \in Seq(S) /\ Len(Append(s, x)) = Len(s) + 1
  OBVIOUS
<1>2. \A i \in 1 .. Len(s) : Append(s, x)[i] = s[i]
  OBVIOUS
<1>3. Append(s, x)[Len(s) + 1] = x
  OBVIOUS
<1>4. DOMAIN s = 1 .. Len(s) /\ DOMAIN Append(s, x) = 1 .. (Len(s) + 1) /\ Len(s) \in Nat
  BY <1>1
<1>5. QED
  BY <1>1, <1>2, <1>3, <1>4 DEF Range

(* A non-empty queue holds its head and what remains after a pop.           *)
LEMMA RangeTail ==
  ASSUME NEW S, NEW s \in Seq(S), s # <<>>
  PROVE  /\ Head(s) \in S
         /\ Tail(s) \in Seq(S)
         /\ Range(s) = {Head(s)} \cup Range(Tail(s))
<1>1. Len(s) \in Nat \ {0} /\ DOMAIN s = 1 .. Len(s)
  OBVIOUS
<1>2. Head(s) = s[1] /\ Head(s) \in S
  BY <1>1
<1>3. Tail(s) \in Seq(S) /\ Len(Tail(s)) = Len(s) - 1 /\ DOMAIN Tail(s) = 1 .. (Len(s) - 1)
  BY <1>1
<1>4. \A i \in 1 .. (Len(s) - 1) : Tail(s)[i] = s[i + 1]
  BY <1>1
<1>5. ASSUME NEW x \in Range(s)
      PROVE  x \in {Head(s)} \cup Range(Tail(s))
  <2>1. PICK i \in 1 .. Len(s) : x = s[i]
    BY <1>1 DEF Range
  <2>2. CASE i = 1
    BY <2>1, <2>2, <1>2
  <2>3. CASE i # 1
    <3>1. i - 1 \in 1 .. (Len(s) - 1) /\ Tail(s)[i - 1] = s[i]
      BY <2>3, <1>1, <1>4
    <3>2. QED
      BY <3>1, <2>1, <1>3 DEF Range
  <2>4. QED
    BY <2>2, <2>3
<1>6. ASSUME NEW x \in Range(Tail(s))
      PROVE  x \in Range(s)
  <2>1. PICK i \in 1 .. (Len(s) - 1) : x = Tail(s)[i]
    BY <1>3 DEF Range
  <2>2. x = s[i + 1] /\ i + 1 \in 1 .. Len(s)
    BY <2>1, <1>4, <1>1
  <2>3. QED
    BY <2>2, <1>1 DEF Range
<1>7. Head(s) \in Range(s)
  BY <1>1, <1>2 DEF Range
<1>8. QED
  BY <1>2, <1>3, <1>5, <1>6, <1>7

(* Cutting a queue in two loses and adds nothing.                           *)
LEMMA RangeCut ==
  ASSUME NEW S, NEW s \in Seq(S), NEW n \in 0 .. Len(s)
  PROVE  /\ SubSeq(s, 1, n) \in Seq(S)
         /\ SubSeq(s, n + 1, Len(s)) \in Seq(S)
         /\ Range(s) = Range(SubSeq(s, 1, n)) \cup Range(SubSeq(s, n + 1, Len(s)))
<1> DEFINE f == SubSeq(s, 1, n)
           b == SubSeq(s, n + 1, Len(s))
<1>1. Len(s) \in Nat /\ DOMAIN s = 1 .. Len(s)
  OBVIOUS
<1>2. f \in Seq(S) /\ DOMAIN f = 1 .. n /\ \A i \in 1 .. n : f[i] = s[i]
  BY <1>1
<1>3. b \in Seq(S) /\ DOMAIN b = 1 .. (Len(s) - n) /\ \A i \in 1 .. (Len(s) - n) : b[i] = s[i + n]
  BY <1>1
<1>4. ASSUME NEW i \in 1 .. Len(s)
      PROVE  s[i] \in Range(f) \cup Range(b)
  <2>1. CASE i <= n
    BY <2>1, <1>2 DEF Range
  <2>2. CASE i > n
    <3>1. i - n \in 1 .. (Len(s) - n) /\ b[i - n] = s[i]
      BY <2>2, <1>1, <1>3
    <3>2. QED
      BY <3>1, <1>3 DEF Range
  <2>3. QED
    BY <2>1, <2>2, <1>1
<1>5. Range(f) \subseteq Range(s)
  BY <1>1, <1>2 DEF Range
<1>6. Range(b) \subseteq Range(s)
  <2>1. \A i \in 1 .. (Len(s) - n) : i + n \in 1 .. Len(s)
    BY <1>1
  <2>2. QED
    BY <2>1, <1>1, <1>3 DEF Range
<1>7. Range(s) \subseteq Range(f) \cup Range(b)
  BY <1>1, <1>4 DEF Range
<1> HIDE DEF f, b
<1>8. f \in Seq(S) /\ b \in Seq(S) /\ Range(s) = Range(f) \cup Range(b)
  BY <1>2, <1>3, <1>5, <1>6, <1>7
<1>9. QED
  BY <1>8 DEF f, b

-----------------------------------------------------------------------------
(* Types *)

LEMMA InitType == Init => TypeOK
<1> SUFFICES ASSUME Init PROVE TypeOK
  OBVIOUS
<1>1. <<>> \in Seq(Msgs) /\ 0 \in Nat
  OBVIOUS
<1>2. QED
  BY <1>1 DEF Init, TypeOK, WorkerPC

(* Every worker step respects the types.                                    *)
LEMMA WorkerType ==
  ASSUME TypeOK, NEW w \in Workers, WorkerStep(w)
  PROVE  TypeOK'
<1> USE PipelineAssumption DEF TypeOK, WorkerPC, Goto, Finish, storageVars, redisVars, history
<1>1. CASE Take(w)
  BY <1>1, RangeTail DEF Take
<1>2. CASE WorkerExit(w)
  BY <1>2 DEF WorkerExit
<1>3. ASSUME pc[w] = "dedupe", DropDuplicate(w) \/ Pass(w),
             lost' \in {lost, lost \cup {cur[w]}}, torn' \in BOOLEAN
      PROVE  TypeOK'
  <2>1. cur[w] \in Msgs
    BY <1>3
  <2>2. lost' \in SUBSET Msgs
    BY <1>3, <2>1
  <2>3. CASE DropDuplicate(w)
    BY <1>3, <2>2, <2>3 DEF DropDuplicate
  <2>4. CASE Pass(w)
    BY <1>3, <2>2, <2>4 DEF Pass
  <2>5. QED
    BY <1>3, <2>3, <2>4
<1>4. CASE pc[w] = "dedupe" /\ DedupeRedis(w)
  BY <1>3, <1>4 DEF DedupeRedis, RedisCall, Pass
<1>5. CASE pc[w] = "dedupe" /\ DedupeSQLite(w)
  BY <1>3, <1>5 DEF DedupeSQLite, Pass
<1>6. CASE Enqueue(w)
  <2>1. cur[w] \in Msgs
    BY <1>6 DEF Enqueue
  <2>2. queue' \in Seq(Msgs)
    BY <1>6, <2>1 DEF Enqueue
  <2>3. QED
    BY <1>6, <2>2 DEF Enqueue
<1>7. CASE ReadRowid(w)
  <2>1. /\ pc[w] = "rowid"
        /\ \/ /\ pc' = [pc EXCEPT ![w] = "embed"]
              /\ rid' = [rid EXCEPT ![w] = lastRowid]
              /\ cur' = cur
           \/ /\ pc' = [pc EXCEPT ![w] = "wait"]
              /\ rid' = [rid EXCEPT ![w] = 0]
              /\ cur' = [cur EXCEPT ![w] = NoMsg]
    BY <1>7, Zenon DEF ReadRowid
  <2>2. UNCHANGED <<phase, input, storageVars, redisVars, history>>
    BY <1>7, Zenon DEF ReadRowid
  <2>3. /\ pc' \in [Workers -> WorkerPC]
        /\ cur' \in [Workers -> Msgs \cup {NoMsg}]
        /\ rid' \in [Workers -> Nat]
    <3>1. pc' \in [Workers -> WorkerPC]
      BY <2>1
    <3>2. cur' \in [Workers -> Msgs \cup {NoMsg}]
      BY <2>1
    <3>3. [rid EXCEPT ![w] = lastRowid] \in [Workers -> Nat]
      OBVIOUS
    <3>4. [rid EXCEPT ![w] = 0] \in [Workers -> Nat]
      OBVIOUS
    <3> HIDE DEF TypeOK
    <3>5. rid' \in [Workers -> Nat]
      BY <2>1, <3>3, <3>4, Zenon
    <3>6. QED
      BY <3>1, <3>2, <3>5
  <2>4. \A v \in Workers : pc'[v] \notin {"wait", "exited"} => cur'[v] \in Msgs
    BY <2>1
  <2>5. QED
    BY <2>2, <2>3, <2>4
<1>8. CASE EmbedOk(w)
  BY <1>8 DEF EmbedOk
<1>9. CASE EmbedFail(w)
  BY <1>9 DEF EmbedFail
<1>10. CASE AddVector(w)
  <2>1. torn' \in BOOLEAN
    BY <1>10 DEF AddVector, RedisCall
  <2>2. cur[w] \in Msgs /\ rid[w] \in Nat
    BY <1>10 DEF AddVector
  <2>3. [id |-> rid[w], msg |-> cur[w]] \in Row
    BY <2>2 DEF Row
  <2>4. vecs' \in SUBSET Row
    BY <1>10, <2>3 DEF AddVector
  <2>5. QED
    BY <1>10, <2>1, <2>4 DEF AddVector
<1>11. CASE MarkDuplicate(w)
  <2>1. torn' \in BOOLEAN
    BY <1>11 DEF MarkDuplicate, RedisCall
  <2>2. Key[cur[w]] \in Keys
    BY <1>11 DEF MarkDuplicate
  <2>3. dup' \in SUBSET Keys
    BY <1>11, <2>2 DEF MarkDuplicate
  <2>4. QED
    BY <1>11, <2>1, <2>3 DEF MarkDuplicate
<1>12. QED
  BY <1>1, <1>2, <1>4, <1>5, <1>6, <1>7, <1>8, <1>9, <1>10, <1>11 DEF WorkerStep

(* Every step of a flush respects the types.                                *)
LEMMA StorageType ==
  ASSUME TypeOK, StorageStep
  PROVE  TypeOK'
<1> USE PipelineAssumption DEF TypeOK, AfterFlush, workerVars, redisVars, history
<1>1. CASE FlushTake
  <2> DEFINE n == IF Len(queue) < BatchSize THEN Len(queue) ELSE BatchSize
  <2>1. n \in 0 .. Len(queue)
    OBVIOUS
  <2>2. batch' = SubSeq(queue, 1, n) /\ queue' = SubSeq(queue, n + 1, Len(queue))
    BY <1>1 DEF FlushTake
  <2>3. batch' \in Seq(Msgs) /\ queue' \in Seq(Msgs)
    BY <2>1, <2>2, RangeCut
  <2>4. QED
    BY <1>1, <2>3 DEF FlushTake
<1>2. CASE LoopExit
  BY <1>2 DEF LoopExit
<1>3. CASE FlushNothing
  BY <1>3 DEF FlushNothing
<1>4. CASE InsertRow
  <2>1. Head(batch) \in Msgs /\ Tail(batch) \in Seq(Msgs)
    BY <1>4, RangeTail DEF InsertRow
  <2>2. batch' \in Seq(Msgs) /\ txn' \in Seq(Msgs) /\ lastRowid' \in Nat
    BY <1>4, <2>1 DEF InsertRow
  <2>3. QED
    BY <1>4, <2>2 DEF InsertRow
<1>5. CASE RejectRow
  BY <1>5, RangeTail DEF RejectRow
<1>6. CASE InsertFails
  BY <1>6, RangeTail DEF InsertFails
<1>7. CASE Commit
  <2>1. \A i \in DOMAIN txn : [id |-> lastId + i, msg |-> txn[i]] \in Row
    BY DEF Row
  <2>2. rows' \in SUBSET Row /\ lastId' \in Nat /\ txn' \in Seq(Msgs)
    BY <1>7, <2>1 DEF Commit
  <2>3. flushing' = FALSE /\ stage' \in {"serve", "exit", "final", "closed"}
    BY <1>7 DEF Commit
  <2>4. QED
    BY <1>7, <2>2, <2>3 DEF Commit
<1>8. CASE RollBack
  <2>1. Range(txn) \subseteq Msgs
    BY RangeInside
  <2>2. txn' \in Seq(Msgs) /\ lost' \in SUBSET Msgs
    BY <1>8, <2>1 DEF RollBack
  <2>3. QED
    BY <1>8, <2>2 DEF RollBack
<1>9. QED
  BY <1>1, <1>2, <1>3, <1>4, <1>5, <1>6, <1>7, <1>8 DEF StorageStep

(* Clients, expiry, shutdown, crash and restart respect the types.          *)
LEMMA OtherType ==
  ASSUME TypeOK,
         (\E m \in Msgs : Receive(m)) \/ (\E g \in Groups : DupKeyExpires(g)) \/ MainStep
  PROVE  TypeOK'
<1> USE PipelineAssumption
    DEF TypeOK, WorkerPC, workerVars, storageVars, redisVars, history
<1>1. ASSUME NEW m \in Msgs, Receive(m)
      PROVE  TypeOK'
  BY <1>1, RangeAppend DEF Receive
<1>2. ASSUME NEW g \in Groups, DupKeyExpires(g)
      PROVE  TypeOK'
  BY <1>2 DEF DupKeyExpires
<1>3. CASE StopProcessor \/ StopStorage
  BY <1>3 DEF StopProcessor, StopStorage
<1>4. CASE Exit \/ Crash
  <2>1. ProcessGone
    BY <1>4 DEF Exit, Crash
  <2>2. Volatile \subseteq Msgs
    <3>1. /\ Range(input) \subseteq Msgs /\ Range(queue) \subseteq Msgs
          /\ Range(batch) \subseteq Msgs /\ Range(txn) \subseteq Msgs
      BY RangeInside
    <3>2. {cur[v] : v \in {u \in Workers : pc[u] \in {"dedupe", "enqueue"}}} \subseteq Msgs
      <4>1. \A u \in Workers : pc[u] \in {"dedupe", "enqueue"} => cur[u] \in Msgs
        OBVIOUS
      <4> HIDE PipelineAssumption DEF TypeOK
      <4>2. QED
        BY <4>1, Zenon
    <3>3. QED
      BY <3>1, <3>2, Zenon DEF Volatile, Undecided, Held, Holding, Buffered
  <2>3. lost' \in SUBSET Msgs
    BY <2>1, <2>2 DEF ProcessGone
  <2>4. <<>> \in Seq(Msgs) /\ 0 \in Nat
    OBVIOUS
  <2>5. QED
    BY <2>1, <2>3, <2>4 DEF ProcessGone
<1>5. CASE Restart
  BY <1>5 DEF Restart, FreshProcess
<1>6. CASE OtherInsert
  BY <1>6 DEF OtherInsert
<1>7. CASE Cleanup
  <2>1. rows' \in SUBSET Row /\ vecs' \in SUBSET Row /\ torn' \in BOOLEAN
    BY <1>7 DEF Cleanup
  <2>2. lost' \in SUBSET Msgs
    BY <1>7 DEF Cleanup
  <2>3. QED
    BY <1>7, <2>1, <2>2 DEF Cleanup
<1>8. QED
  BY <1>1, <1>2, <1>3, <1>4, <1>5, <1>6, <1>7 DEF MainStep

(* Every variable keeps to its type, whatever threads, crashes and Redis do. *)
THEOREM TypeCorrect == Spec => []TypeOK
<1>1. TypeOK /\ UNCHANGED vars => TypeOK'
  BY DEF TypeOK, vars, workerVars, storageVars, redisVars, history
<1>2. TypeOK /\ [Next]_vars => TypeOK'
  BY <1>1, WorkerType, StorageType, OtherType DEF Next
<1>3. QED
  BY InitType, <1>2, PTL DEF Spec

-----------------------------------------------------------------------------
(* What a step leaves alone *)

Flight == {"rowid", "embed", "vector", "mark"}

(* A worker step touches the storage side only by appending to its queue,   *)
(* and no other worker.                                                     *)
LEMMA WorkerFrame ==
  ASSUME TypeOK, NEW w \in Workers, WorkerStep(w)
  PROVE  /\ UNCHANGED <<flushing, batch, txn, rows, lastId, accepted>>
         /\ Range(queue) \subseteq Range(queue')
         /\ lost \subseteq lost'
         /\ \A v \in Workers \ {w} : pc'[v] = pc[v] /\ cur'[v] = cur[v]
<1> USE DEF Goto, Finish, storageVars, redisVars, history
<1>1. CASE Take(w)
  BY <1>1 DEF Take, TypeOK
<1>2. CASE WorkerExit(w)
  BY <1>2 DEF WorkerExit, TypeOK
<1>3. CASE pc[w] = "dedupe" /\ DedupeRedis(w)
  BY <1>3 DEF DedupeRedis, DropDuplicate, Pass, TypeOK
<1>4. CASE pc[w] = "dedupe" /\ DedupeSQLite(w)
  BY <1>4 DEF DedupeSQLite, DropDuplicate, Pass, TypeOK
<1>5. CASE Enqueue(w)
  <2>1. queue \in Seq(Msgs) /\ cur[w] \in Msgs
    BY <1>5 DEF Enqueue, TypeOK
  <2>2. Range(queue) \subseteq Range(queue')
    BY <2>1, <1>5, RangeAppend DEF Enqueue
  <2>3. QED
    BY <2>2, <1>5 DEF Enqueue, TypeOK
<1>6. CASE ReadRowid(w)
  <2>1. UNCHANGED <<storageVars, history>>
    BY <1>6, Zenon DEF ReadRowid
  <2>2. \A v \in Workers \ {w} : pc'[v] = pc[v] /\ cur'[v] = cur[v]
    BY <1>6 DEF ReadRowid, TypeOK
  <2>3. QED
    BY <2>1, <2>2
<1>7. CASE EmbedOk(w)
  BY <1>7 DEF EmbedOk, TypeOK
<1>8. CASE EmbedFail(w)
  BY <1>8 DEF EmbedFail, TypeOK
<1>9. CASE AddVector(w)
  BY <1>9 DEF AddVector, TypeOK
<1>10. CASE MarkDuplicate(w)
  BY <1>10 DEF MarkDuplicate, TypeOK
<1>11. QED
  BY <1>1, <1>2, <1>3, <1>4, <1>5, <1>6, <1>7, <1>8, <1>9, <1>10 DEF WorkerStep

(* So do the steps of clients, of expiry and of the orderly shutdown.       *)
LEMMA EnvironmentFrame ==
  ASSUME \/ \E m \in Msgs : Receive(m)
         \/ \E g \in Groups : DupKeyExpires(g)
         \/ OtherInsert \/ StopProcessor \/ StopStorage \/ Restart
  PROVE  UNCHANGED <<flushing, batch, txn, rows, lastId, queue, lost>>
  BY DEF Receive, DupKeyExpires, OtherInsert, StopProcessor, StopStorage, Restart, workerVars,
         storageVars, history

-----------------------------------------------------------------------------
(* A covered key stays covered *)

LEMMA CoveredMeans ==
  ASSUME NEW k
  PROVE  Covered(k) <=> Backed(k) \/ k \in LostKeys
  BY DEF Covered, Backed, LostKeys

(* If no message leaves the storage side but for the history of losses,     *)
(* covered keys stay covered.                                               *)
LEMMA CoveredGrows ==
  ASSUME NEW k, Covered(k),
         Buffered \cup Stored \cup lost \subseteq (Buffered \cup Stored \cup lost)'
  PROVE  Covered(k)'
  BY DEF Covered

(* Through a flush: messages move from queue to batch to transaction to     *)
(* rows, and a rejected one has the key of the row that stands in its way.  *)
LEMMA StorageCovered ==
  ASSUME TypeOK, IdleBuffers, StorageStep, NEW k, Covered(k)
  PROVE  Covered(k)'
<1> USE DEF workerVars, redisVars, history
<1>1. CASE FlushTake
  <2> DEFINE n == IF Len(queue) < BatchSize THEN Len(queue) ELSE BatchSize
  <2>1. queue \in Seq(Msgs) /\ n \in 0 .. Len(queue)
    BY PipelineAssumption DEF TypeOK
  <2>2. batch' = SubSeq(queue, 1, n) /\ queue' = SubSeq(queue, n + 1, Len(queue))
    BY <1>1 DEF FlushTake
  <2>3. Range(queue) = Range(batch') \cup Range(queue')
    BY <2>1, <2>2, RangeCut
  <2>4. Range(batch) = {}
    BY <1>1 DEF FlushTake, MayFlush, IdleBuffers, Range
  <2>5. txn' = txn /\ rows' = rows /\ lost' = lost
    BY <1>1 DEF FlushTake
  <2>6. QED
    BY <2>3, <2>4, <2>5, CoveredGrows DEF Buffered, Stored
<1>2. CASE LoopExit \/ FlushNothing
  BY <1>2, CoveredGrows DEF LoopExit, FlushNothing, Buffered, Stored
<1>3. CASE InsertRow
  <2>1. batch \in Seq(Msgs) /\ txn \in Seq(Msgs) /\ batch # <<>>
    BY <1>3 DEF InsertRow, TypeOK
  <2>2. Head(batch) \in Msgs /\ Range(batch) = {Head(batch)} \cup Range(Tail(batch))
    BY <2>1, RangeTail
  <2>3. Range(Append(txn, Head(batch))) = Range(txn) \cup {Head(batch)}
    BY <2>1, <2>2, RangeAppend
  <2>4. batch' = Tail(batch) /\ txn' = Append(txn, Head(batch))
        /\ UNCHANGED <<queue, rows, lost>>
    BY <1>3 DEF InsertRow
  <2>5. QED
    BY <2>2, <2>3, <2>4, CoveredGrows DEF Buffered, Stored
<1>4. CASE RejectRow
  <2>1. batch \in Seq(Msgs) /\ batch # <<>> /\ Stored \cup Range(txn) \subseteq Msgs
    <3>1. Range(txn) \subseteq Msgs
      BY RangeInside DEF TypeOK
    <3>2. Stored \subseteq Msgs
      BY DEF Stored, TypeOK, Row
    <3>3. QED
      BY <1>4, <3>1, <3>2 DEF RejectRow, TypeOK
  <2>2. Head(batch) \in Msgs /\ Range(batch) = {Head(batch)} \cup Range(Tail(batch))
    BY <2>1, RangeTail
  <2>3. PICK n \in Stored \cup Range(txn) : Hash[n] = Hash[Head(batch)]
    BY <1>4 DEF RejectRow, HashTaken
  <2>4. Key[n] = Key[Head(batch)]
    BY <2>1, <2>2, <2>3, PipelineAssumption
  <2>5. batch' = Tail(batch) /\ UNCHANGED <<queue, txn, rows, lost>>
    BY <1>4 DEF RejectRow
  <2>6. QED
    BY <2>2, <2>3, <2>4, <2>5 DEF Covered, Buffered, Stored
<1>5. CASE InsertFails
  <2>1. batch \in Seq(Msgs) /\ batch # <<>>
    BY <1>5 DEF InsertFails, TypeOK
  <2>2. Range(batch) = {Head(batch)} \cup Range(Tail(batch))
    BY <2>1, RangeTail
  <2>3. batch' = Tail(batch) /\ lost' = lost \cup {Head(batch)} /\ UNCHANGED <<queue, txn, rows>>
    BY <1>5 DEF InsertFails
  <2>4. QED
    BY <2>2, <2>3, CoveredGrows DEF Buffered, Stored
<1>6. CASE Commit
  <2>1. Range(txn) \cup Stored \subseteq Stored'
    <3>1. rows' = rows \cup {[id |-> lastId + i, msg |-> txn[i]] : i \in DOMAIN txn}
      BY <1>6 DEF Commit
    <3>2. ASSUME NEW i \in DOMAIN txn
          PROVE  txn[i] \in Stored'
      <4>1. [id |-> lastId + i, msg |-> txn[i]] \in rows'
        BY <3>1
      <4>2. [id |-> lastId + i, msg |-> txn[i]].msg = txn[i]
        OBVIOUS
      <4>3. QED
        BY <4>1, <4>2, Zenon DEF Stored
    <3>3. QED
      BY <3>1, <3>2 DEF Stored, Range
  <2>2. UNCHANGED <<queue, batch, lost>>
    BY <1>6 DEF Commit
  <2>3. QED
    BY <2>1, <2>2, CoveredGrows DEF Buffered
<1>7. CASE RollBack
  <2>1. lost' = lost \cup Range(txn) /\ UNCHANGED <<queue, batch, rows>>
    BY <1>7 DEF RollBack
  <2>2. QED
    BY <2>1, CoveredGrows DEF Buffered, Stored
<1>8. QED
  BY <1>1, <1>2, <1>3, <1>4, <1>5, <1>6, <1>7 DEF StorageStep

(* Through every step of the system.                                        *)
LEMMA CoveredStep ==
  ASSUME TypeOK, IdleBuffers, Next, NEW k, Covered(k)
  PROVE  Covered(k)'
<1>1. ASSUME NEW w \in Workers, WorkerStep(w)
      PROVE  Covered(k)'
  <2>1. /\ batch' = batch /\ txn' = txn /\ rows' = rows
        /\ Range(queue) \subseteq Range(queue') /\ lost \subseteq lost'
    BY <1>1, WorkerFrame
  <2>2. QED
    BY <2>1, CoveredGrows DEF Buffered, Stored
<1>2. CASE \/ \E m \in Msgs : Receive(m)
           \/ \E g \in Groups : DupKeyExpires(g)
           \/ OtherInsert \/ StopProcessor \/ StopStorage \/ Restart
  BY <1>2, EnvironmentFrame, CoveredGrows DEF Buffered, Stored
<1>3. CASE Exit \/ Crash
  <2>1. lost' = lost \cup Volatile /\ rows' = rows
    BY <1>3 DEF Exit, Crash, ProcessGone
  <2>2. QED
    BY <2>1, CoveredGrows DEF Volatile, Stored
<1>4. CASE Cleanup
  <2>1. UNCHANGED <<queue, batch, txn>> /\ lost' = lost \cup (Stored \cap Aged)
    BY <1>4 DEF Cleanup
  <2>2. ASSUME NEW m \in Stored, m \notin Aged
        PROVE  m \in Stored'
    <3>1. PICK r \in rows : r.msg = m
      BY DEF Stored
    <3>2. r \in rows'
      BY <1>4, <2>2, <3>1 DEF Cleanup
    <3>3. QED
      BY <3>1, <3>2, Zenon DEF Stored
  <2>3. Stored \cup lost \subseteq (Stored \cup lost)'
    BY <2>1, <2>2
  <2>4. QED
    BY <2>1, <2>3, CoveredGrows DEF Buffered
<1>5. QED
  BY <1>1, <1>2, <1>3, <1>4, StorageCovered DEF Next, MainStep

-----------------------------------------------------------------------------
(* The table *)

TableInv == IdleBuffers /\ UniqueHash /\ IdsAssigned

LEMMA TableStutter ==
  ASSUME TableInv, UNCHANGED <<flushing, batch, txn, rows, lastId>>
  PROVE  TableInv'
  BY DEF TableInv, IdleBuffers, UniqueHash, IdsAssigned

(* A flush keeps hashes and ids unique: a row enters the transaction only   *)
(* if its hash is free, and ids are handed out above the counter.           *)
LEMMA StorageTable ==
  ASSUME TypeOK, TableInv, StorageStep
  PROVE  TableInv'
<1> USE DEF TableInv
<1>1. CASE FlushTake
  BY <1>1 DEF FlushTake, MayFlush, IdleBuffers, UniqueHash, IdsAssigned
<1>2. CASE LoopExit \/ FlushNothing
  BY <1>2, TableStutter DEF LoopExit, FlushNothing
<1>3. CASE InsertRow
  <2> DEFINE m == Head(batch)
  <2>1. batch \in Seq(Msgs) /\ batch # <<>> /\ txn \in Seq(Msgs) /\ flushing
    BY <1>3 DEF InsertRow, TypeOK
  <2>2. m \in Msgs
    BY <2>1, RangeTail
  <2>3. UNCHANGED <<flushing, rows, lastId>> /\ txn' = Append(txn, m)
    BY <1>3 DEF InsertRow
  <2>4. /\ \A r \in rows : Hash[r.msg] # Hash[m]
        /\ \A i \in DOMAIN txn : Hash[txn[i]] # Hash[m]
    BY <1>3 DEF InsertRow, HashTaken, Stored, Range
  <2>5. DOMAIN txn = 1 .. Len(txn) /\ DOMAIN txn' = 1 .. (Len(txn) + 1) /\ Len(txn) \in Nat
    BY <2>1, <2>2, <2>3
  <2>6. /\ \A i \in 1 .. Len(txn) : txn'[i] = txn[i]
        /\ txn'[Len(txn) + 1] = m
    BY <2>1, <2>2, <2>3
  <2> HIDE DEF m
  <2>7. \A i, j \in DOMAIN txn' : Hash[txn'[i]] = Hash[txn'[j]] => i = j
    BY <2>4, <2>5, <2>6 DEF UniqueHash
  <2>8. \A r \in rows', i \in DOMAIN txn' : Hash[r.msg] # Hash[txn'[i]]
    BY <2>3, <2>4, <2>5, <2>6 DEF UniqueHash
  <2>9. IdleBuffers' /\ IdsAssigned'
    BY <2>1, <2>3 DEF IdleBuffers, IdsAssigned
  <2>10. QED
    BY <2>3, <2>7, <2>8, <2>9 DEF UniqueHash
<1>4. CASE RejectRow
  BY <1>4 DEF RejectRow, IdleBuffers, UniqueHash, IdsAssigned
<1>5. CASE InsertFails
  BY <1>5 DEF InsertFails, IdleBuffers, UniqueHash, IdsAssigned
<1>6. CASE Commit
  <2> DEFINE new == {[id |-> lastId + i, msg |-> txn[i]] : i \in DOMAIN txn}
  <2>1. rows' = rows \cup new /\ lastId' = lastId + Len(txn) /\ txn' = <<>> /\ batch' = <<>>
    BY <1>6 DEF Commit
  <2>2. DOMAIN txn = 1 .. Len(txn) /\ Len(txn) \in Nat /\ lastId \in Nat
    BY DEF TypeOK
  <2>3. \A r \in new : \E i \in DOMAIN txn : r.id = lastId + i /\ r.msg = txn[i]
                                             /\ r = [id |-> lastId + i, msg |-> txn[i]]
    OBVIOUS
  <2> HIDE DEF new
  <2>4. ASSUME NEW r \in rows'
        PROVE  r.id \in 1 .. lastId'
    <3>1. CASE r \in rows
      BY <3>1, <2>1, <2>2 DEF IdsAssigned
    <3>2. CASE r \in new
      BY <3>2, <2>1, <2>2, <2>3
    <3>3. QED
      BY <3>1, <3>2, <2>1
  <2>5. ASSUME NEW r \in rows', NEW s \in rows', r.id = s.id
        PROVE  r = s
    <3>1. CASE r \in rows /\ s \in rows
      BY <3>1, <2>5 DEF IdsAssigned
    <3>2. CASE r \in rows /\ s \in new
      BY <3>2, <2>5, <2>2, <2>3 DEF IdsAssigned
    <3>3. CASE r \in new /\ s \in rows
      BY <3>3, <2>5, <2>2, <2>3 DEF IdsAssigned
    <3>4. CASE r \in new /\ s \in new
      <4>1. PICK i \in DOMAIN txn : r.id = lastId + i /\ r = [id |-> lastId + i, msg |-> txn[i]]
        BY <3>4, <2>3
      <4>2. PICK j \in DOMAIN txn : s.id = lastId + j /\ s = [id |-> lastId + j, msg |-> txn[j]]
        BY <3>4, <2>3
      <4>3. i = j
        BY <4>1, <4>2, <2>5, <2>2
      <4>4. QED
        BY <4>1, <4>2, <4>3
    <3>5. QED
      BY <3>1, <3>2, <3>3, <3>4, <2>1
  <2>6. ASSUME NEW r \in rows', NEW s \in rows', Hash[r.msg] = Hash[s.msg]
        PROVE  r = s
    <3>1. CASE r \in rows /\ s \in rows
      BY <3>1, <2>6 DEF UniqueHash
    <3>2. CASE r \in rows /\ s \in new
      BY <3>2, <2>6, <2>3 DEF UniqueHash
    <3>3. CASE r \in new /\ s \in rows
      BY <3>3, <2>6, <2>3 DEF UniqueHash
    <3>4. CASE r \in new /\ s \in new
      <4>1. PICK i \in DOMAIN txn : r.msg = txn[i] /\ r = [id |-> lastId + i, msg |-> txn[i]]
        BY <3>4, <2>3
      <4>2. PICK j \in DOMAIN txn : s.msg = txn[j] /\ s = [id |-> lastId + j, msg |-> txn[j]]
        BY <3>4, <2>3
      <4>3. i = j
        BY <4>1, <4>2, <2>6 DEF UniqueHash
      <4>4. QED
        BY <4>1, <4>2, <4>3
    <3>5. QED
      BY <3>1, <3>2, <3>3, <3>4, <2>1
  <2>7. DOMAIN txn' = {}
    BY <2>1
  <2>8. IdleBuffers'
    BY <2>1 DEF IdleBuffers
  <2>9. QED
    BY <2>4, <2>5, <2>6, <2>7, <2>8 DEF UniqueHash, IdsAssigned
<1>7. CASE RollBack
  <2>1. DOMAIN txn' = {} /\ UNCHANGED <<rows, lastId>>
    BY <1>7 DEF RollBack
  <2>2. IdleBuffers'
    BY <1>7 DEF RollBack, IdleBuffers
  <2>3. QED
    BY <2>1, <2>2 DEF UniqueHash, IdsAssigned
<1>8. QED
  BY <1>1, <1>2, <1>3, <1>4, <1>5, <1>6, <1>7 DEF StorageStep

(* Every step keeps the table in order; a crash only empties the buffers.   *)
LEMMA TableStep ==
  ASSUME TypeOK, TableInv, Next
  PROVE  TableInv'
<1>1. ASSUME NEW w \in Workers, WorkerStep(w)
      PROVE  TableInv'
  <2>1. UNCHANGED <<flushing, batch, txn, rows, lastId>>
    BY <1>1, WorkerFrame
  <2>2. QED
    BY <2>1, TableStutter
<1>2. CASE \/ \E m \in Msgs : Receive(m)
           \/ \E g \in Groups : DupKeyExpires(g)
           \/ OtherInsert \/ StopProcessor \/ StopStorage \/ Restart
  BY <1>2, EnvironmentFrame, TableStutter
<1>3. CASE Exit \/ Crash
  <2>1. txn' = <<>> /\ batch' = <<>> /\ UNCHANGED <<rows, lastId>>
    BY <1>3 DEF Exit, Crash, ProcessGone
  <2>2. DOMAIN txn' = {}
    BY <2>1
  <2>3. QED
    BY <2>1, <2>2 DEF TableInv, IdleBuffers, UniqueHash, IdsAssigned
<1>4. CASE Cleanup
  <2>1. rows' \subseteq rows /\ UNCHANGED <<flushing, batch, txn, lastId>>
    BY <1>4 DEF Cleanup
  <2>2. QED
    BY <2>1 DEF TableInv, IdleBuffers, UniqueHash, IdsAssigned
<1>5. QED
  BY <1>1, <1>2, <1>3, <1>4, StorageTable DEF Next, MainStep

-----------------------------------------------------------------------------
(* No content is lost *)

CoverInv == EnqueuedCovered /\ DuplicateKeysBacked /\ NoContentLost

(* A step that changes no worker, no duplicate key and no accepted message  *)
(* leaves only the question whether covered keys stay covered.              *)
LEMMA CoverStutter ==
  ASSUME CoverInv, UNCHANGED <<pc, cur, input, accepted>>, dup' \subseteq dup,
         \A k : Covered(k) => Covered(k)'
  PROVE  CoverInv'
<1>1. EnqueuedCovered'
  BY DEF CoverInv, EnqueuedCovered
<1>2. DuplicateKeysBacked'
  BY CoveredMeans DEF CoverInv, DuplicateKeysBacked, Covered, Backed, LostKeys
<1>3. Undecided' = Undecided
  BY DEF Undecided, Held, Holding
<1>4. NoContentLost'
  BY <1>3, CoveredMeans DEF CoverInv, NoContentLost, Covered, Backed, LostKeys
<1>5. QED
  BY <1>1, <1>2, <1>4 DEF CoverInv

(* When the input queue stays, an undecided message other than the one      *)
(* worker w has just decided stays undecided.                               *)
LEMMA UndecidedKept ==
  ASSUME NEW w \in Workers, input' = input,
         \A v \in Workers \ {w} : pc'[v] = pc[v] /\ cur'[v] = cur[v],
         NEW m \in Undecided,
         pc[w] \in {"dedupe", "enqueue"} /\ m = cur[w] =>
           pc'[w] \in {"dedupe", "enqueue"} /\ cur'[w] = cur[w]
  PROVE  m \in Undecided'
<1>1. CASE m \in Range(input)
  BY <1>1 DEF Undecided, Held, Holding
<1>2. CASE m \notin Range(input)
  <2>1. PICK v \in Workers : pc[v] \in {"dedupe", "enqueue"} /\ m = cur[v]
    BY <1>2 DEF Undecided, Held, Holding
  <2>2. pc'[v] \in {"dedupe", "enqueue"} /\ m = cur'[v]
    BY <2>1
  <2>3. QED
    BY <2>2 DEF Undecided, Held, Holding
<1>3. QED
  BY <1>1, <1>2

(* The three ways a worker step could break coverage, action by action:     *)
(* where its message stands, what it marks, what it stops holding.          *)
LEMMA WorkerCovers ==
  ASSUME TypeOK, CoverInv, NEW w \in Workers, WorkerStep(w),
         \A k : Covered(k) => Covered(k)'
  PROVE  /\ \A k : pc'[w] \in Flight /\ k = Key[cur'[w]] => Covered(k)'
         /\ \A k \in dup' : Covered(k)'
         /\ \A m \in Undecided : m \in Undecided' \/ Covered(Key[m])'
<1> USE DEF Goto, Finish, Flight
<1>0. \A v \in Workers \ {w} : pc'[v] = pc[v] /\ cur'[v] = cur[v]
  BY WorkerFrame
<1>a. \A k \in dup : Covered(k)'
  BY CoveredMeans DEF CoverInv, DuplicateKeysBacked
<1>b. \A k : pc[w] \in Flight /\ k = Key[cur[w]] => Covered(k)'
  BY DEF CoverInv, EnqueuedCovered
<1>c. pc \in [Workers -> WorkerPC] /\ cur \in [Workers -> Msgs \cup {NoMsg}]
  BY DEF TypeOK
<1>1. CASE Take(w)
  <2>1. /\ input \in Seq(Msgs) /\ input # <<>> /\ input' = Tail(input)
        /\ pc[w] = "wait" /\ pc'[w] = "dedupe" /\ cur'[w] = Head(input)
        /\ dup' = dup
    BY <1>1, <1>c DEF Take, TypeOK, redisVars
  <2>2. Range(input) = {Head(input)} \cup Range(Tail(input))
    BY <2>1, RangeTail
  <2>3. ASSUME NEW m \in Undecided
        PROVE  m \in Undecided'
    <3>1. CASE m \in Range(input)
      BY <2>1, <2>2, <3>1 DEF Undecided, Held, Holding
    <3>2. CASE m \notin Range(input)
      <4>1. PICK v \in Workers : pc[v] \in {"dedupe", "enqueue"} /\ m = cur[v]
        BY <3>2 DEF Undecided, Held, Holding
      <4>2. v # w /\ pc'[v] \in {"dedupe", "enqueue"} /\ m = cur'[v]
        BY <4>1, <2>1, <1>0
      <4>3. QED
        BY <4>2 DEF Undecided, Held, Holding
    <3>3. QED
      BY <3>1, <3>2
  <2>4. QED
    BY <2>1, <2>3, <1>a
<1>2. CASE WorkerExit(w)
  <2>1. pc[w] = "wait" /\ pc'[w] = "exited" /\ input' = input /\ dup' = dup
    BY <1>2, <1>c DEF WorkerExit, redisVars
  <2>2. QED
    BY <2>1, <1>0, <1>a, UndecidedKept
<1> DEFINE Goal == /\ \A k : pc'[w] \in Flight /\ k = Key[cur'[w]] => Covered(k)'
                   /\ \A k \in dup' : Covered(k)'
                   /\ \A m \in Undecided : m \in Undecided' \/ Covered(Key[m])'
<1>3. ASSUME pc[w] = "dedupe", DropDuplicate(w), \A k : k = Key[cur[w]] => Covered(k)'
      PROVE  Goal
  <2>1. pc'[w] = "wait" /\ input' = input /\ dup' = dup
    BY <1>3, <1>c DEF DropDuplicate
  <2>2. QED
    BY <2>1, <1>0, <1>a, <1>3, UndecidedKept
<1>4. ASSUME pc[w] = "dedupe", Pass(w)
      PROVE  Goal
  <2>1. pc'[w] = "enqueue" /\ cur' = cur /\ input' = input /\ dup' = dup
    BY <1>4, <1>c DEF Pass
  <2>2. QED
    BY <2>1, <1>0, <1>a, UndecidedKept
<1>5. CASE pc[w] = "dedupe" /\ DedupeRedis(w)
  <2>1. CASE Key[cur[w]] \in dup /\ DropDuplicate(w)
    BY <2>1, <1>5, <1>a, <1>3
  <2>2. CASE Pass(w)
    BY <2>2, <1>5, <1>4
  <2>3. CASE DropDuplicate(w) /\ lost' = lost \cup {cur[w]}
    <3>1. \A k : k = Key[cur[w]] => Covered(k)'
      BY <2>3 DEF Covered
    <3>2. QED
      BY <3>1, <2>3, <1>5, <1>3
  <2>4. QED
    BY <1>5, <2>1, <2>2, <2>3 DEF DedupeRedis
<1>6. CASE pc[w] = "dedupe" /\ DedupeSQLite(w)
  <2>1. CASE (\E m \in Stored : Hash[m] = Hash[cur[w]]) /\ DropDuplicate(w)
    <3>1. PICK m \in Stored : Hash[m] = Hash[cur[w]]
      BY <2>1
    <3>2. m \in Msgs /\ cur[w] \in Msgs
      BY <1>6 DEF Stored, TypeOK, Row
    <3>3. Key[m] = Key[cur[w]]
      BY <3>1, <3>2, PipelineAssumption
    <3>4. \A k : k = Key[cur[w]] => Covered(k)
      BY <3>3 DEF Covered
    <3>5. QED
      BY <3>4, <2>1, <1>6, <1>3
  <2>2. CASE Pass(w)
    BY <2>2, <1>6, <1>4
  <2>3. QED
    BY <1>6, <2>1, <2>2 DEF DedupeSQLite
<1>7. CASE Enqueue(w)
  <2>1. pc[w] = "enqueue" /\ pc'[w] = "rowid" /\ cur' = cur /\ input' = input /\ dup' = dup
        /\ queue' = Append(queue, cur[w]) /\ queue \in Seq(Msgs) /\ cur[w] \in Msgs
    BY <1>7 DEF Enqueue, TypeOK, redisVars
  <2>2. cur[w] \in Range(queue')
    BY <2>1, RangeAppend
  <2>3. \A k : k = Key[cur[w]] => Covered(k)'
    BY <2>2, <2>1 DEF Covered, Buffered
  <2>4. QED
    BY <2>1, <2>3, <1>0, <1>a, UndecidedKept
<1>8. CASE ReadRowid(w)
  <2>1. /\ pc[w] = "rowid" /\ input' = input /\ dup' = dup
        /\ \/ pc' = [pc EXCEPT ![w] = "embed"] /\ cur' = cur
           \/ pc' = [pc EXCEPT ![w] = "wait"]
    BY <1>8, Zenon DEF ReadRowid, redisVars
  <2>2. pc'[w] = "wait" \/ (pc'[w] = "embed" /\ cur'[w] = cur[w])
    BY <2>1, <1>c
  <2>3. QED
    BY <2>1, <2>2, <1>0, <1>a, <1>b, UndecidedKept
<1>9. CASE EmbedOk(w)
  <2>1. pc[w] = "embed" /\ pc'[w] = "vector" /\ cur' = cur /\ input' = input /\ dup' = dup
    BY <1>9, <1>c DEF EmbedOk, redisVars
  <2>2. QED
    BY <2>1, <1>0, <1>a, <1>b, UndecidedKept
<1>10. CASE EmbedFail(w)
  <2>1. pc[w] = "embed" /\ pc'[w] = "wait" /\ input' = input /\ dup' = dup
    BY <1>10, <1>c DEF EmbedFail, redisVars
  <2>2. QED
    BY <2>1, <1>0, <1>a, UndecidedKept
<1>11. CASE AddVector(w)
  <2>1. pc[w] = "vector" /\ pc'[w] = "mark" /\ cur' = cur /\ input' = input /\ dup' = dup
    BY <1>11, <1>c DEF AddVector
  <2>2. QED
    BY <2>1, <1>0, <1>a, <1>b, UndecidedKept
<1>12. CASE MarkDuplicate(w)
  <2>1. pc[w] = "mark" /\ pc'[w] = "wait" /\ input' = input /\ dup' \subseteq dup \cup {Key[cur[w]]}
    BY <1>12, <1>c DEF MarkDuplicate
  <2>2. QED
    BY <2>1, <1>0, <1>a, <1>b, UndecidedKept
<1>13. QED
  BY <1>1, <1>2, <1>5, <1>6, <1>7, <1>8, <1>9, <1>10, <1>11, <1>12 DEF WorkerStep

LEMMA WorkerCover ==
  ASSUME TypeOK, CoverInv, NEW w \in Workers, WorkerStep(w),
         \A k : Covered(k) => Covered(k)'
  PROVE  CoverInv'
<1>1. /\ \A k : pc'[w] \in Flight /\ k = Key[cur'[w]] => Covered(k)'
      /\ \A k \in dup' : Covered(k)'
      /\ \A m \in Undecided : m \in Undecided' \/ Covered(Key[m])'
  BY WorkerCovers
<1>2. accepted' = accepted /\ \A v \in Workers \ {w} : pc'[v] = pc[v] /\ cur'[v] = cur[v]
  BY WorkerFrame
<1>3. EnqueuedCovered'
  BY <1>1, <1>2 DEF CoverInv, EnqueuedCovered, Flight
<1>4. DuplicateKeysBacked'
  BY <1>1, CoveredMeans DEF DuplicateKeysBacked, Covered, Backed, LostKeys
<1>5. ASSUME NEW m \in accepted
      PROVE  m \in Undecided' \/ Covered(Key[m])'
  BY <1>1, CoveredMeans DEF CoverInv, NoContentLost
<1>6. NoContentLost'
  BY <1>2, <1>5, CoveredMeans DEF NoContentLost, Covered, Backed, LostKeys
<1>7. QED
  BY <1>3, <1>4, <1>6 DEF CoverInv

(* Coverage through every step of the system.                               *)
LEMMA CoverStep ==
  ASSUME TypeOK, IdleBuffers, DownIdle, CoverInv, Next
  PROVE  CoverInv'
<1>0. \A k : Covered(k) => Covered(k)'
  BY CoveredStep
<1>1. ASSUME NEW w \in Workers, WorkerStep(w)
      PROVE  CoverInv'
  BY <1>0, <1>1, WorkerCover
<1>2. CASE StorageStep
  <2>1. UNCHANGED <<pc, cur, input, accepted, dup>>
    BY <1>2 DEF StorageStep, FlushTake, LoopExit, FlushNothing, InsertRow, RejectRow,
                InsertFails, RollBack, Commit, workerVars, redisVars, history
  <2>2. QED
    BY <2>1, <1>0, CoverStutter
<1>3. ASSUME NEW m \in Msgs, Receive(m)
      PROVE  CoverInv'
  <2>1. UNCHANGED <<pc, cur, dup>> /\ accepted' = accepted \cup {m}
    BY <1>3 DEF Receive, redisVars
  <2>2. Range(input') = Range(input) \cup {m}
    BY <1>3, RangeAppend DEF Receive, TypeOK
  <2>3. Undecided' = Undecided \cup {m}
    BY <2>1, <2>2 DEF Undecided, Held, Holding
  <2>4. EnqueuedCovered'
    BY <2>1, <1>0 DEF CoverInv, EnqueuedCovered
  <2>5. DuplicateKeysBacked'
    BY <2>1, <1>0, CoveredMeans DEF CoverInv, DuplicateKeysBacked, Covered, Backed, LostKeys
  <2>6. NoContentLost'
    BY <2>1, <2>3, <1>0, CoveredMeans DEF CoverInv, NoContentLost, Covered, Backed, LostKeys
  <2>7. QED
    BY <2>4, <2>5, <2>6 DEF CoverInv
<1>4. CASE \/ \E g \in Groups : DupKeyExpires(g)
           \/ OtherInsert \/ Cleanup \/ StopProcessor \/ StopStorage
  <2>1. UNCHANGED <<pc, cur, input, accepted>> /\ dup' \subseteq dup
    BY <1>4 DEF DupKeyExpires, OtherInsert, Cleanup, StopProcessor, StopStorage, workerVars,
                redisVars, history
  <2>2. QED
    BY <2>1, <1>0, CoverStutter
<1>5. CASE Exit \/ Crash
  <2>1. /\ lost' = lost \cup Volatile /\ UNCHANGED <<dup, accepted>>
        /\ pc' = [v \in Workers |-> "exited"]
    BY <1>5 DEF Exit, Crash, ProcessGone
  <2>2. EnqueuedCovered'
    BY <2>1 DEF EnqueuedCovered
  <2>3. DuplicateKeysBacked'
    BY <2>1, <1>0, CoveredMeans DEF CoverInv, DuplicateKeysBacked, Covered, Backed, LostKeys
  <2>4. \A m \in Undecided : Covered(Key[m])'
    BY <2>1 DEF Covered, Volatile
  <2>5. NoContentLost'
    BY <2>1, <2>4, <1>0, CoveredMeans DEF CoverInv, NoContentLost, Covered, Backed, LostKeys
  <2>6. QED
    BY <2>2, <2>3, <2>5 DEF CoverInv
<1>6. CASE Restart
  <2>1. /\ UNCHANGED <<input, dup, accepted>>
        /\ pc' = [v \in Workers |-> "wait"]
    BY <1>6 DEF Restart, FreshProcess, history
  <2>2. EnqueuedCovered'
    BY <2>1 DEF EnqueuedCovered
  <2>3. DuplicateKeysBacked'
    BY <2>1, <1>0, CoveredMeans DEF CoverInv, DuplicateKeysBacked, Covered, Backed, LostKeys
  <2>4. Undecided \subseteq Undecided'
    BY <1>6, <2>1 DEF Restart, DownIdle, Undecided, Held, Holding
  <2>5. NoContentLost'
    BY <2>1, <2>4, <1>0, CoveredMeans DEF CoverInv, NoContentLost, Covered, Backed, LostKeys
  <2>6. QED
    BY <2>2, <2>3, <2>5 DEF CoverInv
<1>7. QED
  BY <1>1, <1>2, <1>3, <1>4, <1>5, <1>6 DEF Next, MainStep

(* After the process is gone no worker runs until the next one starts.      *)
LEMMA DownStep ==
  ASSUME TypeOK, DownIdle, Next
  PROVE  DownIdle'
<1>1. ASSUME NEW w \in Workers, WorkerStep(w)
      PROVE  pc[w] # "exited" /\ phase' = phase
  BY <1>1 DEF WorkerStep, Take, WorkerExit, DedupeRedis, DedupeSQLite, DropDuplicate, Pass,
              Enqueue, ReadRowid, EmbedOk, EmbedFail, AddVector, MarkDuplicate, Goto, Finish
<1>2. ASSUME NEW w \in Workers, WorkerStep(w)
      PROVE  DownIdle'
  BY <1>1, <1>2 DEF DownIdle
<1>3. CASE StorageStep
  BY <1>3 DEF StorageStep, FlushTake, LoopExit, FlushNothing, InsertRow, RejectRow,
              InsertFails, RollBack, Commit, workerVars, DownIdle
<1>4. CASE (\E m \in Msgs : Receive(m)) \/ (\E g \in Groups : DupKeyExpires(g))
  BY <1>4 DEF Receive, DupKeyExpires, workerVars, DownIdle
<1>5. CASE MainStep
  BY <1>5 DEF MainStep, OtherInsert, Cleanup, StopProcessor, StopStorage, Exit, Crash, ProcessGone, Restart,
              FreshProcess, DownIdle
<1>6. QED
  BY <1>2, <1>3, <1>4, <1>5 DEF Next

-----------------------------------------------------------------------------
(* The invariant *)

LEMMA InitInv == Init => IInv
<1> SUFFICES ASSUME Init PROVE IInv
  OBVIOUS
<1>1. TypeOK
  BY InitType
<1>2. DOMAIN txn = {} /\ IdleBuffers /\ DownIdle
  BY DEF Init, IdleBuffers, DownIdle
<1>3. UniqueHash /\ IdsAssigned
  BY <1>2 DEF Init, UniqueHash, IdsAssigned
<1>4. EnqueuedCovered /\ DuplicateKeysBacked /\ NoContentLost
  BY DEF Init, EnqueuedCovered, DuplicateKeysBacked, NoContentLost
<1>5. QED
  BY <1>1, <1>2, <1>3, <1>4 DEF IInv

(* IInv is inductive.                                                       *)
LEMMA NextInv == IInv /\ [Next]_vars => IInv'
<1> SUFFICES ASSUME IInv, [Next]_vars PROVE IInv'
  OBVIOUS
<1>1. CASE Next
  <2>1. TypeOK'
    BY <1>1, WorkerType, StorageType, OtherType DEF Next, IInv
  <2>2. IdleBuffers' /\ UniqueHash' /\ IdsAssigned'
    BY <1>1, TableStep DEF TableInv, IInv
  <2>3. DownIdle'
    BY <1>1, DownStep DEF IInv
  <2>4. EnqueuedCovered' /\ DuplicateKeysBacked' /\ NoContentLost'
    BY <1>1, CoverStep DEF CoverInv, IInv
  <2>5. QED
    BY <2>1, <2>2, <2>3, <2>4 DEF IInv
<1>2. CASE UNCHANGED vars
  BY <1>2 DEF vars, workerVars, storageVars, redisVars, history, IInv, TypeOK, IdleBuffers,
              DownIdle, UniqueHash, IdsAssigned, EnqueuedCovered, DuplicateKeysBacked,
              NoContentLost, Covered, Backed, LostKeys, Undecided, Held, Holding, Buffered, Stored
<1>3. QED
  BY <1>1, <1>2

LEMMA Invariance == Spec => []IInv
  BY InitInv, NextInv, PTL DEF Spec

(* No two rows ever have the same msg_hash, however the workers' checks     *)
(* race, and across crashes and restarts.                                   *)
THEOREM HashesUnique == Spec => []UniqueHash
<1>1. IInv => UniqueHash
  BY DEF IInv
<1>2. QED
  BY <1>1, Invariance, PTL

(* A key Redis calls a duplicate belongs to a message that is stored, on    *)
(* its way to the table, or lost to a failure after the key was set.        *)
THEOREM KeysBacked == Spec => []DuplicateKeysBacked
<1>1. IInv => DuplicateKeysBacked
  BY DEF IInv
<1>2. QED
  BY <1>1, Invariance, PTL

(* Every message taken in is undecided, or its content is stored or on its  *)
(* way, or a failure lost it: the workers, the batches, the uniqueness      *)
(* constraint and the expiring duplicate keys lose nothing on their own.    *)
THEOREM ContentKept == Spec => []NoContentLost
<1>1. IInv => NoContentLost
  BY DEF IInv
<1>2. QED
  BY <1>1, Invariance, PTL
=============================================================================
