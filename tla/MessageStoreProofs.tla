--------------------------- MODULE MessageStoreProofs ---------------------------
(***************************************************************************)
(* MessagePipeline keeps every message in one place, and implements        *)
(* MessageStore: proofs for every set of messages, workers and keys, every *)
(* batch size, and every kind of failure in the model.                     *)
(***************************************************************************)
EXTENDS MessagePipelineProofs

-----------------------------------------------------------------------------
(* Sequences that hold nothing twice                                        *)

LEMMA InjectiveEmpty == IsInjective(<<>>) /\ Range(<<>>) = {}
<1>1. DOMAIN <<>> = {}
  OBVIOUS
<1>2. QED
  BY <1>1 DEF IsInjective, Range

LEMMA InjectiveAppend ==
  ASSUME NEW S, NEW s \in Seq(S), NEW x \in S, IsInjective(s), x \notin Range(s)
  PROVE  IsInjective(Append(s, x))
<1>1. /\ DOMAIN s = 1 .. Len(s) /\ Len(s) \in Nat
      /\ DOMAIN Append(s, x) = 1 .. (Len(s) + 1)
      /\ \A i \in 1 .. Len(s) : Append(s, x)[i] = s[i]
      /\ Append(s, x)[Len(s) + 1] = x
  OBVIOUS
<1>2. \A i \in 1 .. Len(s) : s[i] # x
  BY <1>1 DEF Range
<1> DEFINE a == Append(s, x)
<1> HIDE DEF a
<1>3. \A i, j \in 1 .. (Len(s) + 1) : a[i] = a[j] => i = j
  BY <1>1, <1>2 DEF a, IsInjective
<1>4. QED
  BY <1>1, <1>3 DEF a, IsInjective

LEMMA InjectiveTail ==
  ASSUME NEW S, NEW s \in Seq(S), s # <<>>, IsInjective(s)
  PROVE  IsInjective(Tail(s)) /\ Head(s) \notin Range(Tail(s))
<1>1. /\ DOMAIN s = 1 .. Len(s) /\ Len(s) \in Nat \ {0} /\ Head(s) = s[1]
      /\ DOMAIN Tail(s) = 1 .. (Len(s) - 1)
      /\ \A i \in 1 .. (Len(s) - 1) : Tail(s)[i] = s[i + 1]
  OBVIOUS
<1>2. \A i \in 1 .. (Len(s) - 1) : i + 1 \in 1 .. Len(s) /\ i + 1 # 1
  BY <1>1
<1>3. IsInjective(Tail(s))
  BY <1>1, <1>2 DEF IsInjective
<1>4. Head(s) \notin Range(Tail(s))
  BY <1>1, <1>2 DEF IsInjective, Range
<1>5. QED
  BY <1>3, <1>4

LEMMA InjectiveCut ==
  ASSUME NEW S, NEW s \in Seq(S), NEW n \in 0 .. Len(s), IsInjective(s)
  PROVE  /\ IsInjective(SubSeq(s, 1, n))
         /\ IsInjective(SubSeq(s, n + 1, Len(s)))
         /\ Range(SubSeq(s, 1, n)) \cap Range(SubSeq(s, n + 1, Len(s))) = {}
<1> DEFINE f == SubSeq(s, 1, n)
           b == SubSeq(s, n + 1, Len(s))
<1>1. Len(s) \in Nat /\ DOMAIN s = 1 .. Len(s)
  OBVIOUS
<1>2. DOMAIN f = 1 .. n /\ \A i \in 1 .. n : f[i] = s[i] /\ i \in DOMAIN s
  BY <1>1
<1>3. DOMAIN b = 1 .. (Len(s) - n)
      /\ \A i \in 1 .. (Len(s) - n) : b[i] = s[i + n] /\ i + n \in DOMAIN s /\ i + n > n
  BY <1>1
<1> HIDE DEF f, b
<1>4. IsInjective(f)
  BY <1>2 DEF IsInjective
<1>5. IsInjective(b)
  <2>1. ASSUME NEW i \in DOMAIN b, NEW j \in DOMAIN b, b[i] = b[j]
        PROVE  i = j
    <3>1. s[i + n] = s[j + n] /\ i + n \in DOMAIN s /\ j + n \in DOMAIN s
      BY <1>3, <2>1
    <3>2. i + n = j + n
      BY <3>1 DEF IsInjective
    <3>3. QED
      BY <3>2, <1>1, <1>3
  <2>2. QED
    BY <2>1 DEF IsInjective
<1>6. ASSUME NEW i \in DOMAIN f, NEW j \in DOMAIN b
      PROVE  f[i] # b[j]
  <2>1. i # j + n /\ i \in DOMAIN s /\ j + n \in DOMAIN s
    BY <1>1, <1>2, <1>3
  <2>2. s[i] # s[j + n]
    BY <2>1 DEF IsInjective
  <2>3. QED
    BY <2>2, <1>2, <1>3
<1>7. Range(f) \cap Range(b) = {}
  BY <1>6 DEF Range
<1>8. QED
  BY <1>4, <1>5, <1>7 DEF f, b

-----------------------------------------------------------------------------
(* The parts of OnePlace                                                    *)

NothingTwice ==
  IsInjective(input) /\ IsInjective(queue) /\ IsInjective(batch) /\ IsInjective(txn)
HandsDiffer == \A v, w \in Holding : cur[v] = cur[w] => v = w

(* The sets a message passes through are disjoint, all within A.            *)
Apart(I, H, Q, B, T, S, A) ==
  /\ I \cap H = {}
  /\ (I \cup H) \cap (Q \cup B \cup T \cup S) = {}
  /\ (Q \cup B \cup T) \cap S = {}
  /\ Q \cap (B \cup T) = {}
  /\ B \cap T = {}
  /\ I \cup H \cup Q \cup B \cup T \cup S \subseteq A
PlacesApart ==
  Apart(Range(input), Held, Range(queue), Range(batch), Range(txn), Stored, accepted)

LEMMA OnePlaceParts == OnePlace <=> NothingTwice /\ HandsDiffer /\ PlacesApart
<1>1. (\A s \in {input, queue, batch, txn} : IsInjective(s)) <=> NothingTwice
  BY DEF NothingTwice
<1>2. QED
  BY <1>1, Zenon DEF OnePlace, HandsDiffer, PlacesApart, Apart, Undecided, Buffered, Volatile

-----------------------------------------------------------------------------
(* What the hands of the workers hold                                       *)

Others(w) == \A v \in Workers \ {w} : pc'[v] = pc[v] /\ cur'[v] = cur[v]

LEMMA HeldKept ==
  ASSUME NEW w \in Workers, Others(w), HandsDiffer,
         w \in Holding <=> w \in Holding', w \in Holding => cur'[w] = cur[w]
  PROVE  Held' = Held /\ HandsDiffer'
<1>1. \A v \in Workers : v \in Holding <=> v \in Holding'
  BY DEF Others, Holding
<1>2. \A v \in Holding : cur'[v] = cur[v]
  BY DEF Others, Holding
<1>3. Holding' = Holding
  BY <1>1 DEF Holding
<1>4. QED
  BY <1>2, <1>3 DEF Held, HandsDiffer

LEMMA HeldLess ==
  ASSUME NEW w \in Workers, Others(w), HandsDiffer, w \in Holding, w \notin Holding'
  PROVE  Held' = Held \ {cur[w]} /\ HandsDiffer' /\ cur[w] \in Held
<1>1. Holding' = Holding \ {w}
  BY DEF Others, Holding
<1>2. \A v \in Holding' : cur'[v] = cur[v]
  BY <1>1 DEF Others, Holding
<1>3. Held' = {cur[v] : v \in Holding \ {w}}
  BY <1>1, <1>2 DEF Held
<1>4. QED
  BY <1>1, <1>2, <1>3 DEF Held, HandsDiffer

LEMMA HeldMore ==
  ASSUME NEW w \in Workers, Others(w), HandsDiffer, w \notin Holding, w \in Holding',
         cur'[w] \notin Held
  PROVE  Held' = Held \cup {cur'[w]} /\ HandsDiffer'
<1>1. Holding' = Holding \cup {w}
  BY DEF Others, Holding
<1>2. \A v \in Holding : cur'[v] = cur[v]
  BY DEF Others, Holding
<1>3. Held' = Held \cup {cur'[w]}
  BY <1>1, <1>2 DEF Held
<1>4. HandsDiffer'
  BY <1>1, <1>2 DEF Held, HandsDiffer
<1>5. QED
  BY <1>3, <1>4

-----------------------------------------------------------------------------
(* How messages move in a step                                              *)

(* What a worker step can do to the places of messages.                     *)
Stays == Held' = Held /\ UNCHANGED <<input, queue, lost>>
Takes(m) ==
  /\ m \in Range(input) /\ Range(input') = Range(input) \ {m}
  /\ Held' = Held \cup {m}
  /\ UNCHANGED <<queue, lost>>
Enqueues(m) ==
  /\ m \in Held /\ Held' = Held \ {m}
  /\ Range(queue') = Range(queue) \cup {m}
  /\ UNCHANGED <<input, lost>>
Drops(m) ==
  /\ m \in Held /\ Held' = Held \ {m}
  /\ UNCHANGED <<input, queue>>
  /\ \/ lost' = lost /\ \E n \in Buffered \cup Stored \cup lost : Key[n] = Key[m]
     \/ lost' = lost \cup {m}
WorkerMove == Stays \/ \E m \in Msgs : Takes(m) \/ Enqueues(m) \/ Drops(m)

LEMMA WorkerMoves ==
  ASSUME IInv, OnePlace, NEW w \in Workers, WorkerStep(w)
  PROVE  WorkerMove /\ HandsDiffer' /\ IsInjective(input') /\ IsInjective(queue')
<1> USE DEF Goto, Finish, storageVars, redisVars, history, WorkerMove
<1>0. Others(w)
  BY WorkerFrame DEF Others, IInv
<1>a. /\ pc \in [Workers -> WorkerPC] /\ cur \in [Workers -> Msgs \cup {NoMsg}]
      /\ w \in Holding => cur[w] \in Msgs
      /\ input \in Seq(Msgs) /\ queue \in Seq(Msgs)
  BY DEF IInv, TypeOK, Holding
<1>b. HandsDiffer /\ IsInjective(input) /\ IsInjective(queue) /\ PlacesApart
  BY OnePlaceParts DEF NothingTwice
<1> DEFINE Goal == /\ WorkerMove /\ HandsDiffer'
                   /\ IsInjective(input') /\ IsInjective(queue')
<1>1. ASSUME w \in Holding <=> w \in Holding', w \in Holding => cur'[w] = cur[w],
             UNCHANGED <<input, queue, lost>>
      PROVE  Goal
  BY <1>0, <1>1, <1>b, HeldKept DEF Stays
<1>2. ASSUME w \in Holding, w \notin Holding', UNCHANGED <<input, queue>>,
             \/ lost' = lost /\ \E n \in Buffered \cup Stored \cup lost : Key[n] = Key[cur[w]]
             \/ lost' = lost \cup {cur[w]}
      PROVE  Goal
  <2>1. Held' = Held \ {cur[w]} /\ HandsDiffer' /\ cur[w] \in Held
    BY <1>0, <1>2, <1>b, HeldLess
  <2>2. Drops(cur[w])
    BY <2>1, <1>2 DEF Drops
  <2>3. QED
    BY <2>1, <2>2, <1>2, <1>a, <1>b
<1>3. CASE Take(w)
  <2>1. /\ input # <<>> /\ input' = Tail(input) /\ queue' = queue /\ lost' = lost
        /\ cur'[w] = Head(input) /\ w \notin Holding /\ w \in Holding'
    BY <1>3, <1>a DEF Take, Holding
  <2>2. /\ Head(input) \in Msgs /\ Range(input) = {Head(input)} \cup Range(Tail(input))
        /\ Head(input) \notin Range(Tail(input)) /\ IsInjective(Tail(input))
    BY <2>1, <1>a, <1>b, RangeTail, InjectiveTail
  <2>3. cur'[w] \notin Held
    BY <2>1, <2>2, <1>b DEF PlacesApart, Apart
  <2>4. Held' = Held \cup {Head(input)} /\ HandsDiffer'
    BY <2>1, <2>3, <1>0, <1>b, HeldMore
  <2>5. Takes(Head(input))
    BY <2>1, <2>2, <2>4 DEF Takes
  <2>6. QED
    BY <2>1, <2>2, <2>4, <2>5, <1>b
<1>4. CASE WorkerExit(w)
  <2>1. w \notin Holding /\ w \notin Holding' /\ UNCHANGED <<input, queue, lost>>
    BY <1>4, <1>a DEF WorkerExit, Holding
  <2>2. QED
    BY <2>1, <1>1
<1>5. ASSUME pc[w] = "dedupe", Pass(w)
      PROVE  Goal
  <2>1. w \in Holding /\ w \in Holding' /\ cur' = cur /\ UNCHANGED <<input, queue, lost>>
    BY <1>5, <1>a DEF Pass, Holding
  <2>2. QED
    BY <2>1, <1>1
<1>6. ASSUME pc[w] = "dedupe", DropDuplicate(w)
      PROVE  w \in Holding /\ w \notin Holding' /\ UNCHANGED <<input, queue>>
  BY <1>6, <1>a DEF DropDuplicate, Holding
<1>7. CASE pc[w] = "dedupe" /\ DedupeRedis(w)
  <2>1. CASE Key[cur[w]] \in dup /\ DropDuplicate(w) /\ lost' = lost
    <3>1. Covered(Key[cur[w]])
      BY <2>1, CoveredMeans DEF IInv, DuplicateKeysBacked
    <3>2. QED
      BY <3>1, <2>1, <1>2, <1>6, <1>7 DEF Covered
  <2>2. CASE Pass(w)
    BY <2>2, <1>7, <1>5
  <2>3. CASE DropDuplicate(w) /\ lost' = lost \cup {cur[w]}
    BY <2>3, <1>2, <1>6, <1>7
  <2>4. QED
    BY <1>7, <2>1, <2>2, <2>3 DEF DedupeRedis
<1>8. CASE pc[w] = "dedupe" /\ DedupeSQLite(w)
  <2>1. CASE (\E m \in Stored : Hash[m] = Hash[cur[w]]) /\ DropDuplicate(w) /\ lost' = lost
    <3>1. PICK m \in Stored : Hash[m] = Hash[cur[w]]
      BY <2>1
    <3>2. m \in Msgs /\ cur[w] \in Msgs
      BY <1>8 DEF Stored, IInv, TypeOK, Row
    <3>3. Key[m] = Key[cur[w]]
      BY <3>1, <3>2, PipelineAssumption
    <3>4. QED
      BY <3>3, <2>1, <1>2, <1>6, <1>8
  <2>2. CASE Pass(w)
    BY <2>2, <1>8, <1>5
  <2>3. QED
    BY <1>8, <2>1, <2>2 DEF DedupeSQLite
<1>9. CASE Enqueue(w)
  <2>1. /\ w \in Holding /\ w \notin Holding' /\ UNCHANGED <<input, lost>>
        /\ queue' = Append(queue, cur[w]) /\ cur[w] \in Msgs
    BY <1>9, <1>a DEF Enqueue, Holding
  <2>2. Held' = Held \ {cur[w]} /\ HandsDiffer' /\ cur[w] \in Held
    BY <2>1, <1>0, <1>b, HeldLess
  <2>3. cur[w] \notin Range(queue)
    BY <2>2, <1>b DEF PlacesApart, Apart
  <2>4. Range(queue') = Range(queue) \cup {cur[w]} /\ IsInjective(queue')
    BY <2>1, <2>3, <1>a, <1>b, RangeAppend, InjectiveAppend
  <2>5. Enqueues(cur[w])
    BY <2>1, <2>2, <2>4 DEF Enqueues
  <2>6. QED
    BY <2>1, <2>2, <2>4, <2>5, <1>b
<1>10. CASE ReadRowid(w)
  <2>1. pc[w] = "rowid" /\ UNCHANGED <<input, storageVars, history>>
        /\ (pc' = [pc EXCEPT ![w] = "embed"] \/ pc' = [pc EXCEPT ![w] = "wait"])
    BY <1>10, Zenon DEF ReadRowid
  <2>2. w \notin Holding /\ w \notin Holding'
    BY <2>1, <1>a DEF Holding
  <2>3. QED
    BY <2>1, <2>2, <1>1
<1>11. CASE EmbedOk(w) \/ EmbedFail(w) \/ AddVector(w) \/ MarkDuplicate(w)
  <2>1. w \notin Holding /\ w \notin Holding' /\ UNCHANGED <<input, queue, lost>>
    BY <1>11, <1>a DEF EmbedOk, EmbedFail, AddVector, MarkDuplicate, Holding
  <2>2. QED
    BY <2>1, <1>1
<1>12. QED
  BY <1>3, <1>4, <1>7, <1>8, <1>9, <1>10, <1>11 DEF WorkerStep
(* What a step of the storage thread can do to them.                        *)
Rests == UNCHANGED <<queue, batch, txn, lost>> /\ Stored' = Stored
Collects ==
  /\ Range(batch) = {} /\ Range(queue') \cap Range(batch') = {}
  /\ Range(queue) = Range(queue') \cup Range(batch')
  /\ UNCHANGED <<txn, lost>> /\ Stored' = Stored
Pops(m) ==
  /\ m \in Range(batch) /\ Range(batch') = Range(batch) \ {m}
  /\ queue' = queue /\ Stored' = Stored
Inserts(m)  == Pops(m) /\ Range(txn') = Range(txn) \cup {m} /\ lost' = lost
Rejects(m) ==
  /\ Pops(m) /\ UNCHANGED <<txn, lost>>
  /\ \E n \in Stored \cup Range(txn) : Key[n] = Key[m]
Loses(m)   == Pops(m) /\ txn' = txn /\ lost' = lost \cup {m}
Commits ==
  /\ Stored' = Stored \cup Range(txn) /\ Range(txn') = {}
  /\ UNCHANGED <<queue, batch, lost>>
RollsBack ==
  /\ Range(txn') = {} /\ lost' = lost \cup Range(txn)
  /\ UNCHANGED <<queue, batch>> /\ Stored' = Stored
StorageMove ==
  \/ Rests \/ Collects \/ Commits \/ RollsBack
  \/ \E m \in Msgs : Inserts(m) \/ Rejects(m) \/ Loses(m)

LEMMA StorageMoves ==
  ASSUME IInv, OnePlace, StorageStep
  PROVE  /\ StorageMove /\ UNCHANGED <<input, pc, cur, accepted>>
         /\ IsInjective(queue') /\ IsInjective(batch') /\ IsInjective(txn')
<1> USE DEF workerVars, redisVars, history, StorageMove
<1>a. /\ queue \in Seq(Msgs) /\ batch \in Seq(Msgs) /\ txn \in Seq(Msgs)
      /\ rows' = rows => Stored' = Stored
  BY DEF IInv, TypeOK, Stored
<1>b. /\ IsInjective(queue) /\ IsInjective(batch) /\ IsInjective(txn) /\ PlacesApart
  BY OnePlaceParts DEF NothingTwice
<1> DEFINE Goal == /\ StorageMove /\ UNCHANGED <<input, pc, cur, accepted>>
                   /\ IsInjective(queue') /\ IsInjective(batch') /\ IsInjective(txn')
<1>1. CASE LoopExit \/ FlushNothing
  BY <1>1, <1>a, <1>b DEF LoopExit, FlushNothing, Rests
<1>2. CASE FlushTake
  <2> DEFINE n == IF Len(queue) < BatchSize THEN Len(queue) ELSE BatchSize
  <2>1. n \in 0 .. Len(queue)
    BY <1>a, PipelineAssumption
  <2>2. /\ batch' = SubSeq(queue, 1, n) /\ queue' = SubSeq(queue, n + 1, Len(queue))
        /\ UNCHANGED <<txn, rows, lost, input, pc, cur, accepted>> /\ batch = <<>>
    BY <1>2 DEF FlushTake, MayFlush, IInv, IdleBuffers
  <2> HIDE DEF n
  <2>3. /\ Range(queue) = Range(batch') \cup Range(queue')
        /\ Range(batch') \cap Range(queue') = {}
        /\ IsInjective(batch') /\ IsInjective(queue')
    BY <2>1, <2>2, <1>a, <1>b, RangeCut, InjectiveCut
  <2>4. Collects
    BY <2>2, <2>3, <1>a, InjectiveEmpty DEF Collects
  <2>5. QED
    BY <2>2, <2>3, <2>4, <1>b
<1> DEFINE m == Head(batch)
<1>3. ASSUME batch # <<>>, batch' = Tail(batch), UNCHANGED <<queue, rows>>
      PROVE  m \in Msgs /\ Pops(m) /\ IsInjective(batch')
  BY <1>3, <1>a, <1>b, RangeTail, InjectiveTail DEF Pops
<1>4. CASE InsertRow
  <2>1. /\ batch # <<>> /\ batch' = Tail(batch) /\ txn' = Append(txn, m)
        /\ UNCHANGED <<queue, rows, lost, input, pc, cur, accepted>>
    BY <1>4 DEF InsertRow
  <2>2. m \in Msgs /\ Pops(m) /\ IsInjective(batch')
    BY <2>1, <1>3
  <2> HIDE DEF m
  <2>3. m \notin Range(txn)
    BY <2>2, <1>b DEF Pops, PlacesApart, Apart
  <2>4. IsInjective(txn') /\ Range(txn') = Range(txn) \cup {m}
    BY <2>1, <2>2, <2>3, <1>a, <1>b, InjectiveAppend, RangeAppend
  <2>5. Inserts(m)
    BY <2>1, <2>2, <2>4 DEF Inserts
  <2>6. QED
    BY <2>1, <2>2, <2>4, <2>5, <1>b
<1>5. CASE RejectRow
  <2>1. /\ batch # <<>> /\ batch' = Tail(batch) /\ HashTaken(m)
        /\ UNCHANGED <<queue, txn, rows, lost, input, pc, cur, accepted>>
    BY <1>5 DEF RejectRow
  <2>2. m \in Msgs /\ Pops(m) /\ IsInjective(batch')
    BY <2>1, <1>3
  <2> HIDE DEF m
  <2>3. PICK n \in Stored \cup Range(txn) : Hash[n] = Hash[m]
    BY <2>1 DEF HashTaken
  <2>4. n \in Msgs
    <3>1. Range(txn) \subseteq Msgs
      BY <1>a, RangeInside
    <3>2. Stored \subseteq Msgs
      BY DEF Stored, IInv, TypeOK, Row
    <3>3. QED
      BY <3>1, <3>2
  <2>5. Key[n] = Key[m]
    BY <2>2, <2>3, <2>4, PipelineAssumption
  <2>6. Rejects(m)
    BY <2>1, <2>2, <2>5 DEF Rejects
  <2>7. QED
    BY <2>1, <2>2, <2>6, <1>b
<1>6. CASE InsertFails
  <2>1. /\ batch # <<>> /\ batch' = Tail(batch) /\ lost' = lost \cup {m}
        /\ UNCHANGED <<queue, txn, rows, input, pc, cur, accepted>>
    BY <1>6 DEF InsertFails
  <2>2. m \in Msgs /\ Pops(m) /\ IsInjective(batch')
    BY <2>1, <1>3
  <2> HIDE DEF m
  <2>3. Loses(m)
    BY <2>1, <2>2 DEF Loses
  <2>4. QED
    BY <2>1, <2>2, <2>3, <1>b
<1>7. CASE Commit
  <2>1. /\ rows' = rows \cup {[id |-> lastId + i, msg |-> txn[i]] : i \in DOMAIN txn}
        /\ txn' = <<>> /\ UNCHANGED <<queue, batch, lost, input, pc, cur, accepted>>
    BY <1>7 DEF Commit
  <2>2. Stored' = Stored \cup Range(txn)
    <3> DEFINE row(i) == [id |-> lastId + i, msg |-> txn[i]]
    <3>1. \A i \in DOMAIN txn : row(i).msg = txn[i]
      OBVIOUS
    <3>2. rows' = rows \cup {row(i) : i \in DOMAIN txn}
      BY <2>1
    <3> HIDE DEF row
    <3>3. {r.msg : r \in rows'} = {r.msg : r \in rows} \cup {txn[i] : i \in DOMAIN txn}
      BY <3>1, <3>2
    <3>4. QED
      BY <3>3, Zenon DEF Stored, Range
  <2>3. Commits
    BY <2>1, <2>2, InjectiveEmpty DEF Commits
  <2>4. QED
    BY <2>1, <2>3, <1>b, InjectiveEmpty
<1>8. CASE RollBack
  <2>1. /\ txn' = <<>> /\ lost' = lost \cup Range(txn)
        /\ UNCHANGED <<queue, batch, rows, input, pc, cur, accepted>>
    BY <1>8 DEF RollBack
  <2>2. RollsBack
    BY <2>1, <1>a, InjectiveEmpty DEF RollsBack
  <2>3. QED
    BY <2>1, <2>2, <1>b, InjectiveEmpty
<1>9. QED
  BY <1>1, <1>2, <1>4, <1>5, <1>6, <1>7, <1>8 DEF StorageStep
(* What the rest can do to them.                                            *)
Nothing ==
  UNCHANGED <<input, queue, batch, txn, lost, accepted>> /\ Stored' = Stored /\ Held' = Held
Arrives(m) ==
  /\ m \notin accepted /\ accepted' = accepted \cup {m}
  /\ Range(input') = Range(input) \cup {m}
  /\ UNCHANGED <<queue, batch, txn, lost>> /\ Stored' = Stored /\ Held' = Held
Vanish ==
  /\ Volatile' = {} /\ Held' = {} /\ lost' = lost \cup Volatile
  /\ Stored' = Stored /\ accepted' = accepted
Cleans ==
  /\ Stored' = Stored \ Aged /\ lost' = lost \cup (Stored \cap Aged)
  /\ UNCHANGED <<input, queue, batch, txn, accepted>> /\ Held' = Held

LEMMA OtherMoves ==
  ASSUME IInv, OnePlace,
         (\E m \in Msgs : Receive(m)) \/ (\E g \in Groups : DupKeyExpires(g)) \/ MainStep
  PROVE  /\ Nothing \/ Vanish \/ Cleans \/ \E m \in Msgs : Arrives(m)
         /\ NothingTwice' /\ HandsDiffer'
<1> USE DEF workerVars, storageVars, redisVars, history
<1>a. NothingTwice /\ HandsDiffer /\ PlacesApart
  BY OnePlaceParts
<1>b. rows' = rows => Stored' = Stored
  BY DEF Stored
<1>c. ASSUME UNCHANGED <<pc, cur>>
      PROVE  Held' = Held /\ HandsDiffer'
  BY <1>c, <1>a DEF Held, Holding, HandsDiffer
<1>1. ASSUME NEW m \in Msgs, Receive(m)
      PROVE  Arrives(m) /\ NothingTwice' /\ HandsDiffer'
  <2>1. /\ input' = Append(input, m) /\ m \notin accepted /\ accepted' = accepted \cup {m}
        /\ UNCHANGED <<pc, cur, queue, batch, txn, lost, rows>>
    BY <1>1 DEF Receive
  <2>2. input \in Seq(Msgs) /\ IsInjective(input) /\ m \notin Range(input)
    BY <1>a, <2>1 DEF IInv, TypeOK, NothingTwice, PlacesApart, Apart
  <2>3. Range(input') = Range(input) \cup {m} /\ IsInjective(input')
    BY <2>1, <2>2, RangeAppend, InjectiveAppend
  <2>4. QED
    BY <2>1, <2>3, <1>a, <1>b, <1>c DEF Arrives, NothingTwice
<1>2. CASE (\E g \in Groups : DupKeyExpires(g)) \/ OtherInsert \/ StopProcessor \/ StopStorage
  <2>1. UNCHANGED <<pc, cur, input, queue, batch, txn, lost, accepted, rows>>
    BY <1>2 DEF DupKeyExpires, OtherInsert, StopProcessor, StopStorage
  <2>2. QED
    BY <2>1, <1>a, <1>b, <1>c DEF Nothing, NothingTwice
<1>3. CASE Cleanup
  <2>1. /\ rows' = {r \in rows : r.msg \notin Aged} /\ lost' = lost \cup (Stored \cap Aged)
        /\ UNCHANGED <<pc, cur, input, queue, batch, txn, accepted>>
    BY <1>3 DEF Cleanup
  <2>2. Stored' = Stored \ Aged
    BY <2>1 DEF Stored
  <2>3. QED
    BY <2>1, <2>2, <1>a, <1>c DEF Cleans, NothingTwice
<1>4. CASE Exit \/ Crash
  <2>1. /\ lost' = lost \cup Volatile /\ UNCHANGED <<rows, accepted>>
        /\ input' = <<>> /\ queue' = <<>> /\ batch' = <<>> /\ txn' = <<>>
        /\ pc' = [w \in Workers |-> "exited"]
    BY <1>4 DEF Exit, Crash, ProcessGone
  <2>2. Holding' = {} /\ Held' = {} /\ HandsDiffer'
    BY <2>1 DEF Holding, Held, HandsDiffer
  <2>3. Volatile' = {} /\ NothingTwice'
    BY <2>1, <2>2, InjectiveEmpty DEF Volatile, Undecided, Buffered, NothingTwice
  <2>4. QED
    BY <2>1, <2>2, <2>3, <1>b DEF Vanish
<1>5. CASE Restart
  <2>1. /\ UNCHANGED <<cur, input, queue, batch, txn, lost, accepted, rows>>
        /\ pc' = [w \in Workers |-> "wait"] /\ phase = "down"
    BY <1>5 DEF Restart, FreshProcess
  <2>2. Holding = {} /\ Holding' = {}
    BY <2>1 DEF Holding, IInv, DownIdle
  <2>3. Held' = Held /\ HandsDiffer'
    BY <2>2 DEF Held, HandsDiffer
  <2>4. QED
    BY <2>1, <2>3, <1>a, <1>b DEF Nothing, NothingTwice
<1>6. QED
  BY <1>1, <1>2, <1>3, <1>4, <1>5 DEF MainStep

-----------------------------------------------------------------------------
(* One place                                                                *)

LEMMA OnePlaceInit == Init => OnePlace
<1> SUFFICES ASSUME Init PROVE OnePlace
  OBVIOUS
<1>1. NothingTwice /\ \A s \in {input, queue, batch, txn} : Range(s) = {}
  BY InjectiveEmpty DEF Init, NothingTwice
<1>2. Holding = {} /\ Held = {} /\ HandsDiffer /\ Stored = {}
  BY DEF Init, Holding, Held, HandsDiffer, Stored
<1>3. PlacesApart
  BY <1>1, <1>2 DEF PlacesApart, Apart
<1>4. QED
  BY <1>1, <1>2, <1>3, OnePlaceParts

(* The parts of OnePlace, in the next state.                                *)
LEMMA OnePlacePartsNext == NothingTwice' /\ HandsDiffer' /\ PlacesApart' => OnePlace'
<1>1. NothingTwice' => \A s \in {input', queue', batch', txn'} : IsInjective(s)
  BY DEF NothingTwice
<1>2. QED
  BY <1>1, Zenon DEF OnePlace, HandsDiffer, PlacesApart, Apart, Undecided, Buffered, Volatile

(* A message that enters one place leaves another, or was new.              *)
LEMMA OnePlaceStep ==
  ASSUME IInv, OnePlace, Next
  PROVE  OnePlace'
<1>a. NothingTwice /\ HandsDiffer /\ PlacesApart
  BY OnePlaceParts
<1>1. ASSUME NEW w \in Workers, WorkerStep(w)
      PROVE  OnePlace'
  <2>1. WorkerMove /\ HandsDiffer' /\ IsInjective(input') /\ IsInjective(queue')
    BY <1>1, WorkerMoves
  <2>2. UNCHANGED <<batch, txn, rows, accepted>> /\ Stored' = Stored
    BY <1>1, WorkerFrame DEF IInv, Stored
  <2>3. NothingTwice'
    BY <2>1, <2>2, <1>a DEF NothingTwice
  <2>4. PlacesApart'
    BY <2>1, <2>2, <1>a
       DEF WorkerMove, Stays, Takes, Enqueues, Drops, PlacesApart, Apart
  <2>5. QED
    BY <2>1, <2>3, <2>4, OnePlacePartsNext
<1>2. CASE StorageStep
  <2>1. /\ StorageMove /\ UNCHANGED <<input, pc, cur, accepted>>
        /\ IsInjective(queue') /\ IsInjective(batch') /\ IsInjective(txn')
    BY <1>2, StorageMoves
  <2>2. Held' = Held /\ HandsDiffer' /\ NothingTwice'
    BY <2>1, <1>a DEF Held, Holding, HandsDiffer, NothingTwice
  <2>3. PlacesApart'
    BY <2>1, <2>2, <1>a
       DEF StorageMove, Rests, Collects, Commits, RollsBack, Inserts, Rejects, Loses, Pops,
           PlacesApart, Apart
  <2>4. QED
    BY <2>2, <2>3, OnePlacePartsNext
<1>3. CASE (\E m \in Msgs : Receive(m)) \/ (\E g \in Groups : DupKeyExpires(g)) \/ MainStep
  <2>1. /\ Nothing \/ Vanish \/ Cleans \/ \E m \in Msgs : Arrives(m)
        /\ NothingTwice' /\ HandsDiffer'
    BY <1>3, OtherMoves
  <2>2. PlacesApart'
    BY <2>1, <1>a
       DEF Nothing, Vanish, Cleans, Arrives, Volatile, Undecided, Buffered, PlacesApart, Apart
  <2>3. QED
    BY <2>1, <2>2, OnePlacePartsNext
<1>4. QED
  BY <1>1, <1>2, <1>3 DEF Next

LEMMA OnePlaceInvariance == Spec => [](IInv /\ OnePlace)
<1>1. OnePlace /\ UNCHANGED vars => OnePlace'
  BY DEF vars, workerVars, storageVars, history, OnePlace, Holding, Held, Undecided, Buffered,
         Volatile, Stored
<1>2. IInv /\ OnePlace /\ [Next]_vars => OnePlace'
  BY <1>1, OnePlaceStep
<1>3. QED
  BY Invariance, OnePlaceInit, <1>2, PTL DEF Spec

(* However workers, the flush thread, crashes and failures interleave, no   *)
(* message is in two places at once or twice in one, or comes from nowhere. *)
THEOREM MessagesInOnePlace == Spec => []OnePlace
  BY OnePlaceInvariance, PTL
-----------------------------------------------------------------------------
(* The refinement                                                           *)

AbstractStep == Abstract!StoreNext \/ UNCHANGED Abstract!storeVars

(* A message may be discarded for one of the same content.                  *)
LEMMA DiscardStep ==
  ASSUME NEW m \in Volatile, NEW n \in (Volatile \ {m}) \cup Stored \cup lost,
         Key[n] = Key[m],
         Volatile' = Volatile \ {m}, Stored' = Stored, lost' = lost
  PROVE  AbstractStep
<1>1. Abstract!Discard(m)
  BY DEF Abstract!Discard
<1>2. QED
  BY <1>1 DEF AbstractStep, Abstract!StoreNext

LEMMA FailStep ==
  ASSUME NEW S \in SUBSET Volatile,
         Volatile' = Volatile \ S, Stored' = Stored, lost' = lost \cup S
  PROVE  AbstractStep
<1>1. Abstract!Fail(S)
  BY DEF Abstract!Fail
<1>2. QED
  BY <1>1 DEF AbstractStep, Abstract!StoreNext

LEMMA WorkerRefines ==
  ASSUME IInv, OnePlace, NEW w \in Workers, WorkerStep(w)
  PROVE  AbstractStep
<1>1. WorkerMove /\ PlacesApart
  BY WorkerMoves, OnePlaceParts
<1>2. UNCHANGED <<batch, txn>> /\ Stored' = Stored
  BY WorkerFrame DEF IInv, Stored
<1>3. CASE Stays \/ \E m \in Msgs : Takes(m) \/ Enqueues(m)
  <2>1. Volatile' = Volatile /\ lost' = lost
    BY <1>2, <1>3 DEF Stays, Takes, Enqueues, Volatile, Undecided, Buffered
  <2>2. QED
    BY <2>1, <1>2 DEF AbstractStep, Abstract!storeVars
<1>4. ASSUME NEW m \in Msgs, Drops(m)
      PROVE  AbstractStep
  <2>1. m \in Volatile /\ m \notin Buffered \cup Stored /\ Volatile' = Volatile \ {m}
    BY <1>1, <1>2, <1>4 DEF Drops, Volatile, Undecided, Buffered, PlacesApart, Apart
  <2>2. CASE lost' = lost \cup {m}
    BY <2>1, <2>2, <1>2, FailStep
  <2>3. CASE lost' = lost /\ \E n \in Buffered \cup Stored \cup lost : Key[n] = Key[m]
    <3>1. PICK n \in Buffered \cup Stored \cup lost : Key[n] = Key[m]
      BY <2>3
    <3>2. n \in (Volatile \ {m}) \cup Stored \cup lost
      BY <2>1, <3>1 DEF Volatile
    <3>3. QED
      BY <2>1, <2>3, <3>1, <3>2, <1>2, DiscardStep
  <2>4. QED
    BY <1>4, <2>2, <2>3 DEF Drops
<1>5. QED
  BY <1>1, <1>3, <1>4 DEF WorkerMove

LEMMA StorageRefines ==
  ASSUME IInv, OnePlace, StorageStep
  PROVE  AbstractStep
<1>1. StorageMove /\ UNCHANGED <<input, pc, cur>> /\ PlacesApart
  BY StorageMoves, OnePlaceParts
<1>2. Undecided' = Undecided
  BY <1>1 DEF Undecided, Held, Holding
<1>3. CASE Rests \/ Collects \/ \E m \in Msgs : Inserts(m)
  <2>1. Volatile' = Volatile /\ Stored' = Stored /\ lost' = lost
    BY <1>2, <1>3 DEF Rests, Collects, Inserts, Pops, Volatile, Buffered
  <2>2. QED
    BY <2>1 DEF AbstractStep, Abstract!storeVars
<1>4. ASSUME NEW m \in Msgs, Rejects(m) \/ Loses(m)
      PROVE  AbstractStep
  <2>1. /\ m \in Volatile /\ m \notin Stored \cup Range(txn)
        /\ Volatile' = Volatile \ {m} /\ Stored' = Stored
    BY <1>1, <1>2, <1>4
       DEF Rejects, Loses, Pops, Volatile, Undecided, Buffered, PlacesApart, Apart
  <2>2. CASE Loses(m)
    BY <2>1, <2>2, FailStep DEF Loses
  <2>3. CASE Rejects(m)
    <3>1. PICK n \in Stored \cup Range(txn) : Key[n] = Key[m]
      BY <2>3 DEF Rejects
    <3>2. n \in (Volatile \ {m}) \cup Stored \cup lost
      BY <2>1, <3>1 DEF Volatile, Buffered
    <3>3. QED
      BY <2>1, <2>3, <3>1, <3>2, DiscardStep DEF Rejects
  <2>4. QED
    BY <1>4, <2>2, <2>3
<1>5. CASE Commits
  <2> DEFINE T == Range(txn)
  <2>1. /\ Stored' = Stored \cup T /\ lost' = lost /\ T \subseteq Volatile
        /\ Volatile' = Volatile \ T
    BY <1>1, <1>2, <1>5
       DEF Commits, Volatile, Undecided, Buffered, PlacesApart, Apart
  <2>2. \A m \in T, n \in T \cup Stored : Hash[m] = Hash[n] => m = n
    <3>1. \A i, j \in DOMAIN txn : Hash[txn[i]] = Hash[txn[j]] => txn[i] = txn[j]
      BY DEF IInv, UniqueHash
    <3>2. \A i \in DOMAIN txn, n \in Stored : Hash[txn[i]] # Hash[n]
      BY DEF IInv, UniqueHash, Stored
    <3>3. QED
      BY <3>1, <3>2 DEF Range
  <2> HIDE DEF T
  <2>3. CASE T = {}
    BY <2>1, <2>3 DEF AbstractStep, Abstract!storeVars
  <2>4. CASE T # {}
    <3>1. Abstract!Store(T)
      BY <2>1, <2>2, <2>4 DEF Abstract!Store
    <3>2. QED
      BY <3>1, <2>1 DEF AbstractStep, Abstract!StoreNext
  <2>5. QED
    BY <2>3, <2>4
<1>6. CASE RollsBack
  <2>1. /\ Range(txn) \subseteq Volatile /\ Volatile' = Volatile \ Range(txn)
        /\ Stored' = Stored /\ lost' = lost \cup Range(txn)
    BY <1>1, <1>2, <1>6
       DEF RollsBack, Volatile, Undecided, Buffered, PlacesApart, Apart
  <2>2. QED
    BY <2>1, FailStep
<1>7. QED
  BY <1>1, <1>3, <1>4, <1>5, <1>6 DEF StorageMove

LEMMA OtherRefines ==
  ASSUME IInv, OnePlace,
         (\E m \in Msgs : Receive(m)) \/ (\E g \in Groups : DupKeyExpires(g)) \/ MainStep
  PROVE  AbstractStep
<1>1. (Nothing \/ Vanish \/ Cleans \/ \E m \in Msgs : Arrives(m)) /\ PlacesApart
  BY OtherMoves, OnePlaceParts
<1>2. CASE Nothing
  BY <1>2 DEF Nothing, Volatile, Undecided, Buffered, AbstractStep, Abstract!storeVars
<1>3. CASE Vanish
  <2>1. Volatile' = Volatile \ Volatile
    BY <1>3 DEF Vanish
  <2>2. QED
    BY <2>1, <1>3, FailStep DEF Vanish
<1>4. CASE Cleans
  <2>1. Volatile' = Volatile /\ Stored' = Stored \ (Stored \cap Aged)
    BY <1>4 DEF Cleans, Volatile, Undecided, Buffered
  <2>2. Abstract!Forget(Stored \cap Aged)
    BY <2>1, <1>4 DEF Cleans, Abstract!Forget
  <2>3. QED
    BY <2>2 DEF AbstractStep, Abstract!StoreNext
<1>5. ASSUME NEW m \in Msgs, Arrives(m)
      PROVE  AbstractStep
  <2>1. m \notin Volatile \cup Stored /\ Volatile' = Volatile \cup {m}
    BY <1>1, <1>5 DEF Arrives, Volatile, Undecided, Buffered, PlacesApart, Apart
  <2>2. Abstract!Accept(m)
    BY <2>1, <1>5 DEF Arrives, Abstract!Accept
  <2>3. QED
    BY <2>2 DEF AbstractStep, Abstract!StoreNext
<1>6. QED
  BY <1>1, <1>2, <1>3, <1>4, <1>5

(* The pipeline implements the store: a message taken in is pending until   *)
(* it is stored in a transaction of different hashes, discarded for one of  *)
(* the same content, or lost to a failure; nothing else ever happens to it. *)
THEOREM StoreImplemented == Spec => ImplementsStore
<1>1. Init => Abstract!StoreInit
  <2> SUFFICES ASSUME Init PROVE Abstract!StoreInit
    OBVIOUS
  <2>1. Range(input) = {} /\ Buffered = {} /\ Stored = {} /\ lost = {}
    BY InjectiveEmpty DEF Init, Buffered, Stored
  <2>2. Held = {}
    BY DEF Init, Held, Holding
  <2>3. QED
    BY <2>1, <2>2 DEF Abstract!StoreInit, Volatile, Undecided
<1>2. IInv /\ OnePlace /\ [Next]_vars => [Abstract!StoreNext]_(Abstract!storeVars)
  <2>1. UNCHANGED vars => AbstractStep
    BY DEF vars, workerVars, storageVars, history, Holding, Held, Undecided, Buffered, Volatile,
           Stored, AbstractStep, Abstract!storeVars
  <2>2. IInv /\ OnePlace /\ Next => AbstractStep
    BY WorkerRefines, StorageRefines, OtherRefines DEF Next
  <2>3. QED
    BY <2>1, <2>2 DEF AbstractStep
<1>3. QED
  BY <1>1, <1>2, OnePlaceInvariance, PTL DEF Spec, ImplementsStore, Abstract!StoreSpec
=============================================================================
