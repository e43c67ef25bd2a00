---------------------------- MODULE MessagePipeline ----------------------------
(***************************************************************************)
(* The path of a chat message through chatdb: MessageProcessor's input     *)
(* queue and worker threads, SQLiteStorage's write queue and flush thread, *)
(* the duplicate set and the vectors kept in Redis, orderly shutdown,      *)
(* crash and restart.                                                      *)
(*                                                                         *)
(* A message is an element of Msgs.  What the code tells apart about two   *)
(* messages is whether they have the same Redis duplicate key (group and   *)
(* content) and the same msg_hash (group, sender, content, time window).   *)
(***************************************************************************)
EXTENDS Naturals, Sequences, FiniteSets, Functions

CONSTANTS
  Msgs,        \* the messages clients may hand over, each at most once
  NoMsg,       \* "this worker holds no message"
  Workers,     \* the threads started by MessageProcessor::start (two)
  Keys,        \* the (group, content) pairs is_duplicate tells apart
  Hashes,      \* the msg_hash values
  Groups,      \* chat groups; a group's duplicate keys live in one Redis set
  Key,         \* [Msgs -> Keys]
  Hash,        \* [Msgs -> Hashes]
  GroupOf,     \* [Keys -> Groups]
  BatchSize,   \* SQLiteStorage::batch_size_
  RediSearch,  \* is the RediSearch module loaded in the Redis server?
  Searches,    \* do HTTP threads run semantic searches while workers run?
  Aged,        \* messages whose timestamp a cleanup finds older than its cutoff
  OtherIds     \* rowids that inserts into the other tables return

ASSUME PipelineAssumption ==
  /\ NoMsg \notin Msgs
  /\ Key \in [Msgs -> Keys]
  /\ Hash \in [Msgs -> Hashes]
  /\ GroupOf \in [Keys -> Groups]
  /\ \A m, n \in Msgs : Hash[m] = Hash[n] => Key[m] = Key[n]
  /\ BatchSize \in Nat \ {0}
  /\ RediSearch \in BOOLEAN
  /\ Searches \in BOOLEAN
  /\ Aged \subseteq Msgs
  /\ OtherIds \subseteq Nat

VARIABLES
  phase,      \* the main thread: "up", "draining", "closing", "down"
  input,      \* MessageProcessor::input_queue_
  pc,         \* where each worker is in worker_loop / do_process
  cur,        \* the message each worker holds
  rid,        \* result.id of each worker
  queue,      \* SQLiteStorage::queue_
  stage,      \* which flush_batch call comes next: "serve", "exit", "final", "closed"
  flushing,   \* is a flush_batch call inside its transaction?
  batch,      \* messages of that call not inserted yet
  txn,        \* messages inserted by the open transaction, in order
  rows,       \* committed rows of table messages: [id, msg]
  lastId,     \* committed AUTOINCREMENT counter of table messages
  lastRowid,  \* sqlite3_last_insert_rowid of the connection
  redisUp,    \* RedisClient::is_connected, fixed when the process starts
  torn,       \* has the unlocked redisContext been used by two threads at once?
  dup,        \* the keys in the Redis sets dup:*
  vecs,       \* the Redis hashes vec:*: [id, msg]
  accepted,   \* history: messages that entered input_queue_
  lost        \* history: messages lost to a crash, a shutdown, a failed call or a cleanup

workerVars  == <<input, pc, cur, rid>>
storageVars == <<queue, stage, flushing, batch, txn, rows, lastId, lastRowid>>
redisVars   == <<redisUp, torn, dup, vecs>>
history     == <<accepted, lost>>
vars == <<phase, workerVars, storageVars, redisVars, history>>

WorkerPC == {"wait", "dedupe", "enqueue", "rowid", "embed", "vector", "mark", "exited"}
Row == [id : Nat, msg : Msgs]

TypeOK ==
  /\ phase \in {"up", "draining", "closing", "down"}
  /\ input \in Seq(Msgs)
  /\ pc \in [Workers -> WorkerPC]
  /\ cur \in [Workers -> Msgs \cup {NoMsg}]
  /\ \A w \in Workers : pc[w] \notin {"wait", "exited"} => cur[w] \in Msgs
  /\ rid \in [Workers -> Nat]
  /\ queue \in Seq(Msgs)
  /\ stage \in {"serve", "exit", "final", "closed"}
  /\ flushing \in BOOLEAN
  /\ batch \in Seq(Msgs)
  /\ txn \in Seq(Msgs)
  /\ rows \in SUBSET Row
  /\ lastId \in Nat
  /\ lastRowid \in Nat
  /\ redisUp \in BOOLEAN
  /\ torn \in BOOLEAN
  /\ dup \in SUBSET Keys
  /\ vecs \in SUBSET Row
  /\ accepted \in SUBSET Msgs
  /\ lost \in SUBSET Msgs

-----------------------------------------------------------------------------
(* What the process holds in memory, and what the database holds.          *)

Holding   == {w \in Workers : pc[w] \in {"dedupe", "enqueue"}}
Held      == {cur[w] : w \in Holding}
Undecided == Range(input) \cup Held
Buffered  == Range(queue) \cup Range(batch) \cup Range(txn)
Volatile  == Undecided \cup Buffered
Stored    == {r.msg : r \in rows}

Backed(k) == \E m \in Buffered \cup Stored : Key[m] = k
LostKeys  == {Key[m] : m \in lost}

ProcessorRunning == phase = "up"
StorageRunning   == phase \in {"up", "draining"}

-----------------------------------------------------------------------------
(* MessageProcessor *)

(* The threads initialize() starts and its attempt to connect to Redis.     *)
FreshProcess ==
  /\ phase' = "up"
  /\ pc' = [w \in Workers |-> "wait"]
  /\ stage' = "serve"
  /\ redisUp' \in BOOLEAN

Init ==
  /\ phase = "up"
  /\ input = <<>>
  /\ pc = [w \in Workers |-> "wait"]
  /\ cur = [w \in Workers |-> NoMsg]
  /\ rid = [w \in Workers |-> 0]
  /\ queue = <<>> /\ batch = <<>> /\ txn = <<>>
  /\ stage = "serve"
  /\ flushing = FALSE
  /\ rows = {} /\ lastId = 0 /\ lastRowid = 0
  /\ redisUp \in BOOLEAN
  /\ torn = FALSE
  /\ dup = {} /\ vecs = {}
  /\ accepted = {} /\ lost = {}

(* receive_message and each round of receive_messages: push under the lock. *)
Receive(m) ==
  /\ ProcessorRunning
  /\ m \notin accepted
  /\ input' = Append(input, m)
  /\ accepted' = accepted \cup {m}
  /\ UNCHANGED <<phase, pc, cur, rid, storageVars, redisVars, lost>>

Goto(w, from, to) == pc[w] = from /\ pc' = [pc EXCEPT ![w] = to]

(* A worker that is done with its message is back at the top of its loop.   *)
Finish(w, from) ==
  /\ Goto(w, from, "wait")
  /\ cur' = [cur EXCEPT ![w] = NoMsg]
  /\ rid' = [rid EXCEPT ![w] = 0]

(* Mutant: the message popped from the queue is not kept.                   *)
TakeForgets(w) ==
  /\ ProcessorRunning
  /\ input # <<>>
  /\ Goto(w, "wait", "dedupe")
  /\ input' = Tail(input)
  /\ UNCHANGED <<phase, cur, rid, storageVars, redisVars, history>>

Take(w) ==
  /\ ProcessorRunning
  /\ input # <<>>
  /\ Goto(w, "wait", "dedupe")
  /\ cur' = [cur EXCEPT ![w] = Head(input)]
  /\ input' = Tail(input)
  /\ UNCHANGED <<phase, rid, storageVars, redisVars, history>>

WorkerExit(w) ==
  /\ ~ProcessorRunning
  /\ Goto(w, "wait", "exited")
  /\ UNCHANGED <<phase, input, cur, rid, storageVars, redisVars, history>>

(* Calls on the one redisContext that no lock protects: if another worker   *)
(* stands at a Redis call, or an HTTP thread searches, commands and replies *)
(* may mix, and from then on the connection answers anything.               *)
RedisCalling(w) == redisUp /\ pc[w] \in {"dedupe", "vector", "mark"}
Contended(w) == Searches \/ \E v \in Workers \ {w} : RedisCalling(v)
RedisCall(w) == torn' = torn \/ (Contended(w) /\ torn' = TRUE)

DropDuplicate(w) ==
  /\ Finish(w, "dedupe")
  /\ UNCHANGED <<phase, input, storageVars, redisUp, dup, vecs, accepted>>

Pass(w) ==
  /\ Goto(w, "dedupe", "enqueue")
  /\ UNCHANGED <<phase, input, cur, rid, storageVars, redisUp, dup, vecs, history>>

(* Mutant: the duplicate check sets the key at once (SADD for SISMEMBER).   *)
DedupeRedisMarks(w) ==
  /\ redisUp
  /\ Goto(w, "dedupe", "enqueue")
  /\ Key[cur[w]] \notin dup
  /\ dup' = dup \cup {Key[cur[w]]}
  /\ UNCHANGED <<phase, input, cur, rid, storageVars, redisUp, torn, vecs, history>>

(* Step 1 of do_process with Redis: is_duplicate, which answers "no" also   *)
(* when the call fails.                                                     *)
DedupeRedis(w) ==
  /\ redisUp
  /\ RedisCall(w)
  /\ \/ Pass(w)
     \/ /\ Key[cur[w]] \in dup
        /\ DropDuplicate(w)
        /\ UNCHANGED lost
     \/ torn' /\ DropDuplicate(w) /\ lost' = lost \cup {cur[w]}

(* Step 1 without Redis: message_exists, which waits for db_mutex_.         *)
DedupeSQLite(w) ==
  /\ ~redisUp
  /\ ~flushing
  /\ IF \E m \in Stored : Hash[m] = Hash[cur[w]]
       THEN DropDuplicate(w) /\ UNCHANGED lost
       ELSE Pass(w)
  /\ UNCHANGED torn

(* Step 2: enqueue_message, then last_insert_id on the shared connection.   *)
Enqueue(w) ==
  /\ Goto(w, "enqueue", "rowid")
  /\ queue' = Append(queue, cur[w])
  /\ UNCHANGED <<phase, input, cur, rid, stage, flushing, batch, txn, rows,
                 lastId, lastRowid, redisVars, history>>

ReadRowid(w) ==
  /\ IF redisUp
       THEN /\ Goto(w, "rowid", "embed")
            /\ rid' = [rid EXCEPT ![w] = lastRowid]
            /\ UNCHANGED cur
       ELSE Finish(w, "rowid")
  /\ UNCHANGED <<phase, input, storageVars, redisVars, history>>

(* Step 3: embed; its exception is caught and only logged.                  *)
EmbedOk(w) ==
  /\ Goto(w, "embed", "vector")
  /\ UNCHANGED <<phase, input, cur, rid, storageVars, redisVars, history>>

EmbedFail(w) ==
  /\ Finish(w, "embed")
  /\ UNCHANGED <<phase, input, storageVars, redisVars, history>>

(* HMSET vec:<id> replaces whatever the hash of that id held.  Nobody looks *)
(* whether it, or the SADD that follows, has failed.                        *)
AddVector(w) ==
  /\ RedisCall(w)
  /\ Goto(w, "vector", "mark")
  /\ \/ vecs' = {v \in vecs : v.id # rid[w]} \cup {[id |-> rid[w], msg |-> cur[w]]}
     \/ UNCHANGED vecs
  /\ UNCHANGED <<phase, input, cur, rid, storageVars, redisUp, dup, history>>

MarkDuplicate(w) ==
  /\ RedisCall(w)
  /\ Finish(w, "mark")
  /\ \/ dup' = dup \cup {Key[cur[w]]}
     \/ UNCHANGED dup
  /\ UNCHANGED <<phase, input, storageVars, redisUp, vecs, history>>

(* EXPIRE is set on the group's set: all of its keys go at once.            *)
DupKeyExpires(g) ==
  /\ \E k \in dup : GroupOf[k] = g
  /\ dup' = {k \in dup : GroupOf[k] # g}
  /\ UNCHANGED <<phase, workerVars, storageVars, redisUp, torn, vecs, history>>

-----------------------------------------------------------------------------
(* SQLiteStorage: worker_loop, flush_batch, shutdown.                       *)

AfterFlush == [serve |-> "serve", exit |-> "final", final |-> "closed", closed |-> "closed"]

(* Mutant: the loop waits for a full batch, without the 500 ms timeout.     *)
MayFlushFullBatch ==
  /\ ~flushing
  /\ \/ stage = "serve" /\ StorageRunning /\ Len(queue) >= BatchSize
     \/ stage \in {"exit", "final"}

MayFlush ==
  /\ ~flushing
  /\ \/ stage = "serve" /\ StorageRunning
     \/ stage \in {"exit", "final"}

(* Mutant: the last message of the batch stays in the queue.                *)
FlushTakeKeeps ==
  LET n == IF Len(queue) < BatchSize THEN Len(queue) ELSE BatchSize IN
  /\ MayFlush
  /\ queue # <<>>
  /\ batch' = SubSeq(queue, 1, n)
  /\ queue' = SubSeq(queue, n, Len(queue))
  /\ flushing' = TRUE
  /\ UNCHANGED <<phase, workerVars, stage, txn, rows, lastId, lastRowid, redisVars, history>>

(* Mutant: one message more leaves the queue than enters the batch.         *)
FlushTakeSkips ==
  LET n == IF Len(queue) < BatchSize THEN Len(queue) ELSE BatchSize IN
  /\ MayFlush
  /\ queue # <<>>
  /\ batch' = SubSeq(queue, 1, n)
  /\ queue' = SubSeq(queue, n + 2, Len(queue))
  /\ flushing' = TRUE
  /\ UNCHANGED <<phase, workerVars, stage, txn, rows, lastId, lastRowid, redisVars, history>>

FlushTake ==
  LET n == IF Len(queue) < BatchSize THEN Len(queue) ELSE BatchSize IN
  /\ MayFlush
  /\ queue # <<>>
  /\ batch' = SubSeq(queue, 1, n)
  /\ queue' = SubSeq(queue, n + 1, Len(queue))
  /\ flushing' = TRUE
  /\ UNCHANGED <<phase, workerVars, stage, txn, rows, lastId, lastRowid, redisVars, history>>

(* worker_loop leaves its loop and calls flush_batch once more.             *)
LoopExit ==
  /\ stage = "serve" /\ ~flushing
  /\ ~StorageRunning /\ phase # "down"
  /\ stage' = "exit"
  /\ UNCHANGED <<phase, workerVars, queue, flushing, batch, txn, rows, lastId,
                 lastRowid, redisVars, history>>

(* The two flush_batch calls after the loop, when they find nothing to do.  *)
FlushNothing ==
  /\ stage \in {"exit", "final"} /\ ~flushing
  /\ queue = <<>>
  /\ stage' = AfterFlush[stage]
  /\ UNCHANGED <<phase, workerVars, queue, flushing, batch, txn, rows, lastId,
                 lastRowid, redisVars, history>>

(* Mutant: uniqueness is tested against committed rows only.                *)
HashCommitted(m) == \E n \in Stored : Hash[n] = Hash[m]

HashTaken(m) == \E n \in Stored \cup Range(txn) : Hash[n] = Hash[m]

InsertRow ==
  /\ flushing /\ batch # <<>>
  /\ ~HashTaken(Head(batch))
  /\ batch' = Tail(batch)
  /\ txn' = Append(txn, Head(batch))
  /\ lastRowid' = lastId + Len(txn) + 1
  /\ UNCHANGED <<phase, workerVars, queue, stage, flushing, rows, lastId, redisVars, history>>

(* UNIQUE(msg_hash) fails: a warning, the message is dropped.               *)
RejectRow ==
  /\ flushing /\ batch # <<>>
  /\ HashTaken(Head(batch))
  /\ batch' = Tail(batch)
  /\ UNCHANGED <<phase, workerVars, queue, stage, flushing, txn, rows, lastId,
                 lastRowid, redisVars, history>>

(* sqlite3_step fails for another reason (disk full, I/O): same warning.    *)
InsertFails ==
  /\ flushing /\ batch # <<>>
  /\ batch' = Tail(batch)
  /\ lost' = lost \cup {Head(batch)}
  /\ UNCHANGED <<phase, workerVars, queue, stage, flushing, txn, rows, lastId,
                 lastRowid, redisVars, accepted>>

(* SQLite may undo the whole transaction when the disk is full, at an       *)
(* insert or at the COMMIT, whose result is not looked at.  (What is        *)
(* inserted after that commits row by row; db_mutex_ hides the difference.) *)
RollBack ==
  /\ flushing /\ txn # <<>>
  /\ txn' = <<>>
  /\ lost' = lost \cup Range(txn)
  /\ UNCHANGED <<phase, workerVars, queue, stage, flushing, batch, rows, lastId,
                 lastRowid, redisVars, accepted>>

Commit ==
  /\ flushing /\ batch = <<>>
  /\ rows' = rows \cup {[id |-> lastId + i, msg |-> txn[i]] : i \in DOMAIN txn}
  /\ lastId' = lastId + Len(txn)
  /\ txn' = <<>>
  /\ flushing' = FALSE
  /\ stage' = AfterFlush[stage]
  /\ UNCHANGED <<phase, workerVars, queue, batch, lastRowid, redisVars, history>>

(* Inserts into the other tables over the same connection, by threads that  *)
(* do not take db_mutex_ (save_memory, mark_importance).                    *)
OtherInsert ==
  /\ phase = "up"
  /\ \E i \in OtherIds : i # lastRowid /\ lastRowid' = i
  /\ UNCHANGED <<phase, workerVars, queue, stage, flushing, batch, txn, rows, lastId,
                 redisVars, history>>

(* cleanup_old_data: rows and vectors older than the cutoff are deleted, by *)
(* an HTTP thread, which uses the redisContext like any other.              *)
Cleanup ==
  /\ phase = "up" /\ ~flushing
  /\ \E r \in rows : r.msg \in Aged
  /\ rows' = {r \in rows : r.msg \notin Aged}
  /\ lost' = lost \cup (Stored \cap Aged)
  /\ vecs' = IF redisUp THEN {v \in vecs : v.msg \notin Aged} ELSE vecs
  /\ torn' = torn \/ ((\E v \in Workers : RedisCalling(v)) /\ torn' = TRUE)
  /\ UNCHANGED <<phase, workerVars, queue, stage, flushing, batch, txn, lastId, lastRowid,
                 redisUp, dup, accepted>>

-----------------------------------------------------------------------------
(* ChatDatabase: shutdown, crash, restart.                                  *)

(* MessageProcessor::stop: running_ = false, then join.                     *)
StopProcessor ==
  /\ phase = "up"
  /\ phase' = "draining"
  /\ UNCHANGED <<workerVars, storageVars, redisVars, history>>

(* The joins are over; SQLiteStorage::shutdown sets its running_ = false.   *)
StopStorage ==
  /\ phase = "draining"
  /\ \A w \in Workers : pc[w] = "exited"
  /\ phase' = "closing"
  /\ UNCHANGED <<workerVars, storageVars, redisVars, history>>

(* The process is gone, and with it all it held in memory; an open          *)
(* transaction is rolled back.                                              *)
ProcessGone ==
  /\ phase' = "down"
  /\ lost' = lost \cup Volatile
  /\ input' = <<>> /\ queue' = <<>> /\ batch' = <<>> /\ txn' = <<>>
  /\ pc' = [w \in Workers |-> "exited"]
  /\ cur' = [w \in Workers |-> NoMsg]
  /\ rid' = [w \in Workers |-> 0]
  /\ flushing' = FALSE
  /\ lastRowid' = 0
  /\ stage' = "closed"
  /\ torn' = FALSE
  /\ UNCHANGED <<rows, lastId, redisUp, dup, vecs, accepted>>

Exit  == phase = "closing" /\ stage = "closed" /\ ProcessGone
Crash == phase # "down" /\ ProcessGone

(* Rows and Redis keys survive from the previous run, except the vectors:   *)
(* create_vector_index drops the index together with its documents.         *)
Restart ==
  /\ phase = "down"
  /\ FreshProcess
  /\ vecs' = IF redisUp' /\ RediSearch THEN {} ELSE vecs
  /\ UNCHANGED <<input, cur, rid, queue, flushing, batch, txn, rows, lastId,
                 lastRowid, torn, dup, history>>

-----------------------------------------------------------------------------
WorkerStep(w) ==
  \/ Take(w) \/ WorkerExit(w)
  \/ (pc[w] = "dedupe" /\ (DedupeRedis(w) \/ DedupeSQLite(w)))
  \/ Enqueue(w) \/ ReadRowid(w)
  \/ EmbedOk(w) \/ EmbedFail(w)
  \/ AddVector(w) \/ MarkDuplicate(w)

StorageStep ==
  \/ FlushTake \/ LoopExit \/ FlushNothing
  \/ InsertRow \/ RejectRow \/ InsertFails \/ RollBack \/ Commit

MainStep ==
  OtherInsert \/ Cleanup \/ StopProcessor \/ StopStorage \/ Exit \/ Crash \/ Restart

Next ==
  \/ \E m \in Msgs : Receive(m)
  \/ \E w \in Workers : WorkerStep(w)
  \/ \E g \in Groups : DupKeyExpires(g)
  \/ StorageStep
  \/ MainStep

Spec == Init /\ [][Next]_vars
-----------------------------------------------------------------------------
(* Properties *)

(* Two copies of a message can both pass the duplicate check, which reads   *)
(* neither the write queue nor the other worker's hands; still no two rows  *)
(* have the same msg_hash, across crashes, restarts and rollbacks.          *)
UniqueHash ==
  /\ \A r, s \in rows : Hash[r.msg] = Hash[s.msg] => r = s
  /\ \A i, j \in DOMAIN txn : Hash[txn[i]] = Hash[txn[j]] => i = j
  /\ \A r \in rows, i \in DOMAIN txn : Hash[r.msg] # Hash[txn[i]]

(* What the duplicate check promises: a key Redis answers "duplicate" for   *)
(* belongs to a message that is stored or on its way into the table, unless *)
(* a failure or a cleanup removed that message after the key was set.       *)
DuplicateKeysBacked == \A k \in dup : Backed(k) \/ k \in LostKeys

(* No content disappears in normal operation: a message receive_message     *)
(* took is still to be decided, or a message of the same group and content  *)
(* is stored or on its way, or a failure or a cleanup removed such a        *)
(* message.                                                                 *)
NoContentLost ==
  \A m \in accepted : m \in Undecided \/ Backed(Key[m]) \/ Key[m] \in LostKeys

(* A message is in one place at a time, and in it once: no worker, queue,   *)
(* batch or transaction has what another has, or what is already stored.    *)
OnePlace ==
  /\ \A s \in {input, queue, batch, txn} : IsInjective(s)
  /\ \A v, w \in Holding : cur[v] = cur[w] => v = w
  /\ Range(input) \cap Held = {}
  /\ Undecided \cap (Buffered \cup Stored) = {}
  /\ Buffered \cap Stored = {}
  /\ Range(queue) \cap (Range(batch) \cup Range(txn)) = {}
  /\ Range(batch) \cap Range(txn) = {}
  /\ Volatile \cup Stored \subseteq accepted

(* The inductive invariant behind NoContentLost: what a worker has enqueued *)
(* is covered until it sets the duplicate key, the buffers of flush_batch   *)
(* are empty outside of its transaction, no thread outlives the process,    *)
(* and the table hands out its ids upwards.                                 *)
IdsAssigned ==
  /\ \A r \in rows : r.id \in 1 .. lastId
  /\ \A r, s \in rows : r.id = s.id => r = s
Covered(k) == \E m \in Buffered \cup Stored \cup lost : Key[m] = k
IdleBuffers == ~flushing => batch = <<>> /\ txn = <<>>
DownIdle == phase = "down" => \A w \in Workers : pc[w] = "exited"
EnqueuedCovered ==
  \A w \in Workers :
    pc[w] \in {"rowid", "embed", "vector", "mark"} => Covered(Key[cur[w]])
IInv ==
  TypeOK /\ IdleBuffers /\ DownIdle /\ UniqueHash /\ IdsAssigned
  /\ EnqueuedCovered /\ DuplicateKeysBacked /\ NoContentLost

(* Every message taken in reaches the table, itself or one of the same      *)
(* group and content, while the process runs and no call fails.             *)
ContentStored(m) == \E n \in Stored : Key[n] = Key[m]
EventuallyStored ==
  \A m \in Msgs :
    m \in accepted ~> (ContentStored(m) \/ Key[m] \in LostKeys \/ phase # "up")

(* The pipeline implements MessageStore: queues, batches and workers only   *)
(* hold pending messages, and a message leaves them as MessageStore says.   *)
Abstract == INSTANCE MessageStore WITH pending <- Volatile, stored <- Stored, failed <- lost
ImplementsStore == Abstract!StoreSpec

(* Fairness: threads are scheduled, and every call in a worker returns      *)
(* (embed gives up after max_retries, waits for the database end).          *)
FairSpec ==
  /\ Spec
  /\ \A w \in Workers : WF_vars(WorkerStep(w))
  /\ WF_vars(StorageStep)

(* What a comment says and the code does not do. *)

(* sqlite_storage.hpp:66, last_insert_id is "the id last inserted", and     *)
(* do_process files the vector of the message it has just written under it. *)
VectorsMatchRows ==
  \A v \in vecs, r \in rows : v.id = r.id => v.msg = r.msg
=============================================================================
