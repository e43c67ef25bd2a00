# chatdb: TLA+ models, model checking and proofs

chatdb stores chat messages (from HTTP clients or a OneBot websocket) in SQLite,
embeds them with a local Ollama model, keeps the vectors and a duplicate set in
Redis, answers full-text, semantic and hybrid searches, and condenses the
messages into memories of six levels. It is a program of many threads around
three shared stores, with almost no tests of what the threads do to each other.
That is what these modules are about.

Paths are relative to the repository (`src/*.cpp`, `include/chatdb/*.hpp`).
`tlc -workers 2 -config X.cfg MCModule` repeats a run, `tlapm M.tla` a proof.

## 1. The system

| component | state | operations | talks to |
|---|---|---|---|
| **MessageProcessor** (`message_processor.cpp`) | `input_queue_`, `running_`, two worker threads | receive_message(s), do_process (duplicate check, enqueue, embed, vector, mark), start, stop | SQLiteStorage, RedisClient, OllamaClient |
| **SQLiteStorage** (`sqlite_storage.cpp`) | one connection, `queue_` and its flush thread, tables messages, embeddings, FTS index | enqueue_message, flush_batch, message_exists, queries, cleanup, backup, shutdown | all others share its connection |
| **RedisClient** (`redis_client.cpp`) | one `redisContext`, not locked; in the server `dup:<group>` sets and `vec:<id>` hashes | is_duplicate, mark_duplicate, add_vector, search_similar, cleanup, create_vector_index | used by workers and HTTP threads at once |
| **OllamaClient** (`ollama_client.cpp`) | task queue, worker threads | embed (retries), embed_async, generate | Ollama over HTTP |
| **QueryEngine** (`query_engine.cpp`) | none | search, search_hybrid (async full text + semantic), merge_results, get_context | SQLiteStorage, RedisClient, embedding provider |
| **MemorySummarizer** (`memory_summarizer.cpp`) | `task_queue_`, a worker and a cron thread; tables memories, memory_msg_links, msg_importance | summarize_now, do_summarize and its levels (text templates), handle_recall, mark_importance, get, search, merge, delete, update | SQLiteStorage's connection, mostly without its mutex |
| **EmbeddingProviderManager** (`embedding_provider.cpp`) | map of providers, current one | register, remove, switch_to with callbacks | QueryEngine, HttpServer (event) |
| **HttpServer** (`http_server.cpp`) | `sse_clients_` with their queues | request handlers, broadcast_event, start, stop | all parts |
| **OneBotV11Client** (`onebot_v11_client.cpp`) | websocket, reconnection | handle_payload, post_message, notice events | ChatDatabase, MemorySummarizer |
| **ChatDatabase** (`chat_database.cpp`) | owns all parts, `ready_` | initialize, shutdown, cleanup_old_data, backup_index, restore_index | all parts |
| **ProcessGuard** (`process_guard.cpp`) | known processes, a scan thread | guard_loop, scan | OS, callbacks |
| **PortDetector** (`port_detector.cpp`) | none | detect_port: probe, look for the process, or ask on the standard input and wait | initialize(), the user |
| Config, EmbeddingCache, LSHHelper, main | | parsing, socket probes, unused helpers, options | |

What makes them correct, and what is hard about it:

* **Pipeline** (MessageProcessor, SQLiteStorage, RedisClient). A message goes
  through two queues, a worker and a transaction; the duplicate check reads
  Redis or the table but never the queues, so copies race past it; Redis keys
  survive a crash which the rows do not; the key of a whole group expires at
  once; the Redis connection is used without a lock; the storage thread is
  notified only for a full batch. Nothing may be stored twice, nothing may
  disappear unless something failed, and every message must reach the table.
* **Worker pools** (five of them, the same loop). A push notifies one thread,
  workers wake spuriously, the predicate is looked at before blocking, stop
  notifies without the mutex. Nobody may pop an empty queue, work must not lie
  while everybody sleeps, stop must return.
* **Hybrid search.** Two searches over two stores read at different times, next
  to inserts and a cleanup in two steps. The answer must consist of messages
  that were there, and a strong hit must not be missing without a reason.
* **Memories.** An archive fed by a clock and by recalls, over a connection on
  which another thread opens transactions: a statement of one thread commits or
  rolls back with the transaction of another, and the connection's last rowid is
  everybody's. A saved memory must stay until somebody deletes it, and its links
  must lead to it and to nothing else. The queue of summaries is pushed to with
  and without its mutex, and its worker sleeps without a timeout.
* **Provider switch and events.** Callbacks outside the lock, event queues with
  a timeout, vectors of an old model.
* **Start and stop.** initialize() may ask the user for a port first; threads of
  parts already built run while later ones are missing; requests and events come
  before `ready_` and during shutdown, and half of the calls do not ask `ready_`;
  shutdown runs from main, from the destructor, and from a signal handler on top
  of either, or of initialize(). Who is at work must find the parts it calls,
  nothing may run when main has returned, a signal may be fatal in known places
  only, and what starting and stopping may wait for must be known.
* **Process guard.** A scan that reads /proc entry by entry while processes come
  and go, and several processes of one name. What runs must be listed, once.

## 2. Plan

Order, most important behaviour first; each module names its constants'
assumptions, has one action per operation and no RECURSIVE operator.

1. `MessagePipeline`, with the abstract `MessageStore` it implements. *Done.*
2. `WorkerPool`, the loop of all pools. *Done.*
3. `HybridSearch`. *Done.*
4. Proofs about 1 and 2 (`MessagePipelineProofs`, `MessageStoreProofs`,
   `WorkerPoolProofs`). *Done: every safety property of the pipeline, its
   refinement of `MessageStore`, and the pool's invariants.*
5. `ProviderEvents`: switch_to, its callbacks, the clients' event queues. *Done.*
6. `SummarySchedule`, the queue and the clock of the summarizer, and
   `MemoryArchive`, what its tasks and its callers do to the tables, with
   `MemoryArchiveProofs`. *Done.*
7. `HttpServer`, `OneBotV11Client`, `ProcessGuard`, and `ChatDatabase`, which
   composes them with main and the life of the other parts, with
   `ChatDatabaseProofs`. *Done.*
8. The model with which queries are embedded, in `HybridSearch`. *Done.*
9. Proofs of what 3, 5, 6 and 7 promise (`HybridSearchProofs`,
   `ProviderEventsProofs`, `SummaryScheduleProofs`, and more in
   `MemoryArchiveProofs` and `ChatDatabaseProofs`). *Done: every safety property
   that a run checks is stated by a theorem, and so is the clock of the
   summarizer queueing nothing.*
10. What an abstract specification of the composed parts could say beyond their
    invariants: that shutdown() refines "callers stop before what they call",
    and that an answer of a search is one over some set of rows between its
    beginning and its end. *Open.*

## 3. What is modelled

### MessagePipeline (and MessageStore)

State: `input` is `input_queue_`; `pc`, `cur`, `rid` are a worker's place in
`do_process`, its message and `result.id`; `queue`, `batch`, `txn`, `flushing`
are SQLiteStorage's `queue_` and the local batch and open transaction of
`flush_batch`; `stage` says which `flush_batch` call comes next (the loop's, the
one after the loop, shutdown's); `rows`, `lastId` the committed table and its
AUTOINCREMENT counter, which both roll back; `lastRowid` the connection's
`sqlite3_last_insert_rowid`; `dup`, `vecs` the Redis sets and hashes; `phase`
the main thread. Two variables are history: `accepted`, and `lost`, the messages
that a crash, a failed insert, a transaction SQLite undid, an orderly shutdown
with a full queue, a mixed-up Redis reply or a cleanup removed.

| action | code |
|---|---|
| Receive, Take, WorkerExit | receive_message(s), the top of MessageProcessor::worker_loop |
| DedupeRedis, DedupeSQLite | step 1 of do_process: is_duplicate, or message_exists without Redis |
| Enqueue, ReadRowid | step 2: enqueue_message, then last_insert_id |
| EmbedOk, EmbedFail, AddVector, MarkDuplicate | step 3 and 4 |
| DupKeyExpires | the EXPIRE of mark_duplicate |
| FlushTake, InsertRow, RejectRow, InsertFails, RollBack, Commit, FlushNothing, LoopExit | flush_batch and SQLiteStorage::worker_loop |
| OtherInsert | save_memory and mark_importance on the same connection |
| Cleanup | ChatDatabase::cleanup_old_data |
| StopProcessor, StopStorage, Exit, Crash, Restart | shutdown, the end of the process, initialize |

Two threads on the one `redisContext` are undefined behaviour. The model lets
any two that may overlap set `torn`, after which every reply is arbitrary until
the process ends; it never lets a mixed reply pass for a right one. A call that
fails (no reply, or an error) leaves the message to be written as if it were new,
which an arbitrary reply includes.

When the disk is full SQLite may undo the whole transaction, at an insert or at
the COMMIT, and `flush_batch` looks at neither result: RollBack drops what was
inserted so far, in any state of a flush. What is inserted after that commits row
by row, which only a crash before the COMMIT could tell from a transaction, since
db_mutex_ is held until then; the model keeps it in `txn`.

`MessageStore` is what the pipeline promises: a message is pending, then stored,
or discarded because one of the same content is there, or failed. A crash turns
whatever is pending into failed.

Abstractions: messages with equal hashes have equal group and content (no hash
collisions); each message of `Msgs` is handed over once (two copies are two
messages); the callbacks of the processor, which main sets after the workers run,
only write a log and are left out.

### WorkerPool

`MessageProcessor`, `SQLiteStorage`, `OllamaClient` and `MemorySummarizer` wait
for work in the same way. The module has the mutex, the predicate's evaluation,
blocking and being notified as separate steps, and a spurious wakeup. What
differs from pool to pool is a record: its threads, timed or untimed wait, how
many tasks are taken at once, from which length on a push notifies, how many
tasks one push appends. `pool`, chosen at the start from the set Pools, is the
one a behaviour is about, so one run covers all of them. `ClearRunning`,
`NotifyAll` and `Join` are stop(), which holds no mutex: without a timeout a
worker between its look at the predicate and its sleep misses the notification
and is joined for ever (MissesStop), which is the one exception in StopReturns.
The storage thread's unlocking between its wait and `flush_batch` is part of
TakeTasks: it is the only consumer. MaxPushed bounds the number of tasks ever
pushed.

### HybridSearch

One search at a time, next to any number of steps of the rest of the program
(StoreRow, FileVector, CleanRows, CleanVectors). FullText is the asynchronous
half and ends at any time before the merge; ListKeys, ReadVector (one per key),
Rank, LookUp (one per candidate) are the semantic half; Merge is merge_results.
An HMGET that fails (ReadFails) skips its key: the message is then no longer
`steady`, the history variable for what was there, with its own vector, all the
time and could be read. StrongHitsReturned compares with the very score the code
gives (ScoreOf, a double hit's full-text weight applied twice). A vector is
filed under any id, since it is in the program (VectorsMatchRows below).
`queried` is the provider that embeds the query, any one for each search, since
switches may come in between; the stored vectors are those of the messages'
OllamaClient, and SameSize are the providers whose vectors are as long. Scores
are the code's floats times 10000, similarities percentages; an order among
equals is any. The Redis half of a cleanup is one step, and the unlocked
connection is left to MessagePipeline.

### ProviderEvents

`current` is the manager's `current_`, `calls` what each HTTP thread has still to
announce after it left the lock, `clients`, `active`, `events` are HttpServer's
list and each SseClient's flag and queue, `stream` and `hand` the place of the
thread that serves a stream and the event it has popped, `server` how far stop()
is. `sent`, `got` and `owed` are history.

| action | code |
|---|---|
| Switch | EmbeddingProviderManager::switch_to under its lock; the early returns change nothing and are not steps |
| Announce | the callback after the lock: broadcast_event to each registered client whose stream still exists |
| Register, Greet | handle_sse_events |
| Look, Pop, Write | the content provider's loop, SseClient::pop, the write of one event |
| Disconnect | the client closes its connection |
| ClearServerRunning, DropClients, Joined | HttpServer::stop |

DataSink::write belongs to cpp-httplib (v0.15.3 in CMakeLists.txt) and is
modelled from how http_server.cpp uses its answer: a bool. Each client opens one
stream, EventSize is the length of an event's text, MaxSwitches bounds the
switches. pop's wait is part of returning empty-handed. Only stop() removes a
client from the list; an expired weak_ptr is a stream that has ended.

### SummarySchedule

`tasks` is `task_queue_`; `worker` is the place of the worker thread in
`worker_loop`, whose look at the predicate and whose blocking are two steps;
`telling` the callers between unlock and notify_one in summarize_now; `cron` and
`last` the cron thread and its three times; `phase` the life of the component.
`idle` is history: how long ago the cron last queued a level.

| action | code |
|---|---|
| SummarizeNow, Tell | summarize_now: push under the mutex, notify after it |
| WorkerTake, WorkerFindsNothing, WorkerSleeps, WorkerDone, WorkerExit | worker_loop |
| CronRound, CronNotify, CronExit | cron_loop: one round, its notification, its end |
| Stop, StopNotifies, Joined, Start | stop (no mutex), start |

The cron pushes without queue_mutex_. That is a data race with a caller's push
and with the worker's pop; the model takes from it what a race of pushes
leaves, the cron's tasks in part, and the last of a caller possibly overwritten,
and not a queue whose memory is corrupted. Time is counted in rounds of a
minute; LongestSleep bounds how long one round may take, MaxTasks the queue.

### MemoryArchive

`db` is the database as the one connection sees it: messages (their groups),
memories, the AUTOINCREMENT counter of memories, links; `open` and `base` are
flush_batch's transaction and what a crash goes back to; `lastRowid` is the
connection's. Each thread that saves (`Callers`, `Worker`) has a place `pc` in
the code, the memory it saves, `job`, and what its loop has left, `left`.
`saves`, `finished`, `removed`, `unlinked`, `risky`, `lost` are history.

| action | code |
|---|---|
| BeginFlush, InsertMessage, CommitFlush | SQLiteStorage::flush_batch |
| Recall, MarkImportance, DeleteMemory, MergeMemories, MergeDeletes, MergeReturns | handle_recall, mark_importance, delete_memory, merge_memories, called by HTTP and OneBot threads |
| StartSummary, Query, Collect | worker_loop, do_summarize and the functions of the levels |
| InsertMemory, InsertMemoryFails, ReadRowid, LinkMessage, LinkFails, SaveReturns | save_memory, one step for each statement |
| Close, Crash, Restart | shutdown, the end of the process, initialize |

Every statement outside a transaction commits by itself; between BEGIN and
COMMIT of the storage thread it is part of that transaction, whoever issues it:
save_memory, mark_importance, delete_memory and merge_memories do not take
db_mutex_. query_by_group_time does, so Query and Collect wait for the COMMIT.

Abstractions: timestamps are the clients', so the window of a task holds any of
its group's messages; texts, scores and categories are left out; of
msg_importance, which nothing reads, only the effect on lastRowid is kept;
statements that fail and change nothing are steps only where a loop goes on
(LinkFails) or a caller is told (InsertMemoryFails). The messages a cleanup
deletes are MessagePipeline's subject. Which tasks are queued is
SummarySchedule's; here the worker may get any task at any time.

### HttpServer, OneBotV11Client, ProcessGuard, ChatDatabase

`ChatDatabase` extends the other three and has main(), initialize() and
shutdown(). The parts with modules of their own above count only with their life
here: `part` says of each whether it is there, asked to stop, or stopped, `busy`
which pools' threads are at work. `main` and `step` are the place in main() and
initialize(), `stack` the activations of shutdown() (main's or the destructor's,
and the signal handler's on top), each with the part it is at and how far it is
with it; `cmd` the call main() makes for an option or a command, `inner` the part
whose mutex or call a signal caught main() in, or that it was just building.
`missed` are the pools with a thread that missed the notification of stop(),
`lostDb` says that the signal handler closed the database which main() was
opening. `sigAt` remembers where a signal came; it also is `g_running`.

| action | code |
|---|---|
| PortFound, AskUser, Answered | detect_and_connect_ports, for Redis and then for Ollama: a port is found, or the user is asked and at some time types a line |
| BuildPart, StorageFails, BuildHttp, HttpWaitEnds, BuildWs, WsWaitEnds, BuildGuard, FinishInit | initialize(), with HttpServer::start, OneBotV11Client::connect and ProcessGuard::start |
| RunOption, OptionDone, Interactive, Type, CommandReturns, Quit, Leave | main(): options that run one call and return, the loop of commands, the way out |
| StopPart, Join, Close, Finish | shutdown(): `if (x_) x_->stop()` for each part, the joins, what follows a join, disconnect |
| Signal, SignalTooLate, Crash | signal_handler: shutdown() on top of main(), or on a database that is gone; a second join, a freed connection |
| Undo, CloseUnderMain, NoDatabase | the handler's shutdown() on a part that main() is building, or on the database in the middle of main()'s statement; a call through the null `db_` that it leaves |
| WokenUp | a thread that missed a notification wakes up after all |
| Request, HttpThread (Bind, ListenReturns, Enter, Return) | the listening thread and a request as the calls its handler makes |
| Event, Connection, WsThread (Open, Closed, Hand, Handled, LibraryEnds) | the websocket's thread and its callback |
| Machine, Guarding (GuardLooks, ReadEntry, ScanEnds, Note, AllNoted, GuardWakes) | processes, and ProcessGuard::guard_loop |
| Work, WorkDone | a thread of the processor or the summarizer with a task |

Every call of ChatDatabase is the set of parts it uses, once with the check of
`ready_` (GatedUses) and once without (UngatedUses); Enter and Hand are the
check, Return and Handled the end of the call. One request at a time stands for
all of them: requests share nothing but what their calls touch, and one meets
every step of main() and the pools.

The guard's command lines are sequences of arguments. `scan_processes` makes a
string of the buffer that /proc returns, and the string ends at the first NUL
(`process_guard.cpp:149-161`), so only the first argument is searched (Searched):
a script is not found under its interpreter. What has ended is in no scan, so the
branch that reports DOWN is never taken, and is not an action.

Assumptions. A signal to the process is handled in its main thread (the kernel
prefers it, and no thread blocks signals), and what the handler itself allocates
and logs does no harm. Building a part is one step; a signal in the middle of
one is a signal before it, with `inner` the part. Of the parts so caught, those
whose connection, vector of threads or client shutdown() takes apart (Fragile)
may crash the program. `auto_detect_ports` is either way. The 100 ms that
start() sleeps are enough for the new thread to reach listen(). httplib's stop()
does nothing before the server listens, its listen() returns when the last
handler has; the websocket library ends its thread after the callback in
progress, and reads finitely many more events once it is told to stop. Calls of
Redis, Ollama and SQLite return. A crash is a state of its own, `main =
"crashed"`.

Deliberately coarse: the undefined behaviour of two threads on one
`redisContext` is MessagePipeline's; ready_ is a plain bool and read as one that
is written at once.

## 4. What the runs show

| run | configuration | shows |
|---|---|---|
| pipeline | 3 messages (two copies), 2 workers, batches of 2 | TypeOK, UniqueHash, DuplicateKeysBacked, NoContentLost, OnePlace |
| pipeline_store | 2 copies, cleanup of the first, a memory's insert; fair threads | ImplementsStore, EventuallyStored |
| pools | 6 tasks in each of four pools: 2 processor threads with pushes of up to 2, 2 embedding threads, 1 summarizer thread, all untimed; 1 storage thread, timed, batches of 2, notified from 2 on, pushes of up to 3; fair threads | PoolTypeOK, PopsSomething, NoSleepingOnWork, Served, StopReturns |
| search | 3 messages, two groups, two providers, a search of one group or of all, limit 1 | SearchTypeOK, LiveAnswer, StrongHitsReturned, DoubleHitsFirst, OtherSizeIsFullText |
| provider_events | 3 providers, 2 threads, 4 switches, 1 client | EventsTypeOK, EventsAccountForCurrent, OpenStreamsComplete |
| memory | 1 caller and the worker, 2 messages, 2 saves, levels 3h and 12h | ArchiveTypeOK, SavedUntilDeleted, LinksKeepTheirMemory, FoundByReference |
| schedule | 1 caller, 2 levels with intervals 2 and 3, rounds of up to 3, 3 tasks; fair threads | ScheduleTypeOK, QueuedTaskServed |
| chatdb | requests post_messages, get_context and post_cleanup; commands cleanup, switch and backup; any 3 inputs, 1 process that runs throughout; fair threads | TypeOK, UsersFindParts, NothingRunsAtExit, CrashesOnlyWhenNested, CallbacksHaveSocket, DropsOnlyBeforeReady, InitializeReturns, ShutdownReturns |
| process_guard | 2 processes under 2 names, one part of the other, one process with the second name in an argument only; 2 inputs, which are events, tasks, a signal, or a process that starts or ends; fair threads | OneEntryPerName, ScanMissesNobody, RunningOnesAreListed |

Bounds. Three messages with two copies make every order of a check, an enqueue,
an insert and a mark of a message and its copy with an unrelated one in the same
or another batch; crashes and restarts are not bounded. The two workers, and the
two copies, differ in nothing the model looks at, so their permutations are a
symmetry of this run. Two copies suffice for the store, whose promise is per
content. Two threads and six tasks contain every order of a notification and a
worker that is not waiting for it; six tasks at batches of two fill the storage
queue beyond one batch. Three messages with limit 1 let candidates exceed twice
the limit and both halves disagree. Four switches by two threads contain every
order of two overlapping switches and their announcements, before and after the
client registered; clients share nothing but the list, so one is enough. Two
saves by two threads, two messages and unbounded crashes contain every order of
two saves with a deletion between them, an id that is rolled back and given
again, and a transaction around any part of a save; the levels stand for one
that cites messages and needs some, and one that does not. One caller and rounds
in which two levels are due fill the queue of the schedule; MaxTasks cuts longer
ones, which the same worker takes in the same way.

MaxInputs = 3 of the chatdb run lets any three things come from outside, a
request, a websocket event, work for a pool, a command, or a signal, at any
places of main(): each hazard there is about one of them meeting main(), or a
signal meeting one of them. post_messages makes two calls that ask `ready_`,
get_context one that does not, and a cleanup one that asks SQLite how many rows
went; backup holds the Redis connection and switch the mutex of the event
streams. The guard's scans are the subject of process_guard, with the whole
program around them: two processes of which one is found under both names make
scans with several results of one name, and two inputs let one of them end and
start again during a scan, or be interrupted by a signal.

What the chatdb run shows of signals. A signal does not end in a crash if it
comes at the port question or before the database is opened, between commands,
or when shutdown() asks a part to stop. It may end in one if it interrupts a
join, the steps between the end of the websocket's or the storage's thread and
its reset, a command or an option, or the return of main; and during
initialize() in the middle of building SQLite, Redis, Ollama, the processor or
the websocket, or, anywhere after SQLite, because initialize() goes on to build
users of the database that the handler closed (CrashesOnlyWhenNested).
shutdown() waits for ever only if main() holds, below the handler, a mutex that
it or a thread it joins needs; if the HTTP server begins to listen after it was
told to stop; or, with or without a signal, if a thread of an untimed pool
missed the notification (ShutdownReturns). initialize() may in addition wait for
a user (InitializeReturns). The properties exclude these cases by name, and in
the instance no other occurs.

`VIEW Relevant` of the memory run leaves lastRowid out of a state when no thread
is about to read it: an insert sets it before it is read again.

Deadlock is checked in every run but memory, where the bounds on messages and
saves leave threads waiting to insert (the system itself has no such wait), and
chatdb and process_guard, where the process exits, crashes, or hangs in the cases
just named. In
provider_events its absence means that the joins of stop() are reached from
every state.

Runs that end in a violation state what a comment says and the code does not do:

| run | comment | what happens |
|---|---|---|
| vector_ids | `sqlite_storage.hpp:66`, the id last inserted | it is read before the message is inserted: the vector goes to another row |
| event_streams | `README.md:306`, events are pushed to all connections | a bool is compared with the length of the event, the stream ends after its first one |
| schedule_cron | `README.md:329`, a summary every 3 hours | each round of a minute sets the times the intervals are measured from to now: nothing is ever queued by the clock |

Other places where text and code differ, or where a comment of the code is not
what happens, which the modules follow the code in and no run is about: `stop()`
of the three pools that wait without a timeout clears `running_` and notifies
without the mutex (`ollama_client.cpp:132`, `message_processor.cpp:31`,
`memory_summarizer.cpp:29`), so a worker that has just looked at the predicate
misses both and is joined for ever (the exception in StopReturns and
ShutdownReturns; the storage thread's wait ends by itself); at exit at most two
batches are flushed (`sqlite_storage.cpp:240`, "flush what remains"; the rest is
recorded in `lost`); the full-text half of a search ignores the group asked for
(`query_engine.hpp:28`); a double hit's full-text weight is applied twice, so
from similarity 0.4 on it ranks below an equally similar semantic hit
(`query_engine.hpp:21`), although still before what full text found alone
(DoubleHitsFirst); merge_memories only logs the new summary (`README.md:265`); a
process that has ended is not in the next scan, so DOWN is never reported
(`README.md:377` and `:380`) and its entry stays alive; the guard looks for
names in the first argument only (`process_guard.cpp:154`); a COMMIT that fails
is taken for one that succeeded (`sqlite_storage.cpp:277`); a switch of
providers announces a rebuilt index and rebuilds nothing
(`chat_database.cpp:138`, `README.md:435`); create_vector_index drops the index
with its vectors (`DD`, `redis_client.cpp:186`) at every start; ids of requests
and events go through `value("...", 0)`, an int, so those from 2^31 on are cut
(`http_server.cpp:210`, `onebot_v11_client.cpp:231`); a recall passes the
websocket's message_id for a row's id (`onebot_v11_client.cpp:262`); get_context
looks at the group's latest 2 * radius + 1 messages only, wherever the message
is (`query_engine.cpp:187`); `--summarize` queues its task and exits, which
drops it, after printing "Summarized." (`main.cpp:155`); main sets the
processor's callbacks while its workers may be reading them (`main.cpp:166`);
after a signal at the prompt getline is resumed, so the program ends with the
next line or the end of the input (`main.cpp:217`); and
ChatDatabase::receive_messages is declared and called (`http_server.cpp:234`,
`main.cpp:192`) but defined nowhere.

## 5. Fairness

FairSpec of the pipeline: each worker and the storage thread keep taking steps.
Every call of a worker ends (embed gives up after max_retries, the database
mutex is held for one batch), and the storage wait has a 500 ms timeout. Nothing
is assumed of clients, expiry, cleanup, or failures. FairPool: every thread that
can run does, including the one that notifies or joins; a pool's timeout expires
only where the wait has one. FairSpec of SummarySchedule: the worker, the cron
(its sleep ends) and a caller that has pushed keep going, and do_summarize
returns, since it only runs statements; no spurious wakeup is counted on. Spec
of ChatDatabase: main() while it has something to do, the HTTP thread with a
request, the websocket's thread with an event or an end, the guard, whose sleep
ends, and a pool's thread at work go on; nothing makes a client, a user, the
websocket's peer or another process act, or a signal come, a question for a port
need not be answered, a thread that missed a notification need not wake up, and
shutdown() is not assumed to be called at all.

## 6. What is proved

`MessagePipelineProofs` proves `Spec => []IInv` for any messages, workers, keys
and batch size, from PipelineAssumption, and concludes TypeOK, UniqueHash,
DuplicateKeysBacked and NoContentLost (TypeCorrect, HashesUnique, KeysBacked,
ContentKept).

Why IInv: NoContentLost alone is not inductive. When a duplicate check drops a
message because its key is in Redis, the key must be backed
(DuplicateKeysBacked); that is so because the worker that set it had enqueued a
message which is still somewhere (EnqueuedCovered, kept between the enqueue and
the mark). A restart must not find a batch (IdleBuffers) or a worker holding a
message (DownIdle), and a rejected insert is covered only because its hash is
taken, hence its content stored.

`MessageStoreProofs` proves `Spec => []OnePlace` (MessagesInOnePlace): every step
is described by how it moves a message between the input queue, the workers'
hands, the write queue, the batch, the transaction and the table (WorkerMoves,
StorageMoves, OtherMoves), and such moves keep the places apart. From IInv and
OnePlace the same moves are steps of MessageStore or stutter, which is
`Spec => ImplementsStore` (StoreImplemented). OnePlace is needed there because a
message that is discarded or fails must not be somewhere else as well, or it
would still be pending; UniqueHash because a transaction stores different hashes;
DuplicateKeysBacked because Discard needs a message of the same content.

`WorkerPoolProofs` proves for any kinds of pools and number of tasks that a pop
finds something (PopsAreSafe) and that the notifications never leave every
worker asleep on announced work (NobodySleepsOnWork), from the type invariant
(PoolTypeCorrect).

`MemoryArchiveProofs` proves `Spec => []ArchiveInv` from ArchiveAssumption, for
any threads, groups, messages and bounds, and concludes ArchiveTypeOK and
LinksKeepTheirMemory (ArchiveTypeCorrect, LinksStayRight). LinksKeepTheirMemory
is not inductive: a crash replaces `db` by `base`, so both must be safe; ids are
given again after a rollback, so no honest link may point above the counter
(IdsKept); and a link is written long after the insert, so the id a thread holds
in between must not be another save's memory (OwnIdsKept). A crash empties the
threads' hands, which is why a rolled-back id in a hand does no harm.

SavedUntilDeleted (MemoriesStay) follows in the same module from SavesInv: every
save numbered so far, returned or not, is in the table exactly if it was not
deleted (Accounted), `base` may differ only in the saves the open transaction
touched (`risky`), and a save has one row (OneRowEach); that a deletion by id
removes the save it records needs IdsKept.

FoundByReference (ReferencesFind) is about saves that have returned, but what it
needs is done earlier: FoundInv adds to it what holds of a save at work
(WorkFound), a row under the id its insert was given and, under the id it read, a
link for every message that its loop has come by. Rows go by deletions only and
links never (Keeps), so both stay; they hold of `base` too, except for saves the
open transaction touched, since a crash goes back to it. An honest save read the
id its insert was given, so when it returns the row and the links are of one id.

`ChatDatabaseProofs` proves `Spec => []Inv` (LifeCycleInvariant) for any
requests, commands, processes and number of inputs, and concludes
NothingRunsAtExit, CallbacksHaveSocket and DropsOnlyBeforeReady
(NothingRunsAtTheEnd, CallbacksFindSocket, DropsAreEarly). Inv says how far each
activation of shutdown() has come: the parts before the one it is at are down
(PassedOK), a join or close in progress is for a part asked to stop and not yet
joined, unless a signal has put a second shutdown() in between (JoinOK), and the
lower activation stands where the signal came (StackOK). So an activation that
returns leaves every part down (DestroyOK), a second join needs a second
activation (CrashIsNested), and what is down has no thread (QuietOK), hence no
request or event in hand (HandsOK). A signal may bring a part down while
initialize() still goes on, so the order of building is part of it (BuildOK):
the HTTP server and the websocket are not there before their turn, which is why
they can be started only with no thread of theirs running, and why `ready_` is
only false during initialize() or when neither is there (ReadyOK).
EntriesAreDistinct concludes OneEntryPerName from current_status_ being a
sequence (StatusOK).

UsersFindParts (PartsAreFound) needs the order in which parts come and go:
UsersInv adds to Inv that initialize() has built what comes before its step
(BuiltOK), that a part is asked to stop only when those stopped before it are
down (OrderOK), that what is joined was built (StoppedOK), and that the calls
under way are calls the handlers make (CallsOK). What calls use is built before
the HTTP server and stopped after the websocket, whatever the requests are.
OrderOK is about runs without a signal while initialize() builds, as the
property is: there the order is really lost.

CrashesOnlyWhenNested (CrashesAreNested) rests on all of that, since a crash may
come long after its signal: InnerOK says what the handler may have interrupted,
and where the signal then came, and AdmittedOK that, unless the signal came
while the parts were built or in that very call, a call that `ready_` let pass
finds the database open, also when `ready_` was read before a shutdown.

ScanMissesNobody (NobodyIsMissed) needs ScanOK: while the scan goes on, a
process that has run all the time and was read is in the results under every
name that its first argument contains, or already listed; and noting the results
moves names from the one to the other. That FoundAs puts every match into the
results is a lemma about counting the matching names (RankIs, FoundAsIs). TypeOK
of the composition (TypesAreKept) rests on both: what main() and the handlers
have in hand are calls of ChatDatabase because of CallsOK, the entries are typed
because of the scan.

`HybridSearchProofs` proves `SearchSpec => []SearchInv` for any messages, groups,
providers and limits, and concludes all five properties of the module. SearchInv
says what a search has in hand at each place: everything it holds was a row
during the search (SeenOK), there is one candidate for a key and none for a key
still to be read (CandidatesOK), and a message that stays with its own vector is
among the keys, then the candidates, then the ranked, then the found ones, unless
too many are as similar (SteadyOK). A returned list is the beginning of a sorted
sequence of a finite set; from that one fact (SortedIn, and lemmas on it) follow
what is cut off (StrongHitsStay) and what comes before what (DoubleHitsLead: a
double hit has a similarity of at least 0.6 and so a higher score than any hit of
full text alone).

`ProviderEventsProofs` proves the types, OpenStreamsComplete (StreamsComplete)
and EventsAccountForCurrent (EventsAccount) for any providers, threads and
clients and any number of switches. The second is inductive together with what
holds before a stream begins (StreamsInv); the work is in the greeting, which
may lie anywhere among the events (GreetingStays, GreetingLast). The third only
speaks of moments when nothing is pending: Balanced counts, of the events
broadcast and of those between switch_to's lock and its callback, as many that
enter a provider as leave it, up to the first and the current one. It does not
mention their order, so threads may overtake each other.

`SummaryScheduleProofs` proves the types (ScheduleTypesKept), and what the run
schedule_cron finds in its instance, as a theorem (ShortRoundsQueueNothing): if
no round is as long as an interval, no round of the cron ever changes the queue.
The invariant is that all three times are those of the last round (JustSet).

Assumptions of these proofs beyond those the runs always checked: messages,
threads, groups and levels are finite sets (the sorted answer, the counts and the
queue's orders are of finite sets), and the text of an event is not empty.

Only model-checked: liveness (EventuallyStored, Served, StopReturns,
QueuedTaskServed, InitializeReturns, ShutdownReturns, RunningOnesAreListed),
since TLAPS does not prove properties under fairness, and the comments that the
three violation runs refute.

## 7. Not modelled

Config parses and prints; of PortDetector only what initialize() asks of it is
modelled, a port found or asked for, not which; of main the parsing of options,
the connection test (initialize and shutdown without a signal handler) and the
demo are left out; EmbeddingCache and LSHHelper are not used; the key-value cache
of RedisClient and insert_message of SQLiteStorage have no callers, and neither
have update_memory and search_memories of the summarizer (ByReference is the
latter's search by reference, the reader the links are kept for), the functions
of OneBotV11Client that send, and watch, unwatch, get_status and find_ports of
ProcessGuard; health, config and restore requests answer with constants; the
ranking of FTS5 and the embedding of a text are the libraries'. A crash that
loses what is in memory is MessagePipeline's and MemoryArchive's subject, not
ChatDatabase's, whose parts keep no data.
