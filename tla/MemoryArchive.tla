---------------------------- MODULE MemoryArchive ------------------------------
(***************************************************************************)
(* The memories MemorySummarizer keeps in SQLite: recalls, importance      *)
(* marks, deletions and merges on the threads of their callers, summaries  *)
(* on the worker thread, all over the one connection on which the storage  *)
(* thread runs its transactions, and mostly without db_mutex_.             *)
(*                                                                         *)
(* Each statement is a step.  Outside a transaction it commits by itself;  *)
(* between the storage thread's BEGIN and COMMIT it is part of that        *)
(* transaction, whoever issues it.                                         *)
(***************************************************************************)
EXTENDS Naturals, Sequences, FiniteSets

CONSTANTS
  Groups,       \* chat groups
  Callers,      \* threads of the HTTP server and of the OneBot client
  Worker,       \* the thread of worker_loop
  Levels,       \* the summary levels asked for
  NoLevel,      \* "the worker is not choosing what to save"
  Enough,       \* the messages a 3h summary needs (5)
  MessageIds,   \* message ids clients name in recalls and marks
  MemoryIds,    \* memory ids clients name in deletions and merges
  MaxMessages,  \* bound: rows in table messages
  MaxSaves      \* bound: inserts into table memories

ASSUME ArchiveAssumption ==
  /\ Groups # {}
  /\ Worker \notin Callers
  /\ NoLevel \notin Levels
  /\ Enough \in Nat \ {0}
  /\ MessageIds \subseteq Nat \ {0}
  /\ MemoryIds \subseteq Nat \ {0}
  /\ MaxMessages \in Nat /\ MaxSaves \in Nat

Savers  == Callers \cup {Worker}
CallNos == 1 .. MaxSaves

VARIABLES
  phase,      \* "up" or "down"
  open,       \* is the storage thread's transaction open?
  db,         \* the database as the connection sees it
  base,       \* what a crash goes back to while the transaction is open
  lastRowid,  \* sqlite3_last_insert_rowid of the connection
  pc,         \* where each saver is
  level,      \* the level of the worker's task, until it knows what to save
  job,        \* the memory each saver saves
  left,       \* ids its loop has not come to
  saves,      \* history: inserts into memories so far
  finished,   \* history: the saves that returned, what they cite, were they honest
  removed,    \* history: the saves whose memory a deletion removed
  unlinked,   \* history: the saves of which a link could not be inserted
  risky,      \* history: saves written, linked or deleted in the open transaction
  lost        \* history: those of them a crash rolled back

stores  == <<open, db, base, lastRowid>>
savers  == <<pc, level, job, left>>
history == <<saves, finished, removed, unlinked, risky, lost>>
vars == <<phase, stores, savers, history>>

(* memories: save is the number of the save_memory call that inserted it.   *)
(* links: honest if the id save_memory read is the one it was given.        *)
Memory == [id : Nat, save : CallNos, group : Groups]
Link   == [mem : Nat, msg : Nat, save : CallNos, honest : BOOLEAN]
Database ==
  [messages : Seq(Groups), memories : SUBSET Memory, seq : Nat, links : SUBSET Link]
Empty == [messages |-> <<>>, memories |-> {}, seq |-> 0, links |-> {}]

(* own: the id the insert was given; id: the one read back; a save is honest *)
(* if they are the same.                                                    *)
Job == [save : CallNos \cup {0}, group : Groups, cites : SUBSET Nat, own : Nat, id : Nat]
NoJob == [save |-> 0, group |-> CHOOSE g \in Groups : TRUE, cites |-> {}, own |-> 0, id |-> 0]
Save == [save : CallNos, group : Groups, cites : SUBSET Nat, honest : BOOLEAN]

SaverPC == {"idle", "query", "collect", "insert", "rowid", "link", "merge"}

ArchiveTypeOK ==
  /\ phase \in {"up", "down"}
  /\ open \in BOOLEAN
  /\ db \in Database
  /\ base \in Database
  /\ \A d \in {db, base} : \A m \in d.memories : m.id <= d.seq
  /\ lastRowid \in Nat
  /\ pc \in [Savers -> SaverPC]
  /\ level \in Levels \cup {NoLevel}
  /\ job \in [Savers -> Job]
  /\ left \in [Savers -> SUBSET Nat]
  /\ saves \in 0 .. MaxSaves
  /\ finished \subseteq Save
  /\ \A S \in {removed, unlinked, risky, lost} : S \subseteq CallNos

Init ==
  /\ phase = "up"
  /\ open = FALSE
  /\ db = Empty /\ base = Empty
  /\ lastRowid = 0
  /\ pc = [s \in Savers |-> "idle"]
  /\ level = NoLevel
  /\ job = [s \in Savers |-> NoJob]
  /\ left = [s \in Savers |-> {}]
  /\ saves = 0
  /\ finished = {} /\ removed = {} /\ unlinked = {} /\ risky = {} /\ lost = {}

(* These saves had a statement in the transaction, if one is open.          *)
Touch(these) == risky' = IF open THEN risky \cup these ELSE risky

-----------------------------------------------------------------------------
(* The storage thread: flush_batch. *)

(* A batch is never empty; the bound leaves it a message to insert.         *)
BeginFlush ==
  /\ phase # "down" /\ ~open
  /\ Len(db.messages) < MaxMessages
  /\ open' = TRUE
  /\ base' = db
  /\ UNCHANGED <<phase, db, lastRowid, savers, history>>

(* An insert that fails changes nothing here.                               *)
InsertMessage(g) ==
  /\ open
  /\ Len(db.messages) < MaxMessages
  /\ db' = [db EXCEPT !.messages = Append(@, g)]
  /\ lastRowid' = Len(db.messages) + 1
  /\ UNCHANGED <<phase, open, base, savers, history>>

(* Mutant: a batch with a failed insert is rolled back.                     *)
CommitFlushOrRollback ==
  /\ open
  /\ open' = FALSE
  /\ base' = Empty
  /\ risky' = {}
  /\ db' \in {db, base}
  /\ UNCHANGED <<phase, lastRowid, savers, saves, finished, removed, unlinked, lost>>

CommitFlush ==
  /\ open
  /\ open' = FALSE
  /\ base' = Empty
  /\ risky' = {}
  /\ UNCHANGED <<phase, db, lastRowid, savers, saves, finished, removed, unlinked, lost>>

-----------------------------------------------------------------------------
(* What starts a save. *)

Goto(s, from, to) == pc[s] = from /\ pc' = [pc EXCEPT ![s] = to]

(* handle_recall: the message id comes from the client or from OneBot.      *)
Recall(c, g, m) ==
  /\ phase = "up"
  /\ Goto(c, "idle", "insert")
  /\ job' = [job EXCEPT ![c] = [NoJob EXCEPT !.group = g, !.cites = {m}]]
  /\ UNCHANGED <<phase, stores, level, left, history>>

(* The worker takes a task: SummarySchedule says which ones are queued.     *)
StartSummary(g, l) ==
  /\ phase = "up"
  /\ Goto(Worker, "idle", "query")
  /\ level' = l
  /\ job' = [job EXCEPT ![Worker] = [NoJob EXCEPT !.group = g]]
  /\ UNCHANGED <<phase, stores, left, history>>

(* query_by_group_time waits for db_mutex_.  Timestamps are the clients',   *)
(* so a task's window may hold any of its group's messages.                 *)
Windows(g) == SUBSET {i \in DOMAIN db.messages : db.messages[i] = g}

CitesMessages(l) == l \in {"3h", "24h"}

NothingToSave(from) ==
  /\ Goto(Worker, from, "idle")
  /\ level' = NoLevel
  /\ job' = [job EXCEPT ![Worker] = NoJob]

SaveSummary(from, cites) ==
  /\ Goto(Worker, from, "insert")
  /\ level' = NoLevel
  /\ job' = [job EXCEPT ![Worker].cites = cites]

(* do_summarize: nothing to do for a window without messages; levels other  *)
(* than 3h and 24h look at earlier memories, of which only the text is kept.*)
Query ==
  /\ ~open
  /\ \E w \in Windows(job[Worker].group) :
       \/ w = {} /\ NothingToSave("query")
       \/ /\ w # {} /\ CitesMessages(level)
          /\ Goto(Worker, "query", "collect")
          /\ UNCHANGED <<level, job>>
       \/ w # {} /\ ~CitesMessages(level) /\ SaveSummary("query", {})
  /\ UNCHANGED <<phase, stores, left, history>>

(* do_3h_summary and do_24h_summary read the window again.                  *)
Collect ==
  /\ ~open
  /\ \E w \in Windows(job[Worker].group) :
       IF level = "3h" /\ Cardinality(w) < Enough
         THEN NothingToSave("collect")
         ELSE SaveSummary("collect", w)
  /\ UNCHANGED <<phase, stores, left, history>>

-----------------------------------------------------------------------------
(* save_memory *)

(* Mutant: without AUTOINCREMENT the next id is one above the largest.      *)
InsertMemoryReusesId(s) ==
  LET ids == {m.id : m \in db.memories} \cup {0}
      id == (CHOOSE i \in ids : \A j \in ids : j <= i) + 1
      no == saves + 1 IN
  /\ saves < MaxSaves
  /\ Goto(s, "insert", "rowid")
  /\ db' = [db EXCEPT !.memories = @ \cup {[id |-> id, save |-> no, group |-> job[s].group]},
                      !.seq = IF id > @ THEN id ELSE @]
  /\ lastRowid' = id
  /\ saves' = no
  /\ job' = [job EXCEPT ![s].save = no, ![s].own = id]
  /\ Touch({no})
  /\ UNCHANGED <<phase, open, base, level, left, finished, removed, unlinked, lost>>

(* Mutant: the id is predicted from the connection's last rowid.            *)
InsertMemoryPredictsId(s) ==
  LET no == saves + 1 IN
  /\ saves < MaxSaves
  /\ Goto(s, "insert", "rowid")
  /\ db' = [db EXCEPT !.memories =
               @ \cup {[id |-> lastRowid + 1, save |-> no, group |-> job[s].group]},
             !.seq = @ + 1]
  /\ lastRowid' = lastRowid + 1
  /\ saves' = no
  /\ job' = [job EXCEPT ![s].save = no, ![s].own = lastRowid + 1]
  /\ Touch({no})
  /\ UNCHANGED <<phase, open, base, level, left, finished, removed, unlinked, lost>>

InsertMemory(s) ==
  LET id == db.seq + 1
      no == saves + 1 IN
  /\ saves < MaxSaves
  /\ Goto(s, "insert", "rowid")
  /\ db' = [db EXCEPT !.memories = @ \cup {[id |-> id, save |-> no, group |-> job[s].group]},
                      !.seq = id]
  /\ lastRowid' = id
  /\ saves' = no
  /\ job' = [job EXCEPT ![s].save = no, ![s].own = id]
  /\ Touch({no})
  /\ UNCHANGED <<phase, open, base, level, left, finished, removed, unlinked, lost>>

(* The insert fails: logged, -1, which no caller looks at.                  *)
InsertMemoryFails(s) ==
  /\ Goto(s, "insert", "idle")
  /\ job' = [job EXCEPT ![s] = NoJob]
  /\ UNCHANGED <<phase, stores, level, left, history>>

(* last_insert_rowid of the connection, whoever inserted last.              *)
ReadRowid(s) ==
  /\ Goto(s, "rowid", "link")
  /\ job' = [job EXCEPT ![s].id = lastRowid]
  /\ left' = [left EXCEPT ![s] = job[s].cites]
  /\ UNCHANGED <<phase, stores, level, history>>

(* INSERT OR IGNORE; the link table has rowids of its own.  An ignored      *)
(* insert still depends on the link it found, perhaps not committed.        *)
Linked(s, m) == \E l \in db.links : l.mem = job[s].id /\ l.msg = m
NewLink(s, m) ==
  [mem |-> job[s].id, msg |-> m, save |-> job[s].save, honest |-> job[s].id = job[s].own]

(* Mutant: the statement is not reset, so only the first insert works.      *)
LinkFirstOnly(s) ==
  /\ pc[s] = "link"
  /\ \E m \in left[s] :
       IF Linked(s, m) THEN UNCHANGED <<db, lastRowid>>
       ELSE /\ db' = [db EXCEPT !.links = @ \cup {NewLink(s, m)}]
            /\ lastRowid' = Cardinality(db.links) + 1
  /\ Touch({job[s].save})
  /\ left' = [left EXCEPT ![s] = {}]
  /\ UNCHANGED <<phase, open, base, pc, level, job, saves, finished, removed, unlinked, lost>>

LinkMessage(s) ==
  /\ pc[s] = "link"
  /\ \E m \in left[s] :
       /\ left' = [left EXCEPT ![s] = @ \ {m}]
       /\ IF Linked(s, m) THEN UNCHANGED <<db, lastRowid>>
          ELSE /\ db' = [db EXCEPT !.links = @ \cup {NewLink(s, m)}]
               /\ lastRowid' = Cardinality(db.links) + 1
  /\ Touch({job[s].save})
  /\ UNCHANGED <<phase, open, base, pc, level, job, saves, finished, removed, unlinked, lost>>

(* The result of the step is not looked at.                                 *)
LinkFails(s) ==
  /\ pc[s] = "link"
  /\ \E m \in left[s] : left' = [left EXCEPT ![s] = @ \ {m}]
  /\ unlinked' = unlinked \cup {job[s].save}
  /\ UNCHANGED <<phase, stores, pc, level, job, saves, finished, removed, risky, lost>>

SaveReturns(s) ==
  /\ left[s] = {}
  /\ Goto(s, "link", "idle")
  /\ finished' = finished \cup
       {[save |-> job[s].save, group |-> job[s].group, cites |-> job[s].cites,
         honest |-> job[s].id = job[s].own]}
  /\ job' = [job EXCEPT ![s] = NoJob]
  /\ UNCHANGED <<phase, stores, level, left, saves, removed, unlinked, risky, lost>>

-----------------------------------------------------------------------------
(* Marks, deletions, merges. *)

(* INSERT OR REPLACE INTO msg_importance, whose primary key is its rowid;   *)
(* nothing reads the table.                                                 *)
MarkImportance(m) ==
  /\ phase = "up"
  /\ lastRowid' = m
  /\ UNCHANGED <<phase, open, db, base, savers, history>>

(* DELETE FROM memories; the links stay.                                    *)
DeleteRow(i) ==
  LET gone == {m \in db.memories : m.id = i} IN
  /\ db' = [db EXCEPT !.memories = @ \ gone]
  /\ removed' = removed \cup {m.save : m \in gone}
  /\ Touch({m.save : m \in gone})

DeleteMemory(i) ==
  /\ phase = "up"
  /\ DeleteRow(i)
  /\ UNCHANGED <<phase, open, base, lastRowid, savers, saves, finished, unlinked, lost>>

(* merge_memories deletes its sources one by one; the new summary is only   *)
(* logged.  A deletion that fails is not noticed and leaves what a merge    *)
(* without that id leaves.                                                  *)
MergeMemories(c, ids) ==
  /\ phase = "up" /\ ids # {}
  /\ Goto(c, "idle", "merge")
  /\ left' = [left EXCEPT ![c] = ids]
  /\ UNCHANGED <<phase, stores, level, job, history>>

MergeDeletes(c) ==
  /\ pc[c] = "merge"
  /\ \E i \in left[c] :
       /\ DeleteRow(i)
       /\ left' = [left EXCEPT ![c] = @ \ {i}]
  /\ UNCHANGED <<phase, open, base, lastRowid, pc, level, job, saves, finished, unlinked, lost>>

MergeReturns(c) ==
  /\ left[c] = {}
  /\ Goto(c, "merge", "idle")
  /\ UNCHANGED <<phase, stores, level, job, left, history>>

(* search_memories by reference: the memories of the group linked to m.     *)
ByReference(g, m) ==
  {r \in db.memories : r.group = g /\ \E l \in db.links : l.mem = r.id /\ l.msg = m}

-----------------------------------------------------------------------------
(* Shutdown, crash, restart. *)

ProcessGone ==
  /\ phase' = "down"
  /\ open' = FALSE
  /\ base' = Empty
  /\ lastRowid' = 0
  /\ pc' = [s \in Savers |-> "idle"]
  /\ level' = NoLevel
  /\ job' = [s \in Savers |-> NoJob]
  /\ left' = [s \in Savers |-> {}]
  /\ risky' = {}

(* An orderly shutdown: the servers wait for their calls, the worker ends   *)
(* its task and leaves the queue, the last batch is committed.              *)
Close ==
  /\ phase = "up" /\ ~open
  /\ \A s \in Savers : pc[s] = "idle"
  /\ ProcessGone
  /\ UNCHANGED <<db, saves, finished, removed, unlinked, lost>>

Crash ==
  /\ phase # "down"
  /\ ProcessGone
  /\ db' = IF open THEN base ELSE db
  /\ lost' = lost \cup risky
  /\ UNCHANGED <<saves, finished, removed, unlinked>>

Restart ==
  /\ phase = "down"
  /\ phase' = "up"
  /\ UNCHANGED <<stores, savers, history>>

-----------------------------------------------------------------------------
SaveStep(s) ==
  \/ InsertMemory(s) \/ InsertMemoryFails(s)
  \/ ReadRowid(s) \/ LinkMessage(s) \/ LinkFails(s) \/ SaveReturns(s)

CallerStep(c) ==
  \/ \E g \in Groups, m \in MessageIds : Recall(c, g, m)
  \/ \E ids \in SUBSET MemoryIds : MergeMemories(c, ids)
  \/ MergeDeletes(c) \/ MergeReturns(c)

WorkerStep == Query \/ Collect \/ \E g \in Groups, l \in Levels : StartSummary(g, l)

FlushStep == BeginFlush \/ CommitFlush \/ \E g \in Groups : InsertMessage(g)

Next ==
  \/ FlushStep
  \/ WorkerStep
  \/ \E c \in Callers : CallerStep(c)
  \/ \E s \in Savers : SaveStep(s)
  \/ \E m \in MessageIds : MarkImportance(m)
  \/ \E i \in MemoryIds : DeleteMemory(i)
  \/ Close \/ Crash \/ Restart

Spec == Init /\ [][Next]_vars

-----------------------------------------------------------------------------
(* Properties *)

HasSave(d, n) == \E m \in d.memories : m.save = n

(* A memory whose save returned is there until somebody deletes it, and     *)
(* once deleted it stays away, across restarts and crashes.  The exceptions *)
(* are saves and deletions that fell into the storage thread's open         *)
(* transaction, which a crash then rolled back.                             *)
SavedUntilDeleted ==
  \A f \in finished : f.save \notin lost => (HasSave(db, f.save) <=> f.save \notin removed)

(* Deletions leave links behind and crashes take ids back; still a link     *)
(* written under the id its memory was given is never found attached to     *)
(* another memory.                                                          *)
LinksKeepTheirMemory ==
  \A l \in db.links, m \in db.memories : l.honest /\ l.mem = m.id => l.save = m.save

(* A memory saved and not deleted is found by reference to each message it  *)
(* cites, unless its save read another insert's id, a link failed, or a     *)
(* crash rolled part of it back.                                            *)
FoundByReference ==
  \A f \in finished :
    f.honest /\ f.save \notin removed \cup unlinked \cup lost
      => \A i \in f.cites : \E m \in ByReference(f.group, i) : m.save = f.save

(* The inductive invariant behind LinksKeepTheirMemory: it holds of the     *)
(* database and of what a crash goes back to, and the ids of saves still at *)
(* work are as safe as those of links.                                      *)
IdsKept(d) ==
  /\ IsFiniteSet(d.links)
  /\ \A m, n \in d.memories : m.id = n.id => m.save = n.save
  /\ \A l \in d.links :
       l.honest => l.mem <= d.seq /\ \A m \in d.memories : m.id = l.mem => m.save = l.save
OwnIdsKept ==
  \A s \in Savers : pc[s] \in {"rowid", "link"} =>
    /\ job[s].own <= db.seq
    /\ job[s].save \in CallNos
    /\ \A m \in db.memories : m.id = job[s].own => m.save = job[s].save
ArchiveInv == ArchiveTypeOK /\ IdsKept(db) /\ IdsKept(base) /\ OwnIdsKept

(* The inductive invariant behind SavedUntilDeleted.  It speaks of every    *)
(* save that was numbered, returned or not, and of what a crash goes back   *)
(* to, which may only differ in the saves the open transaction touched.     *)
OneRowEach(d) ==
  /\ \A m \in d.memories : m.save <= saves
  /\ \A m, n \in d.memories : m.save = n.save => m = n
Accounted(d, except) ==
  \A n \in 1 .. saves : n \notin except => (HasSave(d, n) <=> n \notin removed)
SavesCounted ==
  /\ removed \cup lost \cup risky \subseteq 1 .. saves
  /\ \A f \in finished : f.save \in 1 .. saves
  /\ \A s \in Savers : pc[s] \in {"rowid", "link"} => job[s].save \in 1 .. saves
  /\ OneRowEach(db) /\ OneRowEach(base)
SavesInv ==
  /\ SavesCounted
  /\ Accounted(db, lost)
  /\ open => Accounted(base, lost \cup risky)
=============================================================================
