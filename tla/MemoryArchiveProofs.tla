-------------------------- MODULE MemoryArchiveProofs --------------------------
(***************************************************************************)
(* Proofs about MemoryArchive for every set of groups, callers, levels and *)
(* client-given ids, and all bounds.                                       *)
(***************************************************************************)
EXTENDS MemoryArchive, FiniteSetTheorems, TLAPS

(* The empty database and the idle job have their types.                    *)
LEMMA NoJobType == NoJob \in Job /\ NoJob.own = 0
<1>1. (CHOOSE g \in Groups : TRUE) \in Groups
  BY ArchiveAssumption
<1>2. QED
  BY <1>1 DEF NoJob, Job

LEMMA EmptyType == Empty \in Database /\ Empty.memories = {} /\ IdsKept(Empty)
<1>1. Empty \in Database
  BY DEF Empty, Database
<1>2. IsFiniteSet(Empty.links)
  BY FS_EmptySet DEF Empty
<1>3. QED
  BY <1>1, <1>2 DEF IdsKept, Empty

(* A message inserted leaves the other tables as they are.                  *)
LEMMA MessageInserted ==
  ASSUME NEW d \in Database, NEW g \in Groups
  PROVE  LET e == [d EXCEPT !.messages = Append(@, g)] IN
           /\ e \in Database
           /\ e.memories = d.memories /\ e.seq = d.seq /\ e.links = d.links
<1>1. d.messages \in Seq(Groups)
  BY DEF Database
<1>2. Append(d.messages, g) \in Seq(Groups)
  BY <1>1
<1>3. QED
  BY <1>2 DEF Database

(* A memory inserted with the next id.                                      *)
LEMMA MemoryInserted ==
  ASSUME NEW d \in Database, NEW new \in Memory, NEW e,
         e = [d EXCEPT !.memories = @ \cup {new}, !.seq = d.seq + 1]
  PROVE  /\ e \in Database
         /\ e.memories = d.memories \cup {new}
         /\ e.seq = d.seq + 1 /\ e.links = d.links
<1>1. d.seq + 1 \in Nat /\ d.memories \cup {new} \in SUBSET Memory
  BY DEF Database
<1>2. QED
  BY <1>1 DEF Database

(* Memories deleted.                                                        *)
LEMMA MemoriesDeleted ==
  ASSUME NEW d \in Database, NEW gone
  PROVE  LET e == [d EXCEPT !.memories = @ \ gone] IN
           /\ e \in Database
           /\ e.memories = d.memories \ gone
           /\ e.seq = d.seq /\ e.links = d.links
<1>1. d.memories \ gone \in SUBSET Memory
  BY DEF Database
<1>2. QED
  BY <1>1 DEF Database

(* A link inserted.                                                         *)
LEMMA LinkInserted ==
  ASSUME NEW d \in Database, NEW k \in Link, NEW e,
         e = [d EXCEPT !.links = @ \cup {k}]
  PROVE  /\ e \in Database
         /\ e.links = d.links \cup {k}
         /\ e.memories = d.memories /\ e.seq = d.seq
BY DEF Database

-----------------------------------------------------------------------------
(* The initial state. *)

LEMMA InitInv == Init => ArchiveInv
<1> SUFFICES ASSUME Init PROVE ArchiveInv
  OBVIOUS
<1>1. ArchiveTypeOK
  <2>1. db \in Database /\ base \in Database
    BY EmptyType DEF Init
  <2>2. \A d \in {db, base} : \A m \in d.memories : m.id <= d.seq
    BY DEF Init, Empty
  <2>3. job \in [Savers -> Job]
    BY NoJobType DEF Init
  <2>4. saves \in 0 .. MaxSaves
    BY ArchiveAssumption DEF Init
  <2>5. QED
    BY <2>1, <2>2, <2>3, <2>4 DEF Init, ArchiveTypeOK, SaverPC
<1>2. IdsKept(db) /\ IdsKept(base)
  BY EmptyType DEF Init
<1>3. OwnIdsKept
  BY DEF Init, OwnIdsKept
<1>4. QED
  BY <1>1, <1>2, <1>3 DEF ArchiveInv

-----------------------------------------------------------------------------
(* What a deletion does, on whichever thread it runs.                       *)

LEMMA DeletionTypes ==
  ASSUME ArchiveInv, NEW i \in Nat, DeleteRow(i)
  PROVE  /\ db' \in Database
         /\ db'.memories \subseteq db.memories
         /\ db'.seq = db.seq /\ db'.links = db.links
         /\ removed' \subseteq CallNos /\ risky' \subseteq CallNos
<1> DEFINE gone == {m \in db.memories : m.id = i}
<1>1. db \in Database /\ removed \subseteq CallNos /\ risky \subseteq CallNos
  BY DEF ArchiveInv, ArchiveTypeOK
<1>2. \A m \in db.memories : m.save \in CallNos
  BY <1>1 DEF Database, Memory
<1>3. db' = [db EXCEPT !.memories = @ \ gone]
  BY DEF DeleteRow
<1>4. {m.save : m \in gone} \subseteq CallNos
  BY <1>2
<1>5. removed' \subseteq CallNos /\ risky' \subseteq CallNos
  BY <1>1, <1>4 DEF DeleteRow, Touch
<1> HIDE DEF gone
<1>6. /\ db' \in Database
      /\ db'.memories = db.memories \ gone
      /\ db'.seq = db.seq /\ db'.links = db.links
  BY <1>1, <1>3, MemoriesDeleted
<1>7. QED
  BY <1>5, <1>6

-----------------------------------------------------------------------------
(* Every step keeps the types. *)

LEMMA TypeStep ==
  ASSUME ArchiveInv, [Next]_vars
  PROVE  ArchiveTypeOK'
<1> USE ArchiveAssumption DEF ArchiveInv, stores, savers, history, Goto, SaverPC, Touch
<1>1. ArchiveTypeOK
  OBVIOUS
<1>2. db \in Database /\ base \in Database /\ lastRowid \in Nat
  BY <1>1 DEF ArchiveTypeOK
<1>3. job \in [Savers -> Job] /\ left \in [Savers -> SUBSET Nat]
  BY <1>1 DEF ArchiveTypeOK
<1>4. /\ db.messages \in Seq(Groups) /\ Len(db.messages) \in Nat
      /\ db.seq \in Nat
      /\ \A m \in db.memories : m.id \in Nat /\ m.id <= db.seq
      /\ \A m \in base.memories : m.id \in Nat /\ m.id <= base.seq
  BY <1>1, <1>2 DEF ArchiveTypeOK, Database, Memory
<1>5. \A s \in Savers : /\ job[s].group \in Groups /\ job[s].cites \in SUBSET Nat
                        /\ job[s].own \in Nat /\ job[s].id \in Nat
  BY <1>3 DEF Job
<1>6. \A c \in Callers : c \in Savers
  BY DEF Savers
<1>7. Worker \in Savers
  BY DEF Savers
<1>10. CASE BeginFlush
  BY <1>1, <1>10 DEF ArchiveTypeOK, BeginFlush
<1>11. ASSUME NEW g \in Groups, InsertMessage(g)
       PROVE  ArchiveTypeOK'
  <2>1. /\ db' \in Database /\ db'.memories = db.memories /\ db'.seq = db.seq
    BY <1>2, <1>11, MessageInserted DEF InsertMessage
  <2>2. lastRowid' \in Nat
    BY <1>4, <1>11 DEF InsertMessage
  <2>3. QED
    BY <1>1, <1>4, <2>1, <2>2, <1>11 DEF ArchiveTypeOK, InsertMessage
<1>12. CASE CommitFlush
  BY <1>1, <1>12, EmptyType DEF ArchiveTypeOK, CommitFlush
<1>13. ASSUME NEW c \in Callers, NEW g \in Groups, NEW m \in MessageIds, Recall(c, g, m)
       PROVE  ArchiveTypeOK'
  <2>1. [NoJob EXCEPT !.group = g, !.cites = {m}] \in Job
    BY NoJobType DEF Job
  <2>2. job' \in [Savers -> Job]
    BY <2>1, <1>3, <1>13 DEF Recall
  <2>3. QED
    BY <1>1, <1>6, <2>2, <1>13 DEF ArchiveTypeOK, Recall
<1>14. ASSUME NEW g \in Groups, NEW l \in Levels, StartSummary(g, l)
       PROVE  ArchiveTypeOK'
  <2>1. [NoJob EXCEPT !.group = g] \in Job
    BY NoJobType DEF Job
  <2>2. job' \in [Savers -> Job]
    BY <2>1, <1>3, <1>14 DEF StartSummary
  <2>3. QED
    BY <1>1, <1>7, <2>2, <1>14 DEF ArchiveTypeOK, StartSummary
<1>15. ASSUME NEW from, NothingToSave(from), UNCHANGED <<phase, stores, left, history>>
       PROVE  ArchiveTypeOK'
  BY <1>1, <1>3, <1>7, NoJobType, <1>15 DEF ArchiveTypeOK, NothingToSave
<1>16. ASSUME NEW from, NEW cites \in SUBSET Nat, SaveSummary(from, cites),
              UNCHANGED <<phase, stores, left, history>>
       PROVE  ArchiveTypeOK'
  <2>1. [job[Worker] EXCEPT !.cites = cites] \in Job
    BY <1>3, <1>7 DEF Job
  <2>2. job' = [job EXCEPT ![Worker] = [job[Worker] EXCEPT !.cites = cites]]
    BY <1>16 DEF SaveSummary
  <2>3. job' \in [Savers -> Job]
    BY <2>1, <2>2, <1>3
  <2>4. QED
    BY <1>1, <1>7, <2>3, <1>16 DEF ArchiveTypeOK, SaveSummary
<1>17. \A g : \A w \in Windows(g) : w \in SUBSET Nat
  BY <1>4 DEF Windows
<1>18. CASE Query
  <2>1. PICK w \in Windows(job[Worker].group) :
          \/ w = {} /\ NothingToSave("query")
          \/ /\ w # {} /\ CitesMessages(level)
             /\ Goto(Worker, "query", "collect")
             /\ UNCHANGED <<level, job>>
          \/ w # {} /\ ~CitesMessages(level) /\ SaveSummary("query", {})
    BY <1>18 DEF Query
  <2>2. UNCHANGED <<phase, stores, left, history>>
    BY <1>18 DEF Query
  <2>3. CASE Goto(Worker, "query", "collect") /\ UNCHANGED <<level, job>>
    BY <1>1, <1>7, <2>2, <2>3 DEF ArchiveTypeOK
  <2>4. QED
    BY <2>1, <2>2, <2>3, <1>15, <1>16
<1>19. CASE Collect
  <2>1. PICK w \in Windows(job[Worker].group) :
          NothingToSave("collect") \/ SaveSummary("collect", w)
    BY <1>19 DEF Collect
  <2>2. UNCHANGED <<phase, stores, left, history>>
    BY <1>19 DEF Collect
  <2>3. QED
    BY <2>1, <2>2, <1>15, <1>16, <1>17
<1>20. ASSUME NEW s \in Savers, InsertMemory(s)
       PROVE  ArchiveTypeOK'
  <2> DEFINE no == saves + 1
             new == [id |-> db.seq + 1, save |-> no, group |-> job[s].group]
  <2>1. no \in CallNos /\ no \in 0 .. MaxSaves
    BY <1>1, <1>20 DEF InsertMemory, CallNos, ArchiveTypeOK
  <2>2. db' = [db EXCEPT !.memories = @ \cup {new}, !.seq = db.seq + 1]
    BY <1>20 DEF InsertMemory
  <2>3. db' \in Database /\ db'.memories = db.memories \cup {new} /\ db'.seq = db.seq + 1
    <3>1. new \in Memory
      BY <1>4, <1>5, <2>1 DEF Memory
    <3> HIDE DEF new, no
    <3>2. QED
      BY <1>2, <2>2, <3>1, MemoryInserted
  <2>4. \A m \in db'.memories : m.id <= db'.seq
    BY <1>4, <2>3
  <2>5. [job[s] EXCEPT !.save = no, !.own = db.seq + 1] \in Job
    <3>1. db.seq + 1 \in Nat /\ job[s] \in Job
      BY <1>3, <1>4
    <3> HIDE DEF no
    <3>2. QED
      BY <2>1, <3>1 DEF Job
  <2>6. job' = [job EXCEPT ![s] = [job[s] EXCEPT !.save = no, !.own = db.seq + 1]]
    BY <1>3, <1>20 DEF InsertMemory
  <2>7. job' \in [Savers -> Job]
    BY <1>3, <2>5, <2>6
  <2>8. risky' \subseteq CallNos
    BY <1>1, <2>1, <1>20 DEF InsertMemory, ArchiveTypeOK
  <2>9. lastRowid' \in Nat /\ saves' \in 0 .. MaxSaves
    BY <1>4, <2>1, <1>20 DEF InsertMemory
  <2>10. pc' \in [Savers -> SaverPC]
    BY <1>1, <1>20 DEF InsertMemory, ArchiveTypeOK
  <2>11. UNCHANGED <<phase, open, base, level, left, finished, removed, unlinked, lost>>
    BY <1>20 DEF InsertMemory
  <2> HIDE DEF new, no
  <2>12. QED
    BY <1>1, <1>4, <2>3, <2>4, <2>7, <2>8, <2>9, <2>10, <2>11 DEF ArchiveTypeOK
<1>21. ASSUME NEW s \in Savers, InsertMemoryFails(s)
       PROVE  ArchiveTypeOK'
  BY <1>1, <1>3, NoJobType, <1>21 DEF ArchiveTypeOK, InsertMemoryFails
<1>22. ASSUME NEW s \in Savers, ReadRowid(s)
       PROVE  ArchiveTypeOK'
  <2>1. [job[s] EXCEPT !.id = lastRowid] \in Job
    BY <1>2, <1>3 DEF Job
  <2>2. job' = [job EXCEPT ![s] = [job[s] EXCEPT !.id = lastRowid]]
    BY <1>22 DEF ReadRowid
  <2>3. job' \in [Savers -> Job] /\ left' \in [Savers -> SUBSET Nat]
    BY <1>3, <1>5, <2>1, <2>2, <1>22 DEF ReadRowid
  <2>4. QED
    BY <1>1, <2>3, <1>22 DEF ArchiveTypeOK, ReadRowid
<1>23. ASSUME NEW s \in Savers, pc[s] = "link"
       PROVE  job[s].save \in CallNos
  BY <1>23 DEF OwnIdsKept
<1>24. ASSUME NEW s \in Savers, LinkMessage(s)
       PROVE  ArchiveTypeOK'
  <2>1. PICK m \in left[s] :
          /\ left' = [left EXCEPT ![s] = @ \ {m}]
          /\ IF Linked(s, m) THEN UNCHANGED <<db, lastRowid>>
             ELSE /\ db' = [db EXCEPT !.links = @ \cup {NewLink(s, m)}]
                  /\ lastRowid' = Cardinality(db.links) + 1
    BY <1>24 DEF LinkMessage
  <2>2. job[s].save \in CallNos
    BY <1>23, <1>24 DEF LinkMessage
  <2>3. NewLink(s, m) \in Link
    BY <1>3, <1>5, <2>2 DEF NewLink, Link
  <2>4. Cardinality(db.links) + 1 \in Nat
    BY FS_CardinalityType DEF IdsKept
  <2>5. /\ db' \in Database /\ db'.memories = db.memories /\ db'.seq = db.seq
        /\ lastRowid' \in Nat
    <3>1. CASE Linked(s, m)
      BY <1>2, <2>1, <3>1
    <3>2. CASE ~Linked(s, m)
      BY <1>2, <2>1, <2>3, <2>4, <3>2, LinkInserted
    <3>3. QED
      BY <3>1, <3>2
  <2>6. left' \in [Savers -> SUBSET Nat]
    BY <1>3, <2>1
  <2>7. risky' \subseteq CallNos
    BY <1>1, <2>2, <1>24 DEF LinkMessage, ArchiveTypeOK
  <2>8. UNCHANGED <<phase, open, base, pc, level, job, saves, finished, removed, unlinked, lost>>
    BY <1>24 DEF LinkMessage
  <2>9. QED
    BY <1>1, <2>5, <2>6, <2>7, <2>8 DEF ArchiveTypeOK
<1>25. ASSUME NEW s \in Savers, LinkFails(s)
       PROVE  ArchiveTypeOK'
  <2>1. job[s].save \in CallNos
    BY <1>23, <1>25 DEF LinkFails
  <2>2. left' \in [Savers -> SUBSET Nat]
    BY <1>3, <1>25 DEF LinkFails
  <2>3. QED
    BY <1>1, <2>1, <2>2, <1>25 DEF ArchiveTypeOK, LinkFails
<1>26. ASSUME NEW s \in Savers, SaveReturns(s)
       PROVE  ArchiveTypeOK'
  <2>1. job[s].save \in CallNos
    BY <1>23, <1>26 DEF SaveReturns
  <2>2. finished' \subseteq Save
    <3>1. [save |-> job[s].save, group |-> job[s].group, cites |-> job[s].cites,
           honest |-> job[s].id = job[s].own] \in Save
      BY <1>5, <2>1 DEF Save
    <3>2. QED
      BY <1>1, <3>1, <1>26 DEF SaveReturns, ArchiveTypeOK
  <2>3. job' \in [Savers -> Job]
    BY <1>3, NoJobType, <1>26 DEF SaveReturns
  <2>4. QED
    BY <1>1, <2>2, <2>3, <1>26 DEF ArchiveTypeOK, SaveReturns
<1>27. ASSUME NEW m \in MessageIds, MarkImportance(m)
       PROVE  ArchiveTypeOK'
  BY <1>1, <1>27 DEF ArchiveTypeOK, MarkImportance
<1>28. ASSUME NEW i \in MemoryIds, DeleteMemory(i)
       PROVE  ArchiveTypeOK'
  <2>1. i \in Nat /\ DeleteRow(i)
    BY <1>28 DEF DeleteMemory
  <2>2. /\ db' \in Database /\ db'.memories \subseteq db.memories /\ db'.seq = db.seq
        /\ removed' \subseteq CallNos /\ risky' \subseteq CallNos
    BY <2>1, DeletionTypes
  <2>3. QED
    BY <1>1, <1>4, <2>2, <1>28 DEF ArchiveTypeOK, DeleteMemory
<1>29. ASSUME NEW c \in Callers, NEW ids \in SUBSET MemoryIds, MergeMemories(c, ids)
       PROVE  ArchiveTypeOK'
  BY <1>1, <1>3, <1>6, <1>29 DEF ArchiveTypeOK, MergeMemories
<1>30. ASSUME NEW c \in Callers, MergeDeletes(c)
       PROVE  ArchiveTypeOK'
  <2>1. PICK i \in left[c] : DeleteRow(i) /\ left' = [left EXCEPT ![c] = @ \ {i}]
    BY <1>30 DEF MergeDeletes
  <2>2. i \in Nat
    BY <1>3, <1>6
  <2>3. /\ db' \in Database /\ db'.memories \subseteq db.memories /\ db'.seq = db.seq
        /\ removed' \subseteq CallNos /\ risky' \subseteq CallNos
    BY <2>1, <2>2, DeletionTypes
  <2>4. left' \in [Savers -> SUBSET Nat]
    BY <1>3, <1>6, <2>1
  <2>5. QED
    BY <1>1, <1>4, <2>3, <2>4, <1>30 DEF ArchiveTypeOK, MergeDeletes
<1>31. ASSUME NEW c \in Callers, MergeReturns(c)
       PROVE  ArchiveTypeOK'
  BY <1>1, <1>6, <1>31 DEF ArchiveTypeOK, MergeReturns
<1>32. ASSUME ProcessGone, db' \in {db, base}, lost' \in {lost, lost \cup risky},
              UNCHANGED <<saves, finished, removed, unlinked>>
       PROVE  ArchiveTypeOK'
  BY <1>1, <1>32, NoJobType, EmptyType DEF ArchiveTypeOK, ProcessGone
<1>33. CASE Close
  BY <1>32, <1>33 DEF Close
<1>34. CASE Crash
  BY <1>32, <1>34 DEF Crash
<1>35. CASE Restart
  BY <1>1, <1>35 DEF ArchiveTypeOK, Restart
<1>36. CASE UNCHANGED vars
  BY <1>1, <1>36 DEF ArchiveTypeOK, vars
<1>40. QED
  BY <1>10, <1>11, <1>12, <1>13, <1>14, <1>18, <1>19, <1>20, <1>21, <1>22, <1>24, <1>25,
     <1>26, <1>27, <1>28, <1>29, <1>30, <1>31, <1>33, <1>34, <1>35, <1>36
  DEF Next, FlushStep, WorkerStep, CallerStep, SaveStep

-----------------------------------------------------------------------------
(* Every step keeps ids and links apart. *)

(* Links and memories may go, and links that are not honest may come.       *)
LEMMA IdsShrink ==
  ASSUME NEW d, NEW e, IdsKept(d),
         e.memories \subseteq d.memories, e.seq = d.seq, e.links = d.links
  PROVE  IdsKept(e)
BY DEF IdsKept

(* Saves at work do not mind a step that leaves their jobs alone and adds   *)
(* no memory.                                                               *)
LEMMA OwnIdsShrink ==
  ASSUME OwnIdsKept, db'.memories \subseteq db.memories, db'.seq = db.seq,
         \A s \in Savers : pc'[s] \in {"rowid", "link"} =>
           /\ pc[s] \in {"rowid", "link"}
           /\ job'[s].own = job[s].own /\ job'[s].save = job[s].save
  PROVE  OwnIdsKept'
BY DEF OwnIdsKept

LEMMA IdsStep ==
  ASSUME ArchiveInv, [Next]_vars
  PROVE  IdsKept(db)' /\ IdsKept(base)' /\ OwnIdsKept'
<1> USE DEF ArchiveInv, stores, savers, history, Goto
<1>1. /\ db \in Database /\ base \in Database
      /\ pc \in [Savers -> SaverPC] /\ job \in [Savers -> Job]
      /\ \A m \in db.memories : m.id <= db.seq
  BY DEF ArchiveTypeOK
<1>2. /\ db.seq \in Nat
      /\ \A m \in db.memories : m.id \in Nat
      /\ \A l \in db.links : l.mem \in Nat
      /\ \A s \in Savers : job[s].own \in Nat
  BY <1>1 DEF Database, Memory, Link, Job
<1>3. (\A c \in Callers : c \in Savers) /\ Worker \in Savers
  BY DEF Savers
<1>4. ASSUME db' = db, base' = base,
             \A s \in Savers : pc'[s] \in {"rowid", "link"} =>
               /\ pc[s] \in {"rowid", "link"}
               /\ job'[s].own = job[s].own /\ job'[s].save = job[s].save
      PROVE  IdsKept(db)' /\ IdsKept(base)' /\ OwnIdsKept'
  BY <1>4, OwnIdsShrink DEF IdsKept
<1>5. ASSUME NEW i \in Nat, DeleteRow(i), UNCHANGED <<base, pc, job>>
      PROVE  IdsKept(db)' /\ IdsKept(base)' /\ OwnIdsKept'
  <2>1. db'.memories \subseteq db.memories /\ db'.seq = db.seq /\ db'.links = db.links
    BY <1>5, DeletionTypes
  <2>2. IdsKept(db')
    BY <2>1, IdsShrink
  <2>3. OwnIdsKept'
    BY <1>5, <2>1, OwnIdsShrink
  <2>4. QED
    BY <1>5, <2>2, <2>3 DEF IdsKept
<1>10. CASE BeginFlush
  <2>1. IdsKept(db') /\ IdsKept(base')
    BY <1>10 DEF BeginFlush
  <2>2. OwnIdsKept'
    BY <1>10, OwnIdsShrink DEF BeginFlush
  <2>3. QED
    BY <2>1, <2>2
<1>11. ASSUME NEW g \in Groups, InsertMessage(g)
       PROVE  IdsKept(db)' /\ IdsKept(base)' /\ OwnIdsKept'
  <2>1. db'.memories = db.memories /\ db'.seq = db.seq /\ db'.links = db.links
    BY <1>1, <1>11, MessageInserted DEF InsertMessage
  <2>2. IdsKept(db')
    BY <2>1, IdsShrink
  <2>3. OwnIdsKept'
    BY <1>11, <2>1, OwnIdsShrink DEF InsertMessage
  <2>4. QED
    BY <1>11, <2>2, <2>3 DEF InsertMessage
<1>12. CASE CommitFlush
  <2>1. IdsKept(db') /\ IdsKept(base')
    BY <1>12, EmptyType DEF CommitFlush
  <2>2. OwnIdsKept'
    BY <1>12, OwnIdsShrink DEF CommitFlush
  <2>3. QED
    BY <2>1, <2>2
<1>13. ASSUME NEW c \in Callers, NEW g \in Groups, NEW m \in MessageIds, Recall(c, g, m)
       PROVE  IdsKept(db)' /\ IdsKept(base)' /\ OwnIdsKept'
  BY <1>1, <1>3, <1>4, <1>13 DEF Recall
<1>14. ASSUME NEW g \in Groups, NEW l \in Levels, StartSummary(g, l)
       PROVE  IdsKept(db)' /\ IdsKept(base)' /\ OwnIdsKept'
  BY <1>1, <1>3, <1>4, <1>14 DEF StartSummary
<1>15. CASE Query
  BY <1>1, <1>3, <1>4, <1>15 DEF Query, NothingToSave, SaveSummary
<1>16. CASE Collect
  BY <1>1, <1>3, <1>4, <1>16 DEF Collect, NothingToSave, SaveSummary
<1>17. ASSUME NEW s \in Savers, InsertMemory(s)
       PROVE  IdsKept(db)' /\ IdsKept(base)' /\ OwnIdsKept'
  <2> DEFINE no == saves + 1
             new == [id |-> db.seq + 1, save |-> no, group |-> job[s].group]
  <2>1. no \in CallNos
    BY <1>17, ArchiveAssumption DEF InsertMemory, CallNos, ArchiveTypeOK
  <2>2. new \in Memory /\ new.id = db.seq + 1 /\ new.save = no
    BY <1>1, <1>2, <2>1 DEF Memory, Job
  <2>3. db' = [db EXCEPT !.memories = @ \cup {new}, !.seq = db.seq + 1]
    BY <1>17 DEF InsertMemory
  <2>4. /\ pc' = [pc EXCEPT ![s] = "rowid"] /\ base' = base /\ pc[s] = "insert"
        /\ job' = [job EXCEPT ![s] = [job[s] EXCEPT !.save = no, !.own = db.seq + 1]]
    BY <1>17 DEF InsertMemory
  <2>5. job'[s].save = no /\ job'[s].own = db.seq + 1
    BY <1>1, <2>4 DEF Job
  <2> HIDE DEF new, no
  <2>6. /\ db'.memories = db.memories \cup {new}
        /\ db'.seq = db.seq + 1 /\ db'.links = db.links
    BY <1>1, <2>2, <2>3, MemoryInserted
  <2>7. IdsKept(db')
    BY <1>1, <1>2, <2>2, <2>6 DEF IdsKept
  <2>8. ASSUME NEW t \in Savers, pc'[t] \in {"rowid", "link"}
        PROVE  /\ job'[t].own <= db'.seq
               /\ job'[t].save \in CallNos
               /\ \A m \in db'.memories : m.id = job'[t].own => m.save = job'[t].save
    <3>1. CASE t = s
      BY <1>1, <1>2, <2>1, <2>2, <2>5, <2>6, <3>1
    <3>2. CASE t # s
      <4>1. pc[t] \in {"rowid", "link"} /\ job'[t] = job[t]
        BY <1>1, <2>4, <2>8, <3>2
      <4>2. /\ job[t].own <= db.seq
            /\ job[t].save \in CallNos
            /\ \A m \in db.memories : m.id = job[t].own => m.save = job[t].save
        BY <4>1 DEF OwnIdsKept
      <4>3. QED
        BY <1>2, <2>2, <2>6, <4>1, <4>2
    <3>3. QED
      BY <3>1, <3>2
  <2>9. QED
    BY <2>4, <2>7, <2>8 DEF OwnIdsKept, IdsKept
<1>18. ASSUME NEW s \in Savers, InsertMemoryFails(s)
       PROVE  IdsKept(db)' /\ IdsKept(base)' /\ OwnIdsKept'
  BY <1>1, <1>4, <1>18 DEF InsertMemoryFails
<1>19. ASSUME NEW s \in Savers, ReadRowid(s)
       PROVE  IdsKept(db)' /\ IdsKept(base)' /\ OwnIdsKept'
  <2>1. job' = [job EXCEPT ![s] = [job[s] EXCEPT !.id = lastRowid]]
    BY <1>19 DEF ReadRowid
  <2>2. [job[s] EXCEPT !.id = lastRowid].own = job[s].own
        /\ [job[s] EXCEPT !.id = lastRowid].save = job[s].save
    BY <1>1 DEF Job
  <2>3. \A t \in Savers : job'[t].own = job[t].own /\ job'[t].save = job[t].save
    BY <1>1, <2>1, <2>2
  <2>4. QED
    BY <1>1, <1>4, <2>3, <1>19 DEF ReadRowid
<1>20. ASSUME NEW s \in Savers, LinkMessage(s)
       PROVE  IdsKept(db)' /\ IdsKept(base)' /\ OwnIdsKept'
  <2>1. PICK m \in left[s] :
          IF Linked(s, m) THEN UNCHANGED <<db, lastRowid>>
          ELSE db' = [db EXCEPT !.links = @ \cup {NewLink(s, m)}]
    BY <1>20 DEF LinkMessage
  <2>2. base' = base /\ pc' = pc /\ job' = job /\ pc[s] = "link"
    BY <1>20 DEF LinkMessage
  <2>3. CASE Linked(s, m)
    BY <1>4, <2>1, <2>2, <2>3
  <2>4. CASE ~Linked(s, m)
    <3> DEFINE k == NewLink(s, m)
    <3>1. /\ job[s].own <= db.seq
          /\ job[s].save \in CallNos
          /\ \A r \in db.memories : r.id = job[s].own => r.save = job[s].save
      BY <2>2 DEF OwnIdsKept
    <3>2. m \in Nat
      BY <1>1 DEF ArchiveTypeOK
    <3>3. k \in Link /\ k.save = job[s].save /\ (k.honest => k.mem = job[s].own)
      BY <1>1, <3>1, <3>2 DEF NewLink, Link, Job
    <3>4. db' = [db EXCEPT !.links = @ \cup {k}]
      BY <2>1, <2>4
    <3> HIDE DEF k
    <3>5. /\ db'.links = db.links \cup {k}
          /\ db'.memories = db.memories /\ db'.seq = db.seq
      BY <1>1, <3>3, <3>4, LinkInserted
    <3>6. IsFiniteSet(db.links \cup {k})
      BY FS_AddElement DEF IdsKept
    <3>7. IdsKept(db')
      BY <3>1, <3>3, <3>5, <3>6 DEF IdsKept
    <3>8. OwnIdsKept'
      BY <2>2, <3>5, OwnIdsShrink
    <3>9. QED
      BY <2>2, <3>7, <3>8
  <2>5. QED
    BY <2>3, <2>4
<1>21. ASSUME NEW s \in Savers, LinkFails(s)
       PROVE  IdsKept(db)' /\ IdsKept(base)' /\ OwnIdsKept'
  BY <1>4, <1>21 DEF LinkFails
<1>22. ASSUME NEW s \in Savers, SaveReturns(s)
       PROVE  IdsKept(db)' /\ IdsKept(base)' /\ OwnIdsKept'
  BY <1>1, <1>4, <1>22 DEF SaveReturns
<1>23. ASSUME NEW m \in MessageIds, MarkImportance(m)
       PROVE  IdsKept(db)' /\ IdsKept(base)' /\ OwnIdsKept'
  BY <1>4, <1>23 DEF MarkImportance
<1>24. ASSUME NEW i \in MemoryIds, DeleteMemory(i)
       PROVE  IdsKept(db)' /\ IdsKept(base)' /\ OwnIdsKept'
  BY <1>5, <1>24, ArchiveAssumption DEF DeleteMemory
<1>25. ASSUME NEW c \in Callers, NEW ids \in SUBSET MemoryIds, MergeMemories(c, ids)
       PROVE  IdsKept(db)' /\ IdsKept(base)' /\ OwnIdsKept'
  BY <1>1, <1>3, <1>4, <1>25 DEF MergeMemories
<1>26. ASSUME NEW c \in Callers, MergeDeletes(c)
       PROVE  IdsKept(db)' /\ IdsKept(base)' /\ OwnIdsKept'
  <2>1. PICK i \in left[c] : DeleteRow(i)
    BY <1>26 DEF MergeDeletes
  <2>2. i \in Nat
    BY <1>3 DEF ArchiveTypeOK
  <2>3. QED
    BY <1>5, <1>26, <2>1, <2>2 DEF MergeDeletes
<1>27. ASSUME NEW c \in Callers, MergeReturns(c)
       PROVE  IdsKept(db)' /\ IdsKept(base)' /\ OwnIdsKept'
  BY <1>1, <1>3, <1>4, <1>27 DEF MergeReturns
<1>28. ASSUME ProcessGone, db' \in {db, base}
       PROVE  IdsKept(db)' /\ IdsKept(base)' /\ OwnIdsKept'
  <2>1. IdsKept(db') /\ IdsKept(base')
    BY <1>28, EmptyType DEF ProcessGone
  <2>2. OwnIdsKept'
    BY <1>28 DEF OwnIdsKept, ProcessGone
  <2>3. QED
    BY <2>1, <2>2
<1>29. CASE Close
  BY <1>28, <1>29 DEF Close
<1>30. CASE Crash
  BY <1>28, <1>30 DEF Crash
<1>31. CASE Restart
  BY <1>4, <1>31 DEF Restart
<1>32. CASE UNCHANGED vars
  BY <1>4, <1>32 DEF vars
<1>40. QED
  BY <1>10, <1>11, <1>12, <1>13, <1>14, <1>15, <1>16, <1>17, <1>18, <1>19, <1>20, <1>21,
     <1>22, <1>23, <1>24, <1>25, <1>26, <1>27, <1>29, <1>30, <1>31, <1>32
  DEF Next, FlushStep, WorkerStep, CallerStep, SaveStep

-----------------------------------------------------------------------------
(* The inductive invariant of the archive, for every instance.              *)
THEOREM ArchiveInvariant == Spec => []ArchiveInv
<1>1. Init => ArchiveInv
  BY InitInv
<1>2. ArchiveInv /\ [Next]_vars => ArchiveInv'
  BY TypeStep, IdsStep DEF ArchiveInv
<1>3. QED
  BY <1>1, <1>2, PTL DEF Spec

(* Type correctness: the variables keep their types, and no memory has an   *)
(* id above the AUTOINCREMENT counter, through rollbacks too.               *)
THEOREM ArchiveTypeCorrect == Spec => []ArchiveTypeOK
<1>1. ArchiveInv => ArchiveTypeOK
  BY DEF ArchiveInv
<1>2. QED
  BY <1>1, ArchiveInvariant, PTL

(* Links that save_memory wrote under the id its insert was given never     *)
(* point to another memory, whatever is deleted, merged or rolled back.     *)
THEOREM LinksStayRight == Spec => []LinksKeepTheirMemory
<1>1. ArchiveInv => LinksKeepTheirMemory
  BY DEF ArchiveInv, IdsKept, LinksKeepTheirMemory
<1>2. QED
  BY <1>1, ArchiveInvariant, PTL

-----------------------------------------------------------------------------
(* A memory saved stays until it is deleted. *)

(* The numbers of the saves so far.                                         *)
LEMMA SaveNumbers ==
  ASSUME ArchiveInv
  PROVE  /\ saves \in Nat
         /\ db \in Database /\ base \in Database
         /\ pc \in [Savers -> SaverPC] /\ job \in [Savers -> Job]
         /\ \A m \in db.memories : m.save \in Nat
         /\ \A m \in base.memories : m.save \in Nat
<1>1. ArchiveTypeOK
  BY DEF ArchiveInv
<1>2. saves \in 0 .. MaxSaves /\ MaxSaves \in Nat
  BY <1>1, ArchiveAssumption DEF ArchiveTypeOK
<1>3. db \in Database /\ base \in Database
  BY <1>1 DEF ArchiveTypeOK
<1>4. \A d \in Database : \A m \in d.memories : m.save \in Nat
  BY <1>2 DEF Database, Memory, CallNos
<1>5. QED
  BY <1>1, <1>2, <1>3, <1>4 DEF ArchiveTypeOK

LEMMA InitSaves == Init => SavesInv
<1> SUFFICES ASSUME Init PROVE SavesInv
  OBVIOUS
<1>1. SavesCounted
  BY EmptyType DEF Init, SavesCounted, OneRowEach
<1>2. Accounted(db, lost)
  BY DEF Init, Accounted
<1>3. QED
  BY <1>1, <1>2 DEF Init, SavesInv

(* A step that leaves the memories alone: it may touch saves, and one of    *)
(* them may return.                                                         *)
LEMMA QuietStep ==
  ASSUME SavesInv,
         db'.memories = db.memories,
         UNCHANGED <<base, open, saves, removed, lost>>,
         risky \subseteq risky', risky' \subseteq 1 .. saves,
         \A f \in finished' : f.save \in 1 .. saves,
         \A s \in Savers : pc'[s] \in {"rowid", "link"} =>
           pc[s] \in {"rowid", "link"} /\ job'[s].save = job[s].save
  PROVE  SavesInv'
<1>1. SavesCounted'
  BY DEF SavesInv, SavesCounted, OneRowEach
<1>2. Accounted(db, lost)'
  BY DEF SavesInv, Accounted, HasSave
<1>3. ASSUME open'
      PROVE  Accounted(base, lost \cup risky)'
  BY <1>3 DEF SavesInv, Accounted, HasSave
<1>4. QED
  BY <1>1, <1>2, <1>3 DEF SavesInv

(* A deletion takes the only row of each save it removes, and marks those   *)
(* saves in an open transaction.                                            *)
LEMMA DeletionStep ==
  ASSUME ArchiveInv, SavesInv, NEW i \in Nat, DeleteRow(i),
         UNCHANGED <<base, open, saves, lost, finished, pc, job>>
  PROVE  SavesInv'
<1> DEFINE gone == {m \in db.memories : m.id = i}
           out  == {m.save : m \in gone}
<1>1. /\ removed' = removed \cup out
      /\ risky' = IF open THEN risky \cup out ELSE risky
      /\ db' = [db EXCEPT !.memories = @ \ gone]
  BY DEF DeleteRow, Touch
<1>2. saves \in Nat /\ db \in Database /\ \A m \in db.memories : m.save \in Nat
  BY SaveNumbers
<1>3. gone \subseteq db.memories
  OBVIOUS
<1>4. \A n : n \in out <=> \E m \in gone : m.save = n
  OBVIOUS
<1> HIDE DEF gone, out
<1>5. db'.memories = db.memories \ gone
  BY <1>1, <1>2, MemoriesDeleted
<1>6. OneRowEach(db) /\ OneRowEach(base)
  BY DEF SavesInv, SavesCounted
<1>7. out \subseteq 1 .. saves
  <2>1. ASSUME NEW n \in out
        PROVE  n \in 1 .. saves
    <3>1. PICK m \in gone : m.save = n
      BY <1>4
    <3>2. m \in db.memories /\ m.save <= saves
      BY <1>3, <1>6 DEF OneRowEach
    <3>3. m.save \in CallNos
      BY <1>2, <3>2 DEF Database, Memory
    <3>4. m.save >= 1 /\ m.save \in Nat
      BY <3>3, ArchiveAssumption DEF CallNos
    <3>5. QED
      BY <1>2, <3>1, <3>2, <3>4
  <2>2. QED
    BY <2>1
<1>8. removed \cup lost \cup risky \subseteq 1 .. saves
  BY DEF SavesInv, SavesCounted
<1>9. SavesCounted'
  <2>1. removed' \cup lost' \cup risky' \subseteq 1 .. saves'
    BY <1>1, <1>7, <1>8
  <2>2. OneRowEach(db)'
    BY <1>5, <1>6 DEF OneRowEach
  <2>3. OneRowEach(base)'
    BY <1>6 DEF OneRowEach
  <2>4. QED
    BY <2>1, <2>2, <2>3 DEF SavesInv, SavesCounted
<1>10. Accounted(db, lost)'
  <2>1. ASSUME NEW n \in 1 .. saves, n \notin lost
        PROVE  HasSave(db', n) <=> n \notin removed'
    <3>1. HasSave(db, n) <=> n \notin removed
      BY <2>1 DEF SavesInv, Accounted
    <3>2. CASE n \in out
      <4>1. PICK m \in gone : m.save = n
        BY <1>4, <3>2
      <4>2. \A r \in db.memories : r.save = n => r = m
        BY <1>3, <1>6, <4>1 DEF OneRowEach
      <4>3. QED
        BY <1>1, <1>5, <3>2, <4>1, <4>2 DEF HasSave
    <3>3. CASE n \notin out
      BY <1>1, <1>4, <1>5, <3>1, <3>3 DEF HasSave
    <3>4. QED
      BY <3>2, <3>3
  <2>2. QED
    BY <2>1 DEF Accounted
<1>11. ASSUME open'
       PROVE  Accounted(base, lost \cup risky)'
  BY <1>1, <1>11 DEF SavesInv, Accounted
<1>12. QED
  BY <1>9, <1>10, <1>11 DEF SavesInv

(* An insert numbers a new save, which no deletion and no rollback knows.   *)
LEMMA InsertionStep ==
  ASSUME ArchiveInv, SavesInv, NEW s \in Savers, InsertMemory(s)
  PROVE  SavesInv'
<1> DEFINE no == saves + 1
           new == [id |-> db.seq + 1, save |-> no, group |-> job[s].group]
<1>1. saves \in Nat /\ db \in Database /\ job \in [Savers -> Job] /\ pc \in [Savers -> SaverPC]
  BY SaveNumbers
<1>2. /\ db' = [db EXCEPT !.memories = @ \cup {new}, !.seq = db.seq + 1]
      /\ risky' = IF open THEN risky \cup {no} ELSE risky
      /\ saves' = no
      /\ pc' = [pc EXCEPT ![s] = "rowid"]
      /\ job' = [job EXCEPT ![s] = [job[s] EXCEPT !.save = no, !.own = db.seq + 1]]
      /\ UNCHANGED <<open, base, finished, removed, lost>>
  BY DEF InsertMemory, Touch, Goto
<1>3. new \in Memory /\ new.save = no
  <2>1. saves \in 0 .. MaxSaves /\ MaxSaves \in Nat /\ saves < MaxSaves
    BY ArchiveAssumption DEF ArchiveInv, ArchiveTypeOK, InsertMemory
  <2>2. db.seq + 1 \in Nat /\ job[s].group \in Groups
    BY <1>1 DEF Database, Job
  <2>3. QED
    BY <2>1, <2>2 DEF Memory, CallNos
<1>4. job'[s].save = no
  BY <1>1, <1>2 DEF Job
<1>5. no \in Nat /\ no > saves /\ 1 .. no = (1 .. saves) \cup {no} /\ no \notin 1 .. saves
  BY <1>1
<1> HIDE DEF new
<1>6. db'.memories = db.memories \cup {new}
  BY <1>1, <1>2, <1>3, MemoryInserted
<1>7. /\ removed \cup lost \cup risky \subseteq 1 .. saves
      /\ OneRowEach(db) /\ OneRowEach(base)
      /\ \A m \in db.memories : m.save \in Nat
      /\ \A m \in base.memories : m.save \in Nat
  BY SaveNumbers DEF SavesInv, SavesCounted
<1> HIDE DEF no
<1>8. OneRowEach(db)' /\ OneRowEach(base)'
  BY <1>1, <1>2, <1>3, <1>5, <1>6, <1>7 DEF OneRowEach
<1>9. removed' \cup lost' \cup risky' \subseteq 1 .. saves'
  BY <1>2, <1>5, <1>7
<1>10. \A t \in Savers : pc'[t] \in {"rowid", "link"} => job'[t].save \in 1 .. saves'
  BY <1>1, <1>2, <1>4, <1>5 DEF SavesInv, SavesCounted
<1>11. \A f \in finished' : f.save \in 1 .. saves'
  BY <1>2, <1>5 DEF SavesInv, SavesCounted
<1>12. SavesCounted'
  BY <1>8, <1>9, <1>10, <1>11 DEF SavesCounted
<1>13. ASSUME NEW n \in 1 .. saves', n \notin lost
       PROVE  HasSave(db', n) <=> n \notin removed
  <2>1. CASE n = no
    BY <1>3, <1>5, <1>6, <1>7, <2>1 DEF HasSave
  <2>2. CASE n # no
    <3>1. n \in 1 .. saves
      BY <1>2, <1>5, <2>2
    <3>2. HasSave(db, n) <=> n \notin removed
      BY <1>13, <3>1 DEF SavesInv, Accounted
    <3>3. QED
      BY <1>3, <1>6, <2>2, <3>2 DEF HasSave
  <2>3. QED
    BY <2>1, <2>2
<1>14. Accounted(db, lost)'
  BY <1>2, <1>13 DEF Accounted
<1>15. ASSUME open'
       PROVE  Accounted(base, lost \cup risky)'
  BY <1>2, <1>5, <1>15 DEF SavesInv, Accounted
<1>16. QED
  BY <1>12, <1>14, <1>15 DEF SavesInv

(* The process ends: orderly, or with a rollback of the open transaction.   *)
LEMMA EndStep ==
  ASSUME SavesInv, ProcessGone,
         \/ ~open /\ db' = db /\ lost' = lost
         \/ db' = (IF open THEN base ELSE db) /\ lost' = lost \cup risky,
         UNCHANGED <<saves, finished, removed>>
  PROVE  SavesInv'
<1>1. /\ open' = FALSE /\ base' = Empty /\ risky' = {}
      /\ \A s \in Savers : pc'[s] = "idle"
  BY DEF ProcessGone
<1>2. SavesCounted'
  <2>1. removed' \cup lost' \cup risky' \subseteq 1 .. saves'
    BY <1>1 DEF SavesInv, SavesCounted
  <2>2. OneRowEach(db)'
    BY DEF SavesInv, SavesCounted, OneRowEach
  <2>3. OneRowEach(base)'
    BY <1>1, EmptyType DEF OneRowEach
  <2>4. QED
    BY <1>1, <2>1, <2>2, <2>3 DEF SavesInv, SavesCounted
<1>3. Accounted(db, lost)'
  BY DEF SavesInv, Accounted, HasSave
<1>4. QED
  BY <1>1, <1>2, <1>3 DEF SavesInv

LEMMA SavesStep ==
  ASSUME ArchiveInv, SavesInv, [Next]_vars
  PROVE  SavesInv'
<1> USE DEF stores, savers, history, Goto
<1>1. /\ db \in Database
      /\ pc \in [Savers -> SaverPC] /\ job \in [Savers -> Job]
  BY SaveNumbers
<1>2. (\A c \in Callers : c \in Savers) /\ Worker \in Savers
  BY DEF Savers
<1>3. /\ risky \subseteq 1 .. saves
      /\ \A f \in finished : f.save \in 1 .. saves
      /\ \A s \in Savers : pc[s] \in {"rowid", "link"} => job[s].save \in 1 .. saves
  BY DEF SavesInv, SavesCounted
<1>4. ASSUME db'.memories = db.memories,
             UNCHANGED <<base, open, saves, removed, lost, finished, risky>>,
             \A s \in Savers : pc'[s] \in {"rowid", "link"} =>
               pc[s] \in {"rowid", "link"} /\ job'[s].save = job[s].save
      PROVE  SavesInv'
  BY <1>3, <1>4, QuietStep
<1>5. CASE BeginFlush
  <2>1. SavesCounted'
    BY <1>5 DEF BeginFlush, SavesInv, SavesCounted, OneRowEach
  <2>2. QED
    BY <1>5, <2>1 DEF BeginFlush, SavesInv, Accounted, HasSave
<1>6. ASSUME NEW g \in Groups, InsertMessage(g)
      PROVE  SavesInv'
  <2>1. db'.memories = db.memories
    BY <1>1, <1>6, MessageInserted DEF InsertMessage
  <2>2. QED
    BY <1>4, <1>6, <2>1 DEF InsertMessage
<1>7. CASE CommitFlush
  <2>1. /\ open' = FALSE /\ base' = Empty /\ risky' = {}
        /\ UNCHANGED <<db, pc, job, saves, finished, removed, lost>>
    BY <1>7 DEF CommitFlush
  <2>2. SavesCounted'
    BY <2>1, EmptyType DEF SavesInv, SavesCounted, OneRowEach
  <2>3. Accounted(db, lost)'
    BY <2>1 DEF SavesInv, Accounted, HasSave
  <2>4. QED
    BY <2>1, <2>2, <2>3 DEF SavesInv
<1>8. ASSUME NEW c \in Callers, NEW g \in Groups, NEW m \in MessageIds, Recall(c, g, m)
      PROVE  SavesInv'
  BY <1>1, <1>2, <1>4, <1>8 DEF Recall
<1>9. ASSUME NEW g \in Groups, NEW l \in Levels, StartSummary(g, l)
      PROVE  SavesInv'
  BY <1>1, <1>2, <1>4, <1>9 DEF StartSummary
<1>10. CASE Query
  BY <1>1, <1>2, <1>4, <1>10 DEF Query, NothingToSave, SaveSummary
<1>11. CASE Collect
  BY <1>1, <1>2, <1>4, <1>11 DEF Collect, NothingToSave, SaveSummary
<1>12. ASSUME NEW s \in Savers, InsertMemory(s)
       PROVE  SavesInv'
  BY <1>12, InsertionStep
<1>13. ASSUME NEW s \in Savers, InsertMemoryFails(s)
       PROVE  SavesInv'
  BY <1>1, <1>4, <1>13 DEF InsertMemoryFails
<1>14. ASSUME NEW s \in Savers, ReadRowid(s)
       PROVE  SavesInv'
  <2>1. job' = [job EXCEPT ![s] = [job[s] EXCEPT !.id = lastRowid]]
    BY <1>14 DEF ReadRowid
  <2>2. [job[s] EXCEPT !.id = lastRowid].save = job[s].save
    BY <1>1 DEF Job
  <2>3. \A t \in Savers : job'[t].save = job[t].save
    BY <1>1, <2>1, <2>2
  <2>4. QED
    BY <1>1, <1>4, <2>3, <1>14 DEF ReadRowid
<1>15. ASSUME NEW s \in Savers, LinkMessage(s)
       PROVE  SavesInv'
  <2>1. PICK m \in left[s] :
          IF Linked(s, m) THEN UNCHANGED <<db, lastRowid>>
          ELSE db' = [db EXCEPT !.links = @ \cup {NewLink(s, m)}]
    BY <1>15 DEF LinkMessage
  <2>2. db'.memories = db.memories
    BY <1>1, <2>1 DEF Database
  <2>3. job[s].save \in 1 .. saves
    BY <1>3, <1>15 DEF LinkMessage
  <2>4. risky \subseteq risky' /\ risky' \subseteq 1 .. saves
    BY <1>3, <2>3, <1>15 DEF LinkMessage, Touch
  <2>5. QED
    BY <1>3, <1>15, <2>2, <2>4, QuietStep DEF LinkMessage
<1>16. ASSUME NEW s \in Savers, LinkFails(s)
       PROVE  SavesInv'
  BY <1>4, <1>16 DEF LinkFails
<1>17. ASSUME NEW s \in Savers, SaveReturns(s)
       PROVE  SavesInv'
  <2>1. job[s].save \in 1 .. saves
    BY <1>3, <1>17 DEF SaveReturns
  <2>2. \A f \in finished' : f.save \in 1 .. saves
    BY <1>3, <2>1, <1>17 DEF SaveReturns
  <2>3. \A t \in Savers : pc'[t] \in {"rowid", "link"} =>
          pc[t] \in {"rowid", "link"} /\ job'[t].save = job[t].save
    BY <1>1, <1>17 DEF SaveReturns
  <2>4. QED
    BY <1>3, <2>2, <2>3, <1>17, QuietStep DEF SaveReturns
<1>18. ASSUME NEW m \in MessageIds, MarkImportance(m)
       PROVE  SavesInv'
  BY <1>4, <1>18 DEF MarkImportance
<1>19. ASSUME NEW i \in MemoryIds, DeleteMemory(i)
       PROVE  SavesInv'
  BY <1>19, DeletionStep, ArchiveAssumption DEF DeleteMemory
<1>20. ASSUME NEW c \in Callers, NEW ids \in SUBSET MemoryIds, MergeMemories(c, ids)
       PROVE  SavesInv'
  BY <1>1, <1>2, <1>4, <1>20 DEF MergeMemories
<1>21. ASSUME NEW c \in Callers, MergeDeletes(c)
       PROVE  SavesInv'
  <2>1. PICK i \in left[c] : DeleteRow(i)
    BY <1>21 DEF MergeDeletes
  <2>2. i \in Nat
    BY <1>2 DEF ArchiveInv, ArchiveTypeOK
  <2>3. QED
    BY <1>21, <2>1, <2>2, DeletionStep DEF MergeDeletes
<1>22. ASSUME NEW c \in Callers, MergeReturns(c)
       PROVE  SavesInv'
  BY <1>1, <1>2, <1>4, <1>22 DEF MergeReturns
<1>23. CASE Close
  BY <1>23, EndStep DEF Close
<1>24. CASE Crash
  BY <1>24, EndStep DEF Crash
<1>25. CASE Restart
  BY <1>4, <1>25 DEF Restart
<1>26. CASE UNCHANGED vars
  BY <1>4, <1>26 DEF vars
<1>40. QED
  BY <1>5, <1>6, <1>7, <1>8, <1>9, <1>10, <1>11, <1>12, <1>13, <1>14, <1>15, <1>16, <1>17,
     <1>18, <1>19, <1>20, <1>21, <1>22, <1>23, <1>24, <1>25, <1>26
  DEF Next, FlushStep, WorkerStep, CallerStep, SaveStep

(* A memory whose save returned is there until it is deleted and away from  *)
(* then on, but for saves and deletions a crash rolled back together with   *)
(* the storage thread's transaction they fell into.                         *)
THEOREM MemoriesStay == Spec => []SavedUntilDeleted
<1>1. Init => SavesInv
  BY InitSaves
<1>2. ArchiveInv /\ SavesInv /\ [Next]_vars => SavesInv'
  BY SavesStep
<1>3. SavesInv => SavedUntilDeleted
  BY DEF SavesInv, SavesCounted, Accounted, SavedUntilDeleted
<1>4. QED
  BY <1>1, <1>2, <1>3, ArchiveInvariant, PTL DEF Spec

-----------------------------------------------------------------------------
(* What was saved can be found by the messages it cites. *)

LinkedIn(d, i, m) == \E l \in d.links : l.mem = i /\ l.msg = m
RowIn(d, n, g, i) == \E r \in d.memories : r.save = n /\ r.group = g /\ r.id = i

(* A save that returned has its row, linked to all it cites, except where   *)
(* FoundByReference excepts it.                                             *)
FinishedFound(d, except) ==
  \A f \in finished :
    f.honest /\ f.save \notin removed \cup unlinked \cup except
      => \A m \in f.cites : \E r \in d.memories :
           r.save = f.save /\ r.group = f.group /\ LinkedIn(d, r.id, m)

(* A save at work has its row under the id its insert was given, and is     *)
(* linked, under the id it read, to what its loop has come by.              *)
WorkFound(d, except) ==
  \A s \in Savers :
    /\ pc[s] \in {"rowid", "link"} /\ job[s].save \notin removed \cup except
         => RowIn(d, job[s].save, job[s].group, job[s].own)
    /\ pc[s] = "link" /\ job[s].save \notin unlinked \cup except
         => \A m \in job[s].cites \ left[s] : LinkedIn(d, job[s].id, m)

(* Both hold of the database, and of what a crash goes back to but for the  *)
(* saves that the open transaction touched.                                 *)
FoundInv ==
  /\ FinishedFound(db, lost) /\ WorkFound(db, lost)
  /\ open => FinishedFound(base, lost \cup risky) /\ WorkFound(base, lost \cup risky)

(* What the statements do: rows go by deletions only, links stay.           *)
Keeps ==
  /\ \A r \in db.memories : r.save \in removed' \/ r \in db'.memories
  /\ db.links \subseteq db'.links
  /\ removed \subseteq removed' /\ unlinked \subseteq unlinked' /\ risky \subseteq risky'
  /\ UNCHANGED <<open, base, lost>>

(* A save that goes on has the row and the job it had, and a message that   *)
(* its loop has come by is linked, unless the insert failed.                *)
GoesOn(s) ==
  /\ pc[s] \in {"rowid", "link"}
  /\ /\ job'[s].save = job[s].save /\ job'[s].group = job[s].group
     /\ job'[s].own = job[s].own /\ job'[s].cites = job[s].cites
  /\ pc'[s] = "link" => \A m \in job[s].cites \ left'[s] :
       \/ job[s].save \in unlinked'
       \/ pc[s] = "link" /\ m \notin left[s] /\ job'[s].id = job[s].id
       \/ LinkedIn(db', job'[s].id, m) /\ (open => job[s].save \in risky')

(* A save whose row was just inserted.                                      *)
Inserted(s) ==
  /\ pc'[s] = "rowid"
  /\ RowIn(db', job'[s].save, job'[s].group, job'[s].own)
  /\ open => job'[s].save \in risky'

LEMMA WorkGoesOn ==
  ASSUME FoundInv, Keeps,
         \A s \in Savers : pc'[s] \in {"rowid", "link"} => GoesOn(s) \/ Inserted(s)
  PROVE  WorkFound(db, lost)' /\ (open' => WorkFound(base, lost \cup risky)')
<1>1. ASSUME NEW s \in Savers, pc'[s] \in {"rowid", "link"}, job'[s].save \notin removed' \cup lost'
      PROVE  RowIn(db', job'[s].save, job'[s].group, job'[s].own)
  BY <1>1 DEF FoundInv, WorkFound, Keeps, GoesOn, Inserted, RowIn
<1>2. ASSUME NEW s \in Savers, pc'[s] = "link", job'[s].save \notin unlinked' \cup lost',
             NEW m \in job'[s].cites \ left'[s]
      PROVE  LinkedIn(db', job'[s].id, m)
  BY <1>2 DEF FoundInv, WorkFound, Keeps, GoesOn, Inserted, LinkedIn
<1>3. ASSUME open, NEW s \in Savers, pc'[s] \in {"rowid", "link"},
             job'[s].save \notin removed' \cup lost' \cup risky'
      PROVE  RowIn(base', job'[s].save, job'[s].group, job'[s].own)
  BY <1>3 DEF FoundInv, WorkFound, Keeps, GoesOn, Inserted, RowIn
<1>4. ASSUME open, NEW s \in Savers, pc'[s] = "link",
             job'[s].save \notin unlinked' \cup lost' \cup risky', NEW m \in job'[s].cites \ left'[s]
      PROVE  LinkedIn(base', job'[s].id, m)
  BY <1>4 DEF FoundInv, WorkFound, Keeps, GoesOn, Inserted, LinkedIn
<1> QED  BY <1>1, <1>2, <1>3, <1>4 DEF WorkFound, Keeps, RowIn, LinkedIn

LEMMA FinishedStay ==
  ASSUME FoundInv, Keeps, finished' = finished
  PROVE  FinishedFound(db, lost)' /\ (open' => FinishedFound(base, lost \cup risky)')
<1>1. FinishedFound(db, lost)'
  BY DEF FoundInv, FinishedFound, Keeps, LinkedIn
<1>2. ASSUME open  PROVE FinishedFound(base, lost \cup risky)'
  BY <1>2 DEF FoundInv, FinishedFound, Keeps, LinkedIn
<1> QED  BY <1>1, <1>2 DEF Keeps

(* A save that returns has come by all it cites.                            *)
LEMMA ReturnFinds ==
  ASSUME FoundInv, NEW s \in Savers, SaveReturns(s)
  PROVE  FinishedFound(db, lost)' /\ (open' => FinishedFound(base, lost \cup risky)')
<1> DEFINE new == [save |-> job[s].save, group |-> job[s].group, cites |-> job[s].cites,
                   honest |-> job[s].id = job[s].own]
<1>1. /\ pc[s] = "link" /\ left[s] = {} /\ finished' = finished \cup {new}
      /\ UNCHANGED <<open, db, base, removed, unlinked, risky, lost>>
  BY DEF SaveReturns, Goto, stores
<1>2. /\ new.save = job[s].save /\ new.group = job[s].group /\ new.cites = job[s].cites
      /\ new.honest => job[s].id = job[s].own
  OBVIOUS
<1> HIDE DEF new
<1>3. ASSUME NEW f \in finished', f.honest, f.save \notin removed \cup unlinked \cup lost,
             NEW m \in f.cites
      PROVE  \E r \in db.memories : r.save = f.save /\ r.group = f.group /\ LinkedIn(db, r.id, m)
  BY <1>1, <1>2, <1>3 DEF FoundInv, FinishedFound, WorkFound, RowIn
<1>4. ASSUME open, NEW f \in finished', f.honest,
             f.save \notin removed \cup unlinked \cup (lost \cup risky), NEW m \in f.cites
      PROVE  \E r \in base.memories : r.save = f.save /\ r.group = f.group /\ LinkedIn(base, r.id, m)
  BY <1>1, <1>2, <1>4 DEF FoundInv, FinishedFound, WorkFound, RowIn
<1> QED  BY <1>1, <1>3, <1>4 DEF FinishedFound, LinkedIn

LEMMA FoundStep ==
  ASSUME ArchiveInv, FoundInv, [Next]_vars
  PROVE  FoundInv'
<1> USE DEF stores, savers, history, Goto
<1>1. /\ db \in Database /\ pc \in [Savers -> SaverPC] /\ job \in [Savers -> Job]
      /\ left \in [Savers -> SUBSET Nat]
  BY SaveNumbers DEF ArchiveInv, ArchiveTypeOK
<1>2. (\A c \in Callers : c \in Savers) /\ Worker \in Savers
  BY DEF Savers
<1>3. ASSUME Keeps, finished' = finished,
             \A s \in Savers : pc'[s] \in {"rowid", "link"} =>
               pc'[s] = pc[s] /\ job'[s] = job[s] /\ left'[s] = left[s]
      PROVE  FoundInv'
  <2>1. \A s \in Savers : pc'[s] \in {"rowid", "link"} => GoesOn(s)
    BY <1>3 DEF GoesOn
  <2> QED  BY <1>3, <2>1, WorkGoesOn, FinishedStay DEF FoundInv
<1>4. ASSUME UNCHANGED <<open, db, base, removed, unlinked, risky, lost>>  PROVE Keeps
  BY <1>4 DEF Keeps
<1>5. ASSUME NEW i \in Nat, DeleteRow(i), UNCHANGED <<open, base, unlinked, lost>>  PROVE Keeps
  <2> DEFINE gone == {m \in db.memories : m.id = i}
  <2>1. db' = [db EXCEPT !.memories = @ \ gone] /\ removed' = removed \cup {m.save : m \in gone}
        /\ risky \subseteq risky'
    BY <1>5 DEF DeleteRow, Touch
  <2>2. \A r \in gone : r.save \in removed'
    BY <2>1
  <2> HIDE DEF gone
  <2>3. db'.memories = db.memories \ gone /\ db'.links = db.links
    BY <1>1, <2>1, MemoriesDeleted
  <2> QED  BY <1>5, <2>1, <2>2, <2>3 DEF Keeps
<1>6. CASE BeginFlush
  BY <1>6 DEF BeginFlush, FoundInv, FinishedFound, WorkFound, RowIn, LinkedIn
<1>7. ASSUME NEW g \in Groups, InsertMessage(g)  PROVE FoundInv'
  <2>1. Keeps
    BY <1>1, <1>7, MessageInserted DEF InsertMessage, Keeps
  <2> QED  BY <1>3, <1>7, <2>1 DEF InsertMessage
<1>8. CASE CommitFlush
  BY <1>8 DEF CommitFlush, FoundInv, FinishedFound, WorkFound, RowIn, LinkedIn
<1>9. ASSUME NEW c \in Callers, NEW g \in Groups, NEW m \in MessageIds, Recall(c, g, m)
      PROVE  FoundInv'
  BY <1>1, <1>2, <1>3, <1>4, <1>9 DEF Recall
<1>10. ASSUME NEW g \in Groups, NEW l \in Levels, StartSummary(g, l)  PROVE FoundInv'
  BY <1>1, <1>2, <1>3, <1>4, <1>10 DEF StartSummary
<1>11. CASE Query
  BY <1>1, <1>2, <1>3, <1>4, <1>11 DEF Query, NothingToSave, SaveSummary
<1>12. CASE Collect
  BY <1>1, <1>2, <1>3, <1>4, <1>12 DEF Collect, NothingToSave, SaveSummary
<1>13. ASSUME NEW s \in Savers, InsertMemory(s)  PROVE FoundInv'
  <2> DEFINE no == saves + 1
             new == [id |-> db.seq + 1, save |-> no, group |-> job[s].group]
  <2>1. /\ db' = [db EXCEPT !.memories = @ \cup {new}, !.seq = db.seq + 1]
        /\ risky' = (IF open THEN risky \cup {no} ELSE risky)
        /\ pc' = [pc EXCEPT ![s] = "rowid"]
        /\ job' = [job EXCEPT ![s] = [job[s] EXCEPT !.save = no, !.own = db.seq + 1]]
        /\ UNCHANGED <<open, base, left, finished, removed, unlinked, lost>>
    BY <1>13 DEF InsertMemory, Touch
  <2>2. new \in Memory
    <3>1. no \in CallNos
      BY <1>13, ArchiveAssumption DEF InsertMemory, CallNos, ArchiveInv, ArchiveTypeOK
    <3>2. db.seq + 1 \in Nat /\ job[s].group \in Groups
      BY <1>1 DEF Database, Job
    <3> QED  BY <3>1, <3>2 DEF Memory
  <2>3. job'[s].save = no /\ job'[s].own = db.seq + 1 /\ job'[s].group = job[s].group
    BY <1>1, <2>1 DEF Job
  <2>4. new.id = db.seq + 1 /\ new.save = no /\ new.group = job[s].group
    OBVIOUS
  <2> HIDE DEF new, no
  <2>5. db'.memories = db.memories \cup {new} /\ db'.links = db.links
    BY <1>1, <2>1, <2>2, MemoryInserted
  <2>6. Keeps
    BY <2>1, <2>5 DEF Keeps
  <2>7. Inserted(s)
    BY <1>1, <2>1, <2>3, <2>4, <2>5 DEF Inserted, RowIn
  <2>8. ASSUME NEW t \in Savers, t # s, pc'[t] \in {"rowid", "link"}  PROVE GoesOn(t)
    <3>1. pc'[t] = pc[t] /\ job'[t] = job[t] /\ left'[t] = left[t]
      BY <1>1, <2>1, <2>8
    <3> QED  BY <2>8, <3>1 DEF GoesOn
  <2> QED  BY <2>1, <2>6, <2>7, <2>8, WorkGoesOn, FinishedStay DEF FoundInv
<1>14. ASSUME NEW s \in Savers, InsertMemoryFails(s)  PROVE FoundInv'
  BY <1>1, <1>3, <1>4, <1>14 DEF InsertMemoryFails
<1>15. ASSUME NEW s \in Savers, ReadRowid(s)  PROVE FoundInv'
  <2>1. /\ pc[s] = "rowid" /\ pc' = [pc EXCEPT ![s] = "link"]
        /\ job' = [job EXCEPT ![s] = [job[s] EXCEPT !.id = lastRowid]]
        /\ left' = [left EXCEPT ![s] = job[s].cites]
    BY <1>15 DEF ReadRowid
  <2>2. Keeps /\ finished' = finished
    BY <1>4, <1>15 DEF ReadRowid
  <2>3. GoesOn(s)
    <3>1. /\ job'[s].save = job[s].save /\ job'[s].group = job[s].group
          /\ job'[s].own = job[s].own /\ job'[s].cites = job[s].cites
      BY <1>1, <2>1 DEF Job
    <3>2. left'[s] = job[s].cites
      BY <1>1, <2>1
    <3> QED  BY <2>1, <3>1, <3>2 DEF GoesOn
  <2>4. ASSUME NEW t \in Savers, t # s, pc'[t] \in {"rowid", "link"}  PROVE GoesOn(t)
    <3>1. pc'[t] = pc[t] /\ job'[t] = job[t] /\ left'[t] = left[t]
      BY <1>1, <2>1, <2>4
    <3> QED  BY <2>4, <3>1 DEF GoesOn
  <2> QED  BY <2>2, <2>3, <2>4, WorkGoesOn, FinishedStay DEF FoundInv
<1>16. ASSUME NEW s \in Savers, LinkMessage(s)  PROVE FoundInv'
  <2>1. PICK m \in left[s] :
          /\ left' = [left EXCEPT ![s] = @ \ {m}]
          /\ IF Linked(s, m) THEN UNCHANGED <<db, lastRowid>>
             ELSE /\ db' = [db EXCEPT !.links = @ \cup {NewLink(s, m)}]
                  /\ lastRowid' = Cardinality(db.links) + 1
    BY <1>16 DEF LinkMessage
  <2>2. /\ pc[s] = "link" /\ risky' = (IF open THEN risky \cup {job[s].save} ELSE risky)
        /\ UNCHANGED <<open, base, pc, job, finished, removed, unlinked, lost>>
    BY <1>16 DEF LinkMessage, Touch
  <2>3. db'.memories = db.memories /\ db.links \subseteq db'.links /\ LinkedIn(db', job[s].id, m)
    <3>1. CASE Linked(s, m)
      BY <2>1, <3>1 DEF Linked, LinkedIn
    <3>2. CASE ~Linked(s, m)
      <4>1. db' = [db EXCEPT !.links = db.links \cup {NewLink(s, m)}]
        BY <2>1, <3>2
      <4>2. db'.memories = db.memories /\ db'.links = db.links \cup {NewLink(s, m)}
        BY <1>1, <4>1 DEF Database
      <4>3. NewLink(s, m).mem = job[s].id /\ NewLink(s, m).msg = m
        BY DEF NewLink
      <4> QED  BY <4>2, <4>3 DEF LinkedIn
    <3> QED  BY <3>1, <3>2
  <2>4. Keeps
    BY <2>2, <2>3 DEF Keeps
  <2>5. GoesOn(s)
    <3>1. left'[s] = left[s] \ {m}
      BY <1>1, <2>1
    <3> QED  BY <2>2, <2>3, <3>1 DEF GoesOn
  <2>6. ASSUME NEW t \in Savers, t # s, pc'[t] \in {"rowid", "link"}  PROVE GoesOn(t)
    <3>1. pc'[t] = pc[t] /\ job'[t] = job[t] /\ left'[t] = left[t]
      BY <1>1, <2>1, <2>2, <2>6
    <3> QED  BY <2>6, <3>1 DEF GoesOn
  <2> QED  BY <2>2, <2>4, <2>5, <2>6, WorkGoesOn, FinishedStay DEF FoundInv
<1>17. ASSUME NEW s \in Savers, LinkFails(s)  PROVE FoundInv'
  <2>1. /\ pc[s] = "link" /\ unlinked' = unlinked \cup {job[s].save}
        /\ UNCHANGED <<open, db, base, pc, job, finished, removed, risky, lost>>
    BY <1>17 DEF LinkFails
  <2>2. Keeps /\ GoesOn(s)
    BY <2>1 DEF Keeps, GoesOn
  <2>3. ASSUME NEW t \in Savers, t # s, pc'[t] \in {"rowid", "link"}  PROVE GoesOn(t)
    <3>1. pc'[t] = pc[t] /\ job'[t] = job[t] /\ left'[t] = left[t]
      BY <1>1, <1>17, <2>1, <2>3 DEF LinkFails
    <3> QED  BY <2>3, <3>1 DEF GoesOn
  <2> QED  BY <2>1, <2>2, <2>3, WorkGoesOn, FinishedStay DEF FoundInv
<1>18. ASSUME NEW s \in Savers, SaveReturns(s)  PROVE FoundInv'
  <2>1. Keeps
    BY <1>4, <1>18 DEF SaveReturns
  <2>2. ASSUME NEW t \in Savers, pc'[t] \in {"rowid", "link"}  PROVE GoesOn(t)
    <3>1. pc'[t] = pc[t] /\ job'[t] = job[t] /\ left'[t] = left[t]
      BY <1>1, <1>18, <2>2 DEF SaveReturns
    <3> QED  BY <2>2, <3>1 DEF GoesOn
  <2> QED  BY <1>18, <2>1, <2>2, WorkGoesOn, ReturnFinds DEF FoundInv
<1>19. ASSUME NEW m \in MessageIds, MarkImportance(m)  PROVE FoundInv'
  BY <1>3, <1>4, <1>19 DEF MarkImportance
<1>20. ASSUME NEW i \in MemoryIds, DeleteMemory(i)  PROVE FoundInv'
  BY <1>3, <1>5, <1>20, ArchiveAssumption DEF DeleteMemory
<1>21. ASSUME NEW c \in Callers, NEW ids \in SUBSET MemoryIds, MergeMemories(c, ids)
       PROVE  FoundInv'
  BY <1>1, <1>2, <1>3, <1>4, <1>21 DEF MergeMemories
<1>22. ASSUME NEW c \in Callers, MergeDeletes(c)  PROVE FoundInv'
  <2>1. PICK i \in left[c] : DeleteRow(i) /\ left' = [left EXCEPT ![c] = @ \ {i}]
    BY <1>22 DEF MergeDeletes
  <2>2. i \in Nat
    BY <1>1, <1>2
  <2>3. Keeps
    BY <1>5, <1>22, <2>1, <2>2 DEF MergeDeletes
  <2> QED  BY <1>1, <1>2, <1>3, <1>22, <2>1, <2>3 DEF MergeDeletes
<1>23. ASSUME NEW c \in Callers, MergeReturns(c)  PROVE FoundInv'
  BY <1>1, <1>2, <1>3, <1>4, <1>23 DEF MergeReturns
<1>24. CASE Close
  BY <1>24 DEF Close, ProcessGone, FoundInv, FinishedFound, WorkFound, LinkedIn
<1>25. CASE Crash
  BY <1>25 DEF Crash, ProcessGone, FoundInv, FinishedFound, WorkFound, LinkedIn
<1>26. CASE Restart
  BY <1>3, <1>4, <1>26 DEF Restart
<1>27. CASE UNCHANGED vars
  BY <1>3, <1>4, <1>27 DEF vars
<1> QED
  BY <1>6, <1>7, <1>8, <1>9, <1>10, <1>11, <1>12, <1>13, <1>14, <1>15, <1>16, <1>17,
     <1>18, <1>19, <1>20, <1>21, <1>22, <1>23, <1>24, <1>25, <1>26, <1>27
  DEF Next, FlushStep, WorkerStep, CallerStep, SaveStep

(* search_memories finds a memory saved and not deleted by each message it  *)
(* cites, whatever else is saved, linked or deleted over the connection,    *)
(* except for the wrong id, the failed link and the rollback.               *)
THEOREM ReferencesFind == Spec => []FoundByReference
<1>1. Init => FoundInv
  BY DEF Init, FoundInv, FinishedFound, WorkFound
<1>2. ArchiveInv /\ FoundInv /\ [Next]_vars => FoundInv'
  BY FoundStep
<1>3. FoundInv => FoundByReference
  BY DEF FoundInv, FinishedFound, LinkedIn, FoundByReference, ByReference
<1> QED  BY <1>1, <1>2, <1>3, ArchiveInvariant, PTL DEF Spec
=============================================================================
