------------------------------ MODULE HybridSearch ------------------------------
(***************************************************************************)
(* A hybrid search of QueryEngine: an asynchronous full-text query of      *)
(* SQLite next to a semantic one, which reads the vectors in Redis one by  *)
(* one and then the rows they point to, and the merge of both answers,     *)
(* while messages are stored, vectors are filed and old data is cleaned up.*)
(*                                                                         *)
(* A row's id is its message.  A vector is filed under an id that need not *)
(* be its message's, see VectorsMatchRows in MessagePipeline.  Scores are  *)
(* the code's, times 10000; similarities are percentages.                  *)
(***************************************************************************)
EXTENDS Naturals, FiniteSets, SequencesExt

CONSTANTS
  Msgs,       \* messages
  NoMsg,      \* no vector is filed
  Groups,     \* chat groups
  AnyGroup,   \* group_id 0: all groups
  GroupOf,    \* [Msgs -> Groups]
  Time,       \* [Msgs -> Nat], in minutes
  Matching,   \* the messages whose content matches the full-text query
  Sim,        \* [Msgs -> 0 .. 100], similarity of content and query
  Cutoffs,    \* the times a cleanup deletes up to
  Providers,  \* providers of embeddings: queries are embedded by the current one
  NoProvider, \* nobody has embedded the query
  SameSize,   \* those whose vectors are as long as the stored ones
  Asked,      \* the groups, or AnyGroup, that searches ask for
  Limits      \* values of limit

ASSUME SearchAssumption ==
  /\ IsFiniteSet(Msgs) /\ NoMsg \notin Msgs
  /\ AnyGroup \notin Groups
  /\ GroupOf \in [Msgs -> Groups]
  /\ Time \in [Msgs -> Nat]
  /\ Matching \subseteq Msgs
  /\ Sim \in [Msgs -> 0 .. 100]
  /\ NoProvider \notin Providers
  /\ Cutoffs \subseteq Nat \ {0}
  /\ Asked \subseteq Groups \cup {AnyGroup}
  /\ Limits \subseteq Nat \ {0}

VARIABLES
  rows,       \* messages in the table
  unused,     \* messages not stored yet: ids are never given twice
  vecs,       \* [Msgs -> Msgs \cup {NoMsg}], the hashes vec:<id>
  cutoff,     \* cleanup_old_data has deleted the rows older than this; 0 if idle
  req,        \* the search under way: [group, limit]
  pc,         \* the thread in search_hybrid
  queried,    \* who embedded the query
  hits,       \* full-text answer; NoMsg in it until there is one
  keys,       \* vec:* keys not read yet
  cands,      \* candidates read so far: [id, sim]
  ranked,     \* the best candidates, still to be looked up
  found,      \* the semantic answer: [id, sim]
  results,    \* the answer: a sequence of [id, score]
  seen,       \* history: ids that were rows at some time of the search
  steady      \* history: rows with their own vector throughout the semantic search,
              \* but those whose vector could not be read

data == <<rows, unused, vecs, cutoff>>
asking == <<req, pc, queried, hits, keys, cands, ranked, found, results>>
witness == <<seen, steady>>
searchVars == <<data, asking, witness>>

Request == [group : Asked, limit : Limits]
Candidate == [id : Msgs, sim : 0 .. 100]

SearchTypeOK ==
  /\ rows \subseteq Msgs /\ unused \subseteq Msgs \ rows
  /\ vecs \in [Msgs -> Msgs \cup {NoMsg}]
  /\ cutoff \in Nat
  /\ req \in Request
  /\ pc \in {"idle", "list", "read", "rank", "look_up", "merge"}
  /\ queried \in Providers \cup {NoProvider}
  /\ hits \subseteq Msgs \cup {NoMsg}
  /\ keys \subseteq Msgs
  /\ cands \subseteq Candidate
  /\ ranked \in Seq(Candidate)
  /\ found \subseteq Candidate
  /\ results \in Seq([id : Msgs, score : Nat])
  /\ seen \subseteq Msgs /\ steady \subseteq seen

SearchInit ==
  /\ rows = {} /\ unused = Msgs
  /\ vecs = [m \in Msgs |-> NoMsg]
  /\ cutoff = 0
  /\ req \in Request
  /\ pc = "idle" /\ queried = NoProvider
  /\ hits = {} /\ keys = {} /\ cands = {} /\ ranked = <<>> /\ found = {} /\ results = <<>>
  /\ seen = {} /\ steady = {}

-----------------------------------------------------------------------------
(* The rest of the program.                                                 *)

(* What the search under way may still rely on after the others' step.      *)
Witness ==
  \/ pc = "idle" /\ UNCHANGED witness
  \/ /\ pc # "idle"
     /\ seen' = seen \cup rows'
     /\ steady' = {m \in steady : m \in rows' /\ vecs'[m] = m}

(* Mutant: an id is given to a row and stays free.                          *)
StoreRowKeepsId(m) ==
  /\ m \in unused
  /\ rows' = rows \cup {m}
  /\ UNCHANGED <<unused, vecs, cutoff, asking>>
  /\ Witness

StoreRow(m) ==
  /\ m \in unused
  /\ rows' = rows \cup {m} /\ unused' = unused \ {m}
  /\ UNCHANGED <<vecs, cutoff, asking>>
  /\ Witness

(* A message is embedded once.                                              *)
FileVector(i, m) ==
  /\ \A j \in Msgs : vecs[j] # m
  /\ vecs' = [vecs EXCEPT ![i] = m]
  /\ UNCHANGED <<rows, unused, cutoff, asking>>
  /\ Witness

(* cleanup_old_data: first the rows older than the cutoff, then the vectors *)
(* (each by the timestamp filed with it).                                   *)
CleanRows ==
  /\ cutoff = 0
  /\ cutoff' \in Cutoffs
  /\ rows' = {m \in rows : Time[m] >= cutoff'}
  /\ UNCHANGED <<unused, vecs, asking>>
  /\ Witness

CleanVectors ==
  /\ cutoff # 0
  /\ vecs' = [i \in Msgs |->
               IF vecs[i] # NoMsg /\ Time[vecs[i]] < cutoff THEN NoMsg ELSE vecs[i]]
  /\ cutoff' = 0
  /\ UNCHANGED <<rows, unused, asking>>
  /\ Witness

Others ==
  \/ \E m \in Msgs : StoreRow(m)
  \/ \E i, m \in Msgs : FileVector(i, m)
  \/ CleanRows \/ CleanVectors

-----------------------------------------------------------------------------
(* The search.                                                              *)

(* std::async starts the full-text query; the semantic one runs meanwhile.  *)
Begin(g, k) ==
  /\ pc = "idle"
  /\ req' = [group |-> g, limit |-> k]
  /\ pc' = "list"
  /\ hits' = {NoMsg}
  /\ results' = <<>>
  /\ seen' = rows
  /\ steady' = {m \in rows : vecs[m] = m}
  /\ UNCHANGED <<data, queried, keys, cands, ranked, found>>

FullTextRunning == NoMsg \in hits

(* MATCH ? ORDER BY rank LIMIT ?: the group is ignored.                     *)
FullText ==
  /\ pc # "idle" /\ FullTextRunning
  /\ LET matches == rows \cap Matching IN
     \E S \in SUBSET matches :
       /\ Cardinality(S) = Cardinality(matches) \/ Cardinality(S) = 2 * req.limit
       /\ Cardinality(S) <= 2 * req.limit
       /\ hits' = S
  /\ UNCHANGED <<data, req, pc, queried, keys, cands, ranked, found, results, witness>>

(* No provider, no Redis, no index, or embed throws: an empty answer.       *)
NoSemantic ==
  /\ pc = "list"
  /\ pc' = "merge"
  /\ steady' = {}
  /\ UNCHANGED <<data, req, queried, hits, keys, cands, ranked, found, results, seen>>

(* The query is embedded by the provider that is current, which may be      *)
(* another one for every search.  search_similar: KEYS vec:*, then HMGET of *)
(* each key.                                                                *)
ListKeys ==
  /\ pc = "list"
  /\ pc' = "read"
  /\ queried' \in Providers
  /\ keys' = {i \in Msgs : vecs[i] # NoMsg}
  /\ UNCHANGED <<data, req, hits, cands, ranked, found, results, witness>>

(* Mutant: vectors are compared without a look at their lengths.            *)
SimilarityAnySize(m) == Sim[m]

(* cosine_similarity_fast, between vectors of one length only.              *)
Similarity(m) == IF queried \in SameSize THEN Sim[m] ELSE 0

(* The group and the threshold are those of the vector as it is read; a key *)
(* deleted since KEYS yields similarity 0.                                  *)
Qualifies(m) ==
  /\ m # NoMsg
  /\ req.group \in {AnyGroup, GroupOf[m]}
  /\ Similarity(m) >= 60

ReadVector(i) ==
  /\ pc = "read" /\ i \in keys
  /\ keys' = keys \ {i}
  /\ cands' = cands \cup
       {[id |-> i, sim |-> Similarity(m)] : m \in {n \in {vecs[i]} : Qualifies(n)}}
  /\ UNCHANGED <<data, req, pc, queried, hits, ranked, found, results, witness>>

(* HMGET fails, or has no answer: Redis has gone, or is out of memory.  The *)
(* key is skipped, and the search goes on with the next one.                *)
ReadFails(i) ==
  /\ pc = "read" /\ i \in keys
  /\ keys' = keys \ {i}
  /\ steady' = steady \ {i}
  /\ UNCHANGED <<data, req, pc, queried, hits, cands, ranked, found, results, seen>>

(* The possible outcomes of std::sort by descending value, cut to n elements. *)
Best(S, value, n) ==
  {SubSeq(s, 1, IF Len(s) < n THEN Len(s) ELSE n) :
     s \in {t \in SetToSeqs(S) : IsSorted(t, LAMBDA x, y : value[x] >= value[y])}}

(* Mutant: the candidates are cut before they are sorted.                   *)
RankCutFirst ==
  /\ pc = "read" /\ keys = {}
  /\ pc' = "look_up"
  /\ ranked' \in Best(cands, [c \in cands |-> 0], 2 * req.limit)
  /\ UNCHANGED <<data, req, queried, hits, keys, cands, found, results, witness>>

Rank ==
  /\ pc = "read" /\ keys = {}
  /\ pc' = "look_up"
  /\ ranked' \in Best(cands, [c \in cands |-> c.sim], 2 * req.limit)
  /\ UNCHANGED <<data, req, queried, hits, keys, cands, found, results, witness>>

(* Mutant: the row is not looked up, the vector's own copy is returned.     *)
LookUpTrustsVector ==
  /\ pc = "look_up" /\ ranked # <<>>
  /\ ranked' = Tail(ranked)
  /\ found' = found \cup {Head(ranked)}
  /\ UNCHANGED <<data, req, pc, queried, hits, keys, cands, results, witness>>

(* get_message_by_id: a vector whose row is gone is skipped.                *)
LookUp ==
  /\ pc = "look_up" /\ ranked # <<>>
  /\ ranked' = Tail(ranked)
  /\ found' = found \cup {c \in {Head(ranked)} : c.id \in rows}
  /\ UNCHANGED <<data, req, pc, queried, hits, keys, cands, results, witness>>

LookedUp ==
  /\ pc = "look_up" /\ ranked = <<>>
  /\ pc' = "merge"
  /\ UNCHANGED <<data, req, queried, hits, keys, cands, ranked, found, results, witness>>

(* Mutant: what the full-text match counts for is lost in a double hit.     *)
MergedOverwritten ==
     {[id |-> m, score |-> 4000] : m \in hits \ {c.id : c \in found}}
  \cup {[id |-> c.id, score |-> IF c.id \in hits THEN 60 * c.sim ELSE 100 * c.sim] : c \in found}

(* merge_results with weights 0.6 and 0.4.  The score of a full-text hit is *)
(* replaced by its weight, and the weight applied to that once more when    *)
(* there is a semantic hit too.                                             *)
Merged ==
     {[id |-> m, score |-> 4000] : m \in hits \ {c.id : c \in found}}
  \cup {[id |-> c.id, score |-> IF c.id \in hits THEN 60 * c.sim + 1600 ELSE 100 * c.sim] :
          c \in found}

Merge ==
  /\ pc = "merge" /\ ~FullTextRunning
  /\ pc' = "idle" /\ queried' = NoProvider
  /\ results' \in Best(Merged, [r \in Merged |-> r.score], req.limit)
  /\ hits' = {} /\ cands' = {} /\ found' = {} /\ seen' = {} /\ steady' = {}
  /\ UNCHANGED <<data, req, keys, ranked>>

Search ==
  \/ \E g \in Asked, k \in Limits : Begin(g, k)
  \/ FullText \/ NoSemantic \/ ListKeys
  \/ \E i \in Msgs : ReadVector(i) \/ ReadFails(i)
  \/ Rank \/ LookUp \/ LookedUp \/ Merge

SearchNext == Others \/ Search

SearchSpec == SearchInit /\ [][SearchNext]_searchVars
-----------------------------------------------------------------------------
(* Properties *)

Ids(s) == {s[i].id : i \in DOMAIN s}

(* Vectors outlive rows, are filed under ids of other messages and are read *)
(* long before the row is; still the answer only has messages that were     *)
(* rows at some time during the search, none that a cleanup finished before.*)
LiveAnswer == [][Merge => Ids(results') \subseteq seen]_searchVars

(* A message of the right group that is stored with its own vector          *)
(* throughout the semantic search and similar enough is in the answer,      *)
(* unless the vector could not be read, 2 * limit vectors are at least as   *)
(* similar (they may be of deleted messages), or the answer is full of      *)
(* messages that score no less than it does: what only the full-text query  *)
(* found does not come before it.                                           *)
Rival(m, c) == c.id # m /\ c.sim >= Sim[m]
Crowded(m) == Cardinality({c \in cands : Rival(m, c)}) >= 2 * req.limit
ScoreOf(m) == IF m \in hits THEN 60 * Sim[m] + 1600 ELSE 100 * Sim[m]
StrongHitsReturned ==
  [][Merge => \A m \in {n \in steady : Qualifies(n)} :
       \/ m \in Ids(results') \/ Crowded(m)
       \/ Len(results') = req.limit /\ \A i \in DOMAIN results' : results'[i].score >= ScoreOf(m)
    ]_searchVars

(* Although merge_results weighs the full-text half of a double hit twice,  *)
(* the threshold 0.60 of the semantic half keeps every message that both    *)
(* queries found in front of those the full-text query found alone.         *)
Double == hits \cap {c.id : c \in found}
DoubleHitsFirst ==
  [][Merge => \A i \in DOMAIN results' : results'[i].id \in hits \ Double =>
       \A m \in Double : \E j \in 1 .. i - 1 : results'[j].id = m]_searchVars

(* While queries are embedded by a provider whose vectors have another      *)
(* length than the stored ones, which are not computed again, a search is   *)
(* the full-text one (README.md:435 "degraded to FTS5").                    *)
OtherSizeIsFullText ==
  [][Merge /\ queried \notin SameSize => Ids(results') \subseteq hits]_searchVars
=============================================================================
