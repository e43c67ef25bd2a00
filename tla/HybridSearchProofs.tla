---------------------------- MODULE HybridSearchProofs ----------------------------
(***************************************************************************)
(* Proofs about HybridSearch for any messages, groups, times, similarities,*)
(* providers and limits: what a search knows at each of its places while   *)
(* rows and vectors come and go, and from that all properties of the       *)
(* module.                                                                 *)
(***************************************************************************)
EXTENDS HybridSearch, FiniteSetTheorems, SequenceTheorems, TLAPS

(* What a search has in hand at each place.                                 *)
PlacesOK ==
  /\ pc = "idle" => hits = {} /\ seen = {} /\ steady = {}
  /\ keys # {} => pc = "read"
  /\ ranked # <<>> => pc = "look_up"
  /\ pc \in {"idle", "list"} => cands = {}
  /\ pc \in {"idle", "list", "read"} => found = {}

(* Whatever the search holds was a row during it.                           *)
SeenOK ==
  /\ pc # "idle" => rows \subseteq seen
  /\ hits \ {NoMsg} \subseteq seen
  /\ {c.id : c \in found} \subseteq seen

(* There is one candidate for a key, none for a key still to be read, and   *)
(* only of vectors as long as the query's.                                  *)
CandidatesOK ==
  /\ IsFiniteSet(cands)
  /\ \A c \in cands : c.sim >= 60 /\ c.id \notin keys
  /\ \A c, d \in cands : c.id = d.id => c = d
  /\ cands # {} => queried \in SameSize
  /\ found \subseteq cands
  /\ \A i \in DOMAIN ranked : ranked[i] \in cands

(* What becomes of a message that stays with its own vector.                *)
Own(m) == [id |-> m, sim |-> Sim[m]]
Listed(m) == \E i \in DOMAIN ranked : ranked[i] = Own(m)
SteadyOK ==
  \A m \in steady :
    /\ m \in rows /\ vecs[m] = m
    /\ Qualifies(m) =>
         CASE pc = "read"    -> m \in keys \/ Own(m) \in cands
           [] pc = "look_up" -> Listed(m) \/ Own(m) \in found \/ Crowded(m)
           [] pc = "merge"   -> Own(m) \in found \/ Crowded(m)
           [] OTHER          -> TRUE

SearchInv == SearchTypeOK /\ PlacesOK /\ SeenOK /\ CandidatesOK /\ SteadyOK

-----------------------------------------------------------------------------
(* Lemmas about a sorted answer. *)

Least(a, b) == IF a < b THEN a ELSE b

(* s is the sorted sequence of which r is the beginning: every element of S *)
(* once, in descending order.                                               *)
SortedIn(s, S, value, r) ==
  /\ s \in [1 .. Cardinality(S) -> S]
  /\ \A i, j \in 1 .. Cardinality(S) : i # j => s[i] # s[j]
  /\ \A i, j \in 1 .. Cardinality(S) : i < j => value[s[i]] >= value[s[j]]
  /\ \A x \in S : \E i \in 1 .. Cardinality(S) : s[i] = x
  /\ \A i \in DOMAIN r : r[i] = s[i]

(* std::sort, of which the first n elements are kept.                       *)
LEMMA BestIs ==
  ASSUME NEW S, IsFiniteSet(S), NEW value \in [S -> Nat], NEW n \in Nat,
         NEW r \in Best(S, value, n)
  PROVE  /\ Cardinality(S) \in Nat
         /\ r \in Seq(S) /\ Len(r) = Least(Cardinality(S), n) /\ DOMAIN r = 1 .. Len(r)
         /\ \E s : SortedIn(s, S, value, r)
<1> DEFINE N == Cardinality(S)
<1>1. N \in Nat
  BY FS_CardinalityType
<1>2. PICK s \in SetToSeqs(S) :
        /\ IsSorted(s, LAMBDA x, y : value[x] >= value[y])
        /\ r = SubSeq(s, 1, IF Len(s) < n THEN Len(s) ELSE n)
  BY DEF Best
<1>3. s \in [1 .. N -> S] /\ \A i, j \in 1 .. N : i # j => s[i] # s[j]
  BY DEF SetToSeqs
<1>4. s \in Seq(S) /\ Len(s) = N
  BY <1>1, <1>3, SeqDef
<1>5. \A i, j \in 1 .. N : i < j => value[s[i]] >= value[s[j]]
  BY <1>2, <1>4 DEF IsSorted
<1>6. \A x \in S : \E i \in 1 .. N : s[i] = x
  <2>1. s \in Injection(1 .. N, S)
    BY <1>3 DEF Injection, IsInjective
  <2>2. Cardinality(1 .. N) = N
    BY <1>1, FS_Interval
  <2>3. s \in Surjection(1 .. N, S)
    BY <2>1, <2>2, FS_Injection
  <2>4. QED
    BY <2>3 DEF Surjection
<1>7. r = SubSeq(s, 1, Least(N, n)) /\ Least(N, n) \in 0 .. N
  <2>1. Least(N, n) \in 0 .. N
    BY <1>1 DEF Least
  <2>2. r = SubSeq(s, 1, Least(N, n))
    BY <1>2, <1>4 DEF Least
  <2>3. QED
    BY <2>1, <2>2
<1>8. /\ r \in Seq(S) /\ Len(r) = Least(N, n)
      /\ \A i \in 1 .. Least(N, n) : r[i] = s[i]
  BY <1>1, <1>4, <1>7, SubSeqProperties
<1>9. DOMAIN r = 1 .. Len(r)
  BY <1>8, LenProperties
<1>10. QED
  BY <1>1, <1>3, <1>5, <1>6, <1>8, <1>9 DEF SortedIn

-----------------------------------------------------------------------------
(* Every step keeps SearchInv. *)

LEMMA SearchInvInit == SearchInit => SearchInv
<1> SUFFICES ASSUME SearchInit PROVE SearchInv
  OBVIOUS
<1>1. <<>> \in Seq(Candidate) /\ <<>> \in Seq([id : Msgs, score : Nat])
  BY EmptySeq
<1>2. SearchTypeOK
  BY <1>1, SearchAssumption DEF SearchInit, SearchTypeOK
<1>3. PlacesOK /\ SeenOK /\ SteadyOK
  BY DEF SearchInit, PlacesOK, SeenOK, SteadyOK
<1>4. CandidatesOK
  BY FS_EmptySet DEF SearchInit, CandidatesOK
<1>5. QED
  BY <1>2, <1>3, <1>4 DEF SearchInv

(* Nothing the rest of the program does takes away what the search holds.   *)
LEMMA OthersKeepInv ==
  ASSUME SearchInv, Others
  PROVE  SearchInv'
<1> USE DEF SearchInv
<1>1. UNCHANGED asking /\ Witness
  BY DEF Others, StoreRow, FileVector, CleanRows, CleanVectors
<1>2. /\ rows' \subseteq Msgs /\ unused' \subseteq Msgs \ rows'
      /\ vecs' \in [Msgs -> Msgs \cup {NoMsg}]
      /\ cutoff' \in Nat
  <2>1. CASE \E m \in Msgs : StoreRow(m)
    BY <2>1 DEF StoreRow, SearchTypeOK
  <2>2. CASE \E i, m \in Msgs : FileVector(i, m)
    BY <2>2 DEF FileVector, SearchTypeOK
  <2>3. CASE CleanRows
    BY <2>3, SearchAssumption DEF CleanRows, SearchTypeOK
  <2>4. CASE CleanVectors
    BY <2>4 DEF CleanVectors, SearchTypeOK
  <2>5. QED
    BY <2>1, <2>2, <2>3, <2>4 DEF Others
<1>3. /\ pc = "idle" => UNCHANGED witness
      /\ pc # "idle" =>
           /\ seen' = seen \cup rows'
           /\ steady' \subseteq steady
           /\ \A m \in steady' : m \in rows' /\ vecs'[m] = m
  BY <1>1 DEF Witness
<1>4. SearchTypeOK'
  <2>1. seen' \subseteq Msgs /\ steady' \subseteq seen'
    BY <1>2, <1>3 DEF SearchTypeOK, witness
  <2>2. QED
    BY <1>1, <1>2, <2>1 DEF SearchTypeOK, asking
<1>5. PlacesOK'
  BY <1>1, <1>3 DEF PlacesOK, asking, witness
<1>6. SeenOK'
  BY <1>1, <1>3 DEF SeenOK, asking, witness
<1>7. CandidatesOK'
  BY <1>1 DEF CandidatesOK, asking
<1>8. SteadyOK'
  <2>1. SUFFICES ASSUME NEW m \in steady'
        PROVE  /\ m \in rows' /\ vecs'[m] = m
               /\ Qualifies(m)' =>
                    CASE pc' = "read"    -> m \in keys' \/ Own(m) \in cands'
                      [] pc' = "look_up" -> Listed(m)' \/ Own(m) \in found' \/ Crowded(m)'
                      [] pc' = "merge"   -> Own(m) \in found' \/ Crowded(m)'
                      [] OTHER           -> TRUE
    BY DEF SteadyOK
  <2>2. pc # "idle" /\ m \in steady
    BY <1>3, <2>1 DEF PlacesOK, witness
  <2>3. /\ Qualifies(m)' = Qualifies(m) /\ Listed(m)' = Listed(m) /\ Crowded(m)' = Crowded(m)
        /\ UNCHANGED <<pc, keys, cands, found>>
    BY <1>1 DEF Qualifies, Similarity, Listed, Crowded, Rival, asking
  <2>4. QED
    BY <1>3, <2>2, <2>3 DEF SteadyOK
<1>9. QED
  BY <1>4, <1>5, <1>6, <1>7, <1>8

LEMMA BeginKeepsInv ==
  ASSUME SearchInv, NEW g \in Asked, NEW k \in Limits, Begin(g, k)
  PROVE  SearchInv'
<1> USE DEF SearchInv, Begin, data
<1>1. SearchTypeOK'
  <2>1. req' \in Request /\ results' \in Seq([id : Msgs, score : Nat])
    BY EmptySeq DEF Request
  <2>2. QED
    BY <2>1 DEF SearchTypeOK
<1>2. PlacesOK'
  BY DEF PlacesOK
<1>3. SeenOK'
  BY DEF PlacesOK, SeenOK
<1>4. CandidatesOK'
  BY DEF CandidatesOK, PlacesOK
<1>5. SteadyOK'
  BY DEF SteadyOK
<1>6. QED
  BY <1>1, <1>2, <1>3, <1>4, <1>5

LEMMA FullTextKeepsInv ==
  ASSUME SearchInv, FullText
  PROVE  SearchInv'
<1> USE DEF SearchInv
<1>1. /\ pc # "idle" /\ hits' \subseteq rows
      /\ UNCHANGED <<data, req, pc, queried, keys, cands, ranked, found, results, witness>>
  BY DEF FullText
<1> USE DEF data, witness
<1>2. SearchTypeOK'
  BY <1>1 DEF SearchTypeOK
<1>3. PlacesOK' /\ SeenOK' /\ CandidatesOK'
  BY <1>1 DEF PlacesOK, SeenOK, CandidatesOK
<1>4. SteadyOK'
  BY <1>1 DEF SteadyOK, Qualifies, Similarity, Listed, Crowded, Rival
<1>5. QED
  BY <1>2, <1>3, <1>4

LEMMA NoSemanticKeepsInv ==
  ASSUME SearchInv, NoSemantic
  PROVE  SearchInv'
<1> USE DEF SearchInv, NoSemantic, data
<1>1. SearchTypeOK'
  BY DEF SearchTypeOK
<1>2. PlacesOK' /\ SeenOK' /\ CandidatesOK'
  BY DEF PlacesOK, SeenOK, CandidatesOK
<1>3. SteadyOK'
  BY DEF SteadyOK
<1>4. QED
  BY <1>1, <1>2, <1>3

(* A steady message has a key in the answer of KEYS.                        *)
LEMMA ListKeysKeepsInv ==
  ASSUME SearchInv, ListKeys
  PROVE  SearchInv'
<1> USE DEF SearchInv, ListKeys, data, witness
<1>1. SearchTypeOK'
  BY DEF SearchTypeOK
<1>2. PlacesOK' /\ SeenOK'
  BY DEF PlacesOK, SeenOK
<1>3. CandidatesOK'
  BY DEF CandidatesOK, PlacesOK
<1>4. SteadyOK'
  <2>1. SUFFICES ASSUME NEW m \in steady
        PROVE  m \in rows /\ vecs[m] = m /\ m \in keys'
    BY DEF SteadyOK
  <2>2. m \in rows /\ vecs[m] = m
    BY DEF SteadyOK
  <2>3. m \in Msgs /\ m # NoMsg
    BY <2>2, SearchAssumption DEF SearchTypeOK
  <2>4. QED
    BY <2>2, <2>3
<1>5. QED
  BY <1>1, <1>2, <1>3, <1>4

(* A steady message is a candidate once its key is read.                    *)
LEMMA ReadVectorKeepsInv ==
  ASSUME SearchInv, NEW i \in Msgs, ReadVector(i)
  PROVE  SearchInv'
<1> USE DEF SearchInv, data, witness
<1>1. /\ pc = "read" /\ i \in keys /\ keys' = keys \ {i}
      /\ UNCHANGED <<data, req, pc, queried, hits, ranked, found, results, witness>>
  BY DEF ReadVector
<1> DEFINE c == [id |-> i, sim |-> Similarity(vecs[i])]
<1>2. \/ ~Qualifies(vecs[i]) /\ cands' = cands
      \/ Qualifies(vecs[i]) /\ cands' = cands \cup {c}
  BY DEF ReadVector
<1>3. Qualifies(vecs[i]) => /\ vecs[i] \in Msgs /\ c \in Candidate
                            /\ c.sim >= 60 /\ queried \in SameSize
  BY SearchAssumption DEF Qualifies, Similarity, SearchTypeOK, Candidate
<1>4. SearchTypeOK'
  BY <1>1, <1>2, <1>3 DEF SearchTypeOK
<1>5. PlacesOK' /\ SeenOK'
  BY <1>1 DEF PlacesOK, SeenOK
<1>6. CandidatesOK'
  <2>1. IsFiniteSet(cands')
    <3>1. IsFiniteSet(cands)
      BY DEF CandidatesOK
    <3>2. IsFiniteSet(cands \cup {c})
      BY <3>1, FS_AddElement
    <3>3. QED
      BY <1>2, <3>1, <3>2
  <2>2. c.id = i /\ cands \subseteq cands' /\ cands' \subseteq cands \cup {c}
    BY <1>2
  <2>3. \A d \in cands' : d \in cands \/ (d = c /\ Qualifies(vecs[i]))
    BY <1>2
  <2>4. \A d \in cands' : d.sim >= 60 /\ d.id \notin keys'
    BY <1>1, <1>3, <2>2, <2>3 DEF CandidatesOK
  <2>5. \A d, e \in cands' : d.id = e.id => d = e
    BY <1>1, <2>2, <2>3 DEF CandidatesOK
  <2>6. cands' # {} => queried' \in SameSize
    BY <1>1, <1>3, <2>3 DEF CandidatesOK
  <2>7. found' \subseteq cands' /\ \A k \in DOMAIN ranked' : ranked'[k] \in cands'
    BY <1>1, <2>2 DEF CandidatesOK
  <2>8. QED
    BY <2>1, <2>4, <2>5, <2>6, <2>7 DEF CandidatesOK
<1>7. SteadyOK'
  <2>1. SUFFICES ASSUME NEW m \in steady, Qualifies(m)
        PROVE  m \in keys' \/ Own(m) \in cands'
    BY <1>1 DEF SteadyOK, Qualifies, Similarity
  <2>2. CASE m = i
    <3>1. vecs[i] = m /\ Qualifies(vecs[i])
      BY <2>1, <2>2 DEF SteadyOK
    <3>2. Own(m) = c
      BY <1>3, <2>2, <3>1 DEF Own, Similarity
    <3>3. QED
      BY <1>2, <3>1, <3>2
  <2>3. CASE m # i
    BY <1>1, <1>2, <2>1, <2>3 DEF SteadyOK
  <2>4. QED
    BY <2>2, <2>3
<1>8. QED
  BY <1>4, <1>5, <1>6, <1>7

(* A message whose vector cannot be read is steady no more.                 *)
LEMMA ReadFailsKeepsInv ==
  ASSUME SearchInv, NEW i \in Msgs, ReadFails(i)
  PROVE  SearchInv'
<1> USE DEF SearchInv, data, witness
<1>1. /\ pc = "read" /\ keys' = keys \ {i} /\ steady' = steady \ {i}
      /\ UNCHANGED <<data, req, pc, queried, hits, cands, ranked, found, results, seen>>
  BY DEF ReadFails
<1>2. SearchTypeOK' /\ PlacesOK' /\ SeenOK' /\ CandidatesOK'
  BY <1>1 DEF SearchTypeOK, PlacesOK, SeenOK, CandidatesOK
<1>3. SteadyOK'
  BY <1>1 DEF SteadyOK, Qualifies, Similarity
<1>4. QED
  BY <1>2, <1>3

(* The sort ranks the candidate of a steady message among the first, or     *)
(* 2 * limit other candidates are at least as similar.                      *)
LEMMA RankKeepsInv ==
  ASSUME SearchInv, Rank
  PROVE  SearchInv'
<1> USE DEF SearchInv
<1> DEFINE value == [c \in cands |-> c.sim]
           N == Cardinality(cands)
           n == 2 * req.limit
<1>1. /\ pc = "read" /\ keys = {} /\ pc' = "look_up" /\ ranked' \in Best(cands, value, n)
      /\ UNCHANGED <<data, req, queried, hits, keys, cands, found, results, witness>>
  BY DEF Rank
<1>2. /\ req.limit \in Nat /\ n \in Nat
      /\ cands \subseteq Candidate /\ IsFiniteSet(cands) /\ value \in [cands -> Nat]
  <2>1. req.limit \in Nat
    BY SearchAssumption DEF SearchTypeOK, Request
  <2>2. n \in Nat
    BY <2>1
  <2>3. cands \subseteq Candidate /\ IsFiniteSet(cands)
    BY DEF SearchTypeOK, CandidatesOK
  <2>4. value \in [cands -> Nat]
    BY <2>3 DEF Candidate
  <2>5. QED
    BY <2>1, <2>2, <2>3, <2>4
<1> HIDE DEF value, n
<1>3. /\ N \in Nat
      /\ ranked' \in Seq(cands) /\ Len(ranked') = Least(N, n)
      /\ DOMAIN ranked' = 1 .. Len(ranked')
  BY <1>1, <1>2, BestIs
<1>4. PICK s : SortedIn(s, cands, value, ranked')
  BY <1>1, <1>2, BestIs
<1> USE DEF data, witness
<1>5. SearchTypeOK'
  <2>1. ranked' \in Seq(Candidate)
    BY <1>2, <1>3, SeqMonotonic
  <2>2. QED
    BY <1>1, <2>1 DEF SearchTypeOK
<1>6. PlacesOK' /\ SeenOK'
  BY <1>1 DEF PlacesOK, SeenOK
<1>7. CandidatesOK'
  <2>1. \A i \in DOMAIN ranked' : ranked'[i] \in cands
    BY <1>3, ElementOfSeq
  <2>2. QED
    BY <1>1, <2>1 DEF CandidatesOK
<1>8. SteadyOK'
  <2>1. SUFFICES ASSUME NEW m \in steady, Qualifies(m)
        PROVE  Listed(m)' \/ Crowded(m)
    BY <1>1 DEF SteadyOK, Qualifies, Similarity, Crowded, Rival
  <2>2. Own(m) \in cands
    BY <1>1, <2>1 DEF SteadyOK
  <2>3. PICK k \in 1 .. N : s[k] = Own(m)
    BY <1>4, <2>2 DEF SortedIn
  <2>4. CASE k <= n
    <3>1. k \in DOMAIN ranked'
      BY <1>2, <1>3, <2>4 DEF Least
    <3>2. ranked'[k] = Own(m)
      BY <1>4, <2>3, <3>1 DEF SortedIn
    <3>3. QED
      BY <3>1, <3>2 DEF Listed, Own
  <2>5. CASE ~(k <= n)
    <3> DEFINE Rivals == {c \in cands : Rival(m, c)}
    <3>1. \A i \in 1 .. n : i \in 1 .. N /\ i < k
      BY <1>2, <1>3, <2>3, <2>5
    <3>2. \A i \in 1 .. n : s[i] \in Rivals
      <4>1. SUFFICES ASSUME NEW i \in 1 .. n PROVE s[i] \in Rivals
        OBVIOUS
      <4>2. s[i] \in cands /\ s[i] # Own(m) /\ value[s[i]] >= value[Own(m)]
        BY <1>4, <2>3, <3>1 DEF SortedIn
      <4>3. s[i].id # m
        BY <2>2, <4>2 DEF CandidatesOK, Own
      <4>4. value[s[i]] = s[i].sim /\ value[Own(m)] = Sim[m]
        BY <2>2, <4>2 DEF value, Own
      <4>5. QED
        BY <4>2, <4>3, <4>4 DEF Rival
    <3> DEFINE f == [i \in 1 .. n |-> s[i]]
    <3>3. f \in Injection(1 .. n, Rivals)
      <4>1. f \in [1 .. n -> Rivals]
        BY <3>2
      <4>2. \A i, j \in 1 .. n : f[i] = f[j] => i = j
        BY <1>4, <3>1 DEF SortedIn
      <4>3. QED
        BY <4>1, <4>2 DEF Injection, IsInjective
    <3>4. IsFiniteSet(Rivals)
      BY <1>2, FS_Subset
    <3>5. Cardinality(1 .. n) <= Cardinality(Rivals)
      BY <3>3, <3>4, FS_Injection
    <3>6. Cardinality(1 .. n) = n
      BY <1>2, FS_Interval
    <3>7. Cardinality(Rivals) \in Nat
      BY <3>4, FS_CardinalityType
    <3>8. Cardinality(Rivals) >= n
      BY <1>2, <3>5, <3>6, <3>7
    <3>9. QED
      BY <3>8 DEF Crowded, n
  <2>6. QED
    BY <2>4, <2>5
<1>9. QED
  BY <1>5, <1>6, <1>7, <1>8

(* get_message_by_id finds a steady message.                                *)
LEMMA LookUpKeepsInv ==
  ASSUME SearchInv, LookUp
  PROVE  SearchInv'
<1> USE DEF SearchInv, data, witness
<1> DEFINE h == Head(ranked)
<1>1. /\ pc = "look_up" /\ ranked # <<>> /\ ranked' = Tail(ranked)
      /\ found' = found \cup {c \in {h} : c.id \in rows}
      /\ UNCHANGED <<data, req, pc, queried, hits, keys, cands, results, witness>>
  BY DEF LookUp
<1>2. ranked \in Seq(Candidate)
  BY DEF SearchTypeOK
<1>3. /\ Len(ranked) \in Nat \ {0} /\ DOMAIN ranked = 1 .. Len(ranked)
      /\ h \in Candidate /\ h = ranked[1] /\ ranked' \in Seq(Candidate)
      /\ DOMAIN ranked' = 1 .. Len(ranked) - 1
      /\ \A i \in 1 .. Len(ranked) - 1 : ranked'[i] = ranked[i + 1]
  BY <1>1, <1>2, EmptySeq, LenProperties, HeadTailProperties
<1> HIDE DEF h
<1>4. SearchTypeOK'
  BY <1>1, <1>3 DEF SearchTypeOK
<1>5. PlacesOK' /\ SeenOK'
  BY <1>1 DEF PlacesOK, SeenOK
<1>6. CandidatesOK'
  <2>1. \A i \in DOMAIN ranked' : ranked'[i] \in cands
    BY <1>3 DEF CandidatesOK
  <2>2. h \in cands
    BY <1>3 DEF CandidatesOK
  <2>3. QED
    BY <1>1, <2>1, <2>2 DEF CandidatesOK
<1>7. SteadyOK'
  <2>1. SUFFICES ASSUME NEW m \in steady, Qualifies(m)
        PROVE  Listed(m)' \/ Own(m) \in found' \/ Crowded(m)
    BY <1>1 DEF SteadyOK, Qualifies, Similarity, Crowded, Rival
  <2>2. CASE Own(m) \in found \/ Crowded(m)
    BY <1>1, <2>2
  <2>3. CASE Listed(m)
    <3>1. PICK i \in DOMAIN ranked : ranked[i] = Own(m)
      BY <2>3 DEF Listed
    <3>2. CASE i = 1
      <4>1. h = Own(m) /\ h.id \in rows
        BY <1>3, <2>1, <3>1, <3>2 DEF SteadyOK, Own
      <4>2. QED
        BY <1>1, <4>1
    <3>3. CASE i # 1
      <4>1. i - 1 \in DOMAIN ranked' /\ ranked'[i - 1] = Own(m)
        BY <1>3, <3>1, <3>3
      <4>2. QED
        BY <4>1 DEF Listed, Own
    <3>4. QED
      BY <3>2, <3>3
  <2>4. QED
    BY <1>1, <2>1, <2>2, <2>3 DEF SteadyOK
<1>8. QED
  BY <1>4, <1>5, <1>6, <1>7

LEMMA LookedUpKeepsInv ==
  ASSUME SearchInv, LookedUp
  PROVE  SearchInv'
<1> USE DEF SearchInv, LookedUp, data, witness
<1>1. SearchTypeOK'
  BY DEF SearchTypeOK
<1>2. PlacesOK' /\ SeenOK' /\ CandidatesOK'
  BY DEF PlacesOK, SeenOK, CandidatesOK
<1>3. SteadyOK'
  <2>1. \A m : ~Listed(m)
    BY EmptySeq, LenProperties DEF Listed
  <2>2. SUFFICES ASSUME NEW m \in steady, Qualifies(m)
        PROVE  Own(m) \in found \/ Crowded(m)
    BY DEF SteadyOK, Qualifies, Similarity, Crowded, Rival
  <2>3. QED
    BY <2>1, <2>2 DEF SteadyOK
<1>4. QED
  BY <1>1, <1>2, <1>3

-----------------------------------------------------------------------------
(* The merge. *)

Scored == [id : Msgs, score : Nat]

LEMMA MergedIs ==
  ASSUME SearchInv, pc = "merge", ~FullTextRunning
  PROVE  /\ IsFiniteSet(Merged) /\ Merged \subseteq Scored
         /\ \A r \in Merged : r.id \in hits \/ \E c \in found : c.id = r.id
         /\ \A r \in Merged : r.id \notin {c.id : c \in found} => r.score = 4000
         /\ \A c \in found : \E r \in Merged :
              /\ r.id = c.id
              /\ r.score = IF c.id \in hits THEN 60 * c.sim + 1600 ELSE 100 * c.sim
              /\ c.id \in hits => r.score > 4000
<1> USE DEF SearchInv
<1>1. /\ hits \subseteq Msgs /\ IsFiniteSet(hits)
      /\ found \subseteq Candidate /\ IsFiniteSet(found)
      /\ \A c \in found : c.sim >= 60
  <2>1. hits \subseteq Msgs
    BY DEF FullTextRunning, SearchTypeOK
  <2>2. IsFiniteSet(hits)
    BY <2>1, SearchAssumption, FS_Subset
  <2>3. found \subseteq Candidate /\ \A c \in found : c.sim >= 60
    BY DEF SearchTypeOK, CandidatesOK
  <2>4. IsFiniteSet(found)
    BY FS_Subset DEF CandidatesOK
  <2>5. QED
    BY <2>1, <2>2, <2>3, <2>4
<1> DEFINE alone == hits \ {c.id : c \in found}
           f == [m \in alone |-> [id |-> m, score |-> 4000]]
           g == [c \in found |->
                  [id |-> c.id, score |-> IF c.id \in hits THEN 60 * c.sim + 1600 ELSE 100 * c.sim]]
           F == {f[m] : m \in alone}
           G == {g[c] : c \in found}
<1>2. Merged = F \cup G
  BY DEF Merged
<1>3. IsFiniteSet(F)
  <2>1. IsFiniteSet(alone)
    BY <1>1, FS_Subset
  <2>2. f \in Surjection(alone, F)
    BY DEF Surjection
  <2>3. QED
    BY <2>1, <2>2, FS_Surjection
<1>4. IsFiniteSet(G)
  <2>1. g \in Surjection(found, G)
    BY DEF Surjection
  <2>2. QED
    BY <1>1, <2>1, FS_Surjection
<1>5. F \subseteq Scored
  BY <1>1 DEF Scored
<1>6. G \subseteq Scored
  BY <1>1 DEF Scored, Candidate
<1>7. \A r \in F : r.id \in alone /\ r.score = 4000
  OBVIOUS
<1>8. \A r \in G : \E c \in found : c.id = r.id
  OBVIOUS
<1>9. \A c \in found : /\ g[c] \in G /\ g[c].id = c.id
                       /\ g[c].score = IF c.id \in hits THEN 60 * c.sim + 1600 ELSE 100 * c.sim
                       /\ c.id \in hits => g[c].score > 4000
  <2>1. SUFFICES ASSUME NEW c \in found
        PROVE  /\ g[c] \in G /\ g[c].id = c.id
               /\ g[c].score = IF c.id \in hits THEN 60 * c.sim + 1600 ELSE 100 * c.sim
               /\ c.id \in hits => g[c].score > 4000
    OBVIOUS
  <2>2. c.sim \in Nat /\ c.sim >= 60
    BY <1>1 DEF Candidate
  <2>3. g[c] \in G
    OBVIOUS
  <2>4. g[c].id = c.id
    OBVIOUS
  <2>5. g[c].score = IF c.id \in hits THEN 60 * c.sim + 1600 ELSE 100 * c.sim
    OBVIOUS
  <2>6. QED
    BY <2>2, <2>3, <2>4, <2>5
<1> HIDE DEF F, G, g
<1>10. QED
  <2>1. IsFiniteSet(Merged) /\ Merged \subseteq Scored
    BY <1>2, <1>3, <1>4, <1>5, <1>6, FS_Union
  <2>2. \A r \in Merged : r.id \in hits \/ \E c \in found : c.id = r.id
    BY <1>2, <1>7, <1>8
  <2>3. \A r \in Merged : r.id \notin {c.id : c \in found} => r.score = 4000
    BY <1>2, <1>7, <1>8
  <2>4. QED
    BY <1>2, <1>9, <2>1, <2>2, <2>3

(* What is in the answer, and in which order.                               *)
LEMMA AnswerIs ==
  ASSUME SearchInv, Merge
  PROVE  /\ results' \in Seq(Merged) /\ DOMAIN results' = 1 .. Len(results')
         /\ \A x \in Merged :
              \/ \E i \in DOMAIN results' : results'[i] = x
              \/ /\ Len(results') = req.limit
                 /\ \A i \in DOMAIN results' : results'[i].score >= x.score
         /\ \A x \in Merged, i \in DOMAIN results' :
              x.score > results'[i].score => \E j \in 1 .. i - 1 : results'[j] = x
<1> USE DEF SearchInv
<1> DEFINE value == [r \in Merged |-> r.score]
           N == Cardinality(Merged)
<1>1. pc = "merge" /\ ~FullTextRunning /\ results' \in Best(Merged, value, req.limit)
  BY DEF Merge
<1>2. IsFiniteSet(Merged) /\ Merged \subseteq Scored
  BY <1>1, MergedIs
<1>3. req.limit \in Nat /\ value \in [Merged -> Nat] /\ \A x \in Merged : x.score \in Nat
  <2>1. req.limit \in Nat
    BY SearchAssumption DEF SearchTypeOK, Request
  <2>2. \A x \in Merged : x.score \in Nat
    BY <1>2 DEF Scored
  <2>3. QED
    BY <2>1, <2>2
<1>4. \A x \in Merged : value[x] = x.score
  OBVIOUS
<1> HIDE DEF value
<1>5. /\ N \in Nat /\ results' \in Seq(Merged) /\ Len(results') = Least(N, req.limit)
      /\ DOMAIN results' = 1 .. Len(results')
  BY <1>1, <1>2, <1>3, BestIs
<1>6. PICK s : SortedIn(s, Merged, value, results')
  BY <1>1, <1>2, <1>3, BestIs
<1>7. /\ \A i \in 1 .. N : s[i] \in Merged
      /\ \A i, j \in 1 .. N : i < j => s[i].score >= s[j].score
      /\ \A x \in Merged : \E i \in 1 .. N : s[i] = x
      /\ \A i \in DOMAIN results' : results'[i] = s[i]
  BY <1>4, <1>6 DEF SortedIn
<1>8. \A i \in DOMAIN results' : i \in 1 .. N /\ i <= req.limit
  BY <1>3, <1>5 DEF Least
<1>9. ASSUME NEW x \in Merged
      PROVE  \/ \E i \in DOMAIN results' : results'[i] = x
             \/ /\ Len(results') = req.limit
                /\ \A i \in DOMAIN results' : results'[i].score >= x.score
  <2>1. PICK k \in 1 .. N : s[k] = x
    BY <1>7
  <2>2. CASE k <= req.limit
    <3>1. k \in DOMAIN results'
      BY <1>3, <1>5, <2>2 DEF Least
    <3>2. QED
      BY <1>7, <2>1, <3>1
  <2>3. CASE ~(k <= req.limit)
    <3>1. Len(results') = req.limit
      BY <1>3, <1>5, <2>3 DEF Least
    <3>2. \A i \in DOMAIN results' : i < k
      BY <1>3, <1>8, <2>3
    <3>3. QED
      BY <1>7, <1>8, <2>1, <3>1, <3>2
  <2>4. QED
    BY <2>2, <2>3
<1>10. ASSUME NEW x \in Merged, NEW i \in DOMAIN results', x.score > results'[i].score
       PROVE  \E j \in 1 .. i - 1 : results'[j] = x
  <2>1. PICK k \in 1 .. N : s[k] = x
    BY <1>7
  <2>2. i \in 1 .. N /\ results'[i] = s[i] /\ s[i].score \in Nat /\ x.score \in Nat
    BY <1>3, <1>7, <1>8, <1>10
  <2>3. ~(s[i].score >= s[k].score)
    BY <1>10, <2>1, <2>2
  <2>4. k < i
    BY <1>7, <1>10, <2>1, <2>2, <2>3
  <2>5. k \in DOMAIN results' /\ k \in 1 .. i - 1
    BY <1>5, <2>2, <2>4
  <2>6. QED
    BY <1>7, <2>1, <2>5
<1>11. QED
  BY <1>5, <1>9, <1>10

LEMMA MergeKeepsInv ==
  ASSUME SearchInv, Merge
  PROVE  SearchInv'
<1> USE DEF SearchInv
<1>1. /\ pc = "merge" /\ ~FullTextRunning /\ pc' = "idle" /\ queried' = NoProvider
      /\ hits' = {} /\ cands' = {} /\ found' = {} /\ seen' = {} /\ steady' = {}
      /\ UNCHANGED <<data, req, keys, ranked>>
  BY DEF Merge
<1> USE DEF data
<1>2. results' \in Seq([id : Msgs, score : Nat])
  <2>1. Merged \subseteq Scored
    BY <1>1, MergedIs
  <2>2. results' \in Seq(Merged)
    BY AnswerIs
  <2>3. QED
    BY <2>1, <2>2, SeqMonotonic DEF Scored
<1>3. SearchTypeOK'
  BY <1>1, <1>2 DEF SearchTypeOK
<1>4. PlacesOK'
  BY <1>1 DEF PlacesOK
<1>5. SeenOK' /\ SteadyOK'
  BY <1>1 DEF SeenOK, SteadyOK
<1>6. CandidatesOK'
  BY <1>1, FS_EmptySet DEF CandidatesOK, PlacesOK
<1>7. QED
  BY <1>3, <1>4, <1>5, <1>6

THEOREM SearchInvariant == SearchSpec => []SearchInv
<1>1. ASSUME SearchInv, [SearchNext]_searchVars PROVE SearchInv'
  <2>1. CASE Others
    BY <1>1, <2>1, OthersKeepInv
  <2>2. CASE Search
    <3>1. CASE \E g \in Asked, k \in Limits : Begin(g, k)
      BY <1>1, <3>1, BeginKeepsInv
    <3>2. CASE FullText
      BY <1>1, <3>2, FullTextKeepsInv
    <3>3. CASE NoSemantic
      BY <1>1, <3>3, NoSemanticKeepsInv
    <3>4. CASE ListKeys
      BY <1>1, <3>4, ListKeysKeepsInv
    <3>5. CASE \E i \in Msgs : ReadVector(i) \/ ReadFails(i)
      BY <1>1, <3>5, ReadVectorKeepsInv, ReadFailsKeepsInv
    <3>6. CASE Rank
      BY <1>1, <3>6, RankKeepsInv
    <3>7. CASE LookUp
      BY <1>1, <3>7, LookUpKeepsInv
    <3>8. CASE LookedUp
      BY <1>1, <3>8, LookedUpKeepsInv
    <3>9. CASE Merge
      BY <1>1, <3>9, MergeKeepsInv
    <3>10. QED
      BY <2>2, <3>1, <3>2, <3>3, <3>4, <3>5, <3>6, <3>7, <3>8, <3>9 DEF Search
  <2>3. CASE UNCHANGED searchVars
    <3> USE <1>1, <2>3 DEF SearchInv, searchVars, data, asking, witness
    <3>1. SearchTypeOK' /\ PlacesOK' /\ SeenOK' /\ CandidatesOK'
      BY DEF SearchTypeOK, PlacesOK, SeenOK, CandidatesOK
    <3>2. SteadyOK'
      BY DEF SteadyOK, Qualifies, Similarity, Listed, Crowded, Rival
    <3>3. QED
      BY <3>1, <3>2
  <2>4. QED
    BY <1>1, <2>1, <2>2, <2>3 DEF SearchNext
<1>2. QED
  BY SearchInvInit, <1>1, PTL DEF SearchSpec

-----------------------------------------------------------------------------
(* Theorems *)

(* Type correctness of a search and of the stores it reads.                 *)
THEOREM SearchTypeCorrect == SearchSpec => []SearchTypeOK
<1>1. SearchInv => SearchTypeOK
  BY DEF SearchInv
<1>2. QED
  BY SearchInvariant, <1>1, PTL

(* The answer of search_hybrid only has messages that were rows at some     *)
(* time during it, however stale the vectors and whatever a cleanup deletes.*)
THEOREM AnswersAreLive == SearchSpec => LiveAnswer
<1>1. ASSUME SearchInv, Merge PROVE Ids(results') \subseteq seen
  <2>1. \A r \in Merged : r.id \in seen
    <3>1. pc = "merge" /\ ~FullTextRunning
      BY <1>1 DEF Merge
    <3>2. \A r \in Merged : r.id \in hits \/ \E c \in found : c.id = r.id
      BY <1>1, <3>1, MergedIs
    <3>3. QED
      BY <1>1, <3>1, <3>2 DEF SearchInv, SeenOK, FullTextRunning
  <2>2. \A i \in DOMAIN results' : results'[i] \in Merged
    BY <1>1, AnswerIs, ElementOfSeq
  <2>3. QED
    BY <2>1, <2>2 DEF Ids
<1>2. SearchInv /\ [SearchNext]_searchVars => [Merge => Ids(results') \subseteq seen]_searchVars
  BY <1>1
<1>3. QED
  BY SearchInvariant, <1>2, PTL DEF SearchSpec, LiveAnswer

(* A similar enough message with its own vector throughout is in the answer *)
(* of search_hybrid, or its vector could not be read, or it is crowded out  *)
(* of the candidates, or of an answer in which nothing scores less.         *)
THEOREM StrongHitsStay == SearchSpec => StrongHitsReturned
<1> DEFINE Returned ==
      \A m \in {n \in steady : Qualifies(n)} :
       \/ m \in Ids(results') \/ Crowded(m)
       \/ Len(results') = req.limit /\ \A i \in DOMAIN results' : results'[i].score >= ScoreOf(m)
<1>1. ASSUME SearchInv, Merge PROVE Returned
  <2>1. SUFFICES ASSUME NEW m \in steady, Qualifies(m), ~Crowded(m)
        PROVE  \/ m \in Ids(results')
               \/ /\ Len(results') = req.limit
                  /\ \A i \in DOMAIN results' : results'[i].score >= ScoreOf(m)
    OBVIOUS
  <2>2. pc = "merge" /\ ~FullTextRunning
    BY <1>1 DEF Merge
  <2>3. Own(m) \in found
    BY <1>1, <2>1, <2>2 DEF SearchInv, SteadyOK
  <2>4. PICK x \in Merged : x.id = m /\ x.score = ScoreOf(m)
    BY <1>1, <2>2, <2>3, MergedIs DEF Own, ScoreOf
  <2>5. CASE \E i \in DOMAIN results' : results'[i] = x
    BY <2>4, <2>5 DEF Ids
  <2>6. CASE /\ Len(results') = req.limit
             /\ \A i \in DOMAIN results' : results'[i].score >= x.score
    BY <2>4, <2>6
  <2>7. QED
    BY <1>1, <2>5, <2>6, AnswerIs
<1>2. SearchInv /\ [SearchNext]_searchVars => [Merge => Returned]_searchVars
  BY <1>1
<1>3. QED
  BY SearchInvariant, <1>2, PTL DEF SearchSpec, StrongHitsReturned

(* merge_results puts every double hit before the full-text hits alone.     *)
THEOREM DoubleHitsLead == SearchSpec => DoubleHitsFirst
<1> DEFINE Led ==
      \A i \in DOMAIN results' : results'[i].id \in hits \ Double =>
        \A m \in Double : \E j \in 1 .. i - 1 : results'[j].id = m
<1>1. ASSUME SearchInv, Merge PROVE Led
  <2>1. SUFFICES ASSUME NEW i \in DOMAIN results', results'[i].id \in hits \ Double,
                        NEW m \in Double
        PROVE  \E j \in 1 .. i - 1 : results'[j].id = m
    OBVIOUS
  <2>2. pc = "merge" /\ ~FullTextRunning
    BY <1>1 DEF Merge
  <2>3. results'[i] \in Merged
    BY <1>1, <2>1, AnswerIs, ElementOfSeq
  <2>4. results'[i].score = 4000
    BY <1>1, <2>1, <2>2, <2>3, MergedIs DEF Double
  <2>5. PICK c \in found : c.id = m /\ m \in hits
    BY <2>1 DEF Double
  <2>6. PICK x \in Merged : x.id = m /\ x.score > 4000
    BY <1>1, <2>2, <2>5, MergedIs
  <2>7. PICK j \in 1 .. i - 1 : results'[j] = x
    BY <1>1, <2>1, <2>4, <2>6, AnswerIs
  <2>8. QED
    BY <2>6, <2>7
<1>2. SearchInv /\ [SearchNext]_searchVars => [Merge => Led]_searchVars
  BY <1>1
<1>3. QED
  BY SearchInvariant, <1>2, PTL DEF SearchSpec, DoubleHitsFirst

(* With a provider of another vector length search_hybrid answers what the  *)
(* full-text query found.                                                   *)
THEOREM OtherSizesDegrade == SearchSpec => OtherSizeIsFullText
<1>1. ASSUME SearchInv, Merge, queried \notin SameSize PROVE Ids(results') \subseteq hits
  <2>1. pc = "merge" /\ ~FullTextRunning /\ found = {}
    BY <1>1 DEF Merge, SearchInv, CandidatesOK
  <2>2. \A r \in Merged : r.id \in hits
    BY <1>1, <2>1, MergedIs
  <2>3. \A i \in DOMAIN results' : results'[i] \in Merged
    BY <1>1, AnswerIs, ElementOfSeq
  <2>4. QED
    BY <2>2, <2>3 DEF Ids
<1>2. SearchInv /\ [SearchNext]_searchVars
        => [Merge /\ queried \notin SameSize => Ids(results') \subseteq hits]_searchVars
  BY <1>1
<1>3. QED
  BY SearchInvariant, <1>2, PTL DEF SearchSpec, OtherSizeIsFullText
=============================================================================
