--------------------------- MODULE EvidenceSelection ---------------------------
(***************************************************************************)
(* Which chunks a retrieval returns (rag/retrieval.py, CandidateRetriever) *)
(* and what a revision round keeps of the evidence it had                  *)
(* (agents/nodes.py, _merge_revision_retrieval).                           *)
(*                                                                         *)
(* A chunk is its source id.  Similarity and the weighted score of a chunk *)
(* are left open: `ranked` is the order they put the candidates in.        *)
(***************************************************************************)
EXTENDS Folding, FiniteSets, SequencesExt

CONSTANTS
    Chunks,
    KnowledgeOf,     \* the knowledge point of a chunk
    CapabilitiesOf,  \* what a chunk can serve in a practice guide
    Related,         \* pairs of knowledge points with a published relation
    Capacity         \* MAX_EVIDENCE_CHUNKS

ASSUME ChunksAssumption == IsFiniteSet(Chunks)
ASSUME KnowledgeOfAssumption == DOMAIN KnowledgeOf = Chunks
ASSUME CapabilitiesOfAssumption == DOMAIN CapabilitiesOf = Chunks
ASSUME CapacityAssumption == Capacity \in Nat \ {0}

SmallerOf(a, b) == IF a < b THEN a ELSE b

With(chosen, c) == IF Contains(chosen, c) THEN chosen ELSE Append(chosen, c)

Joining == [chosen \in Seq(Chunks) |-> [c \in Chunks |-> With(chosen, c)]]

FirstOf(chunks, n) == SubSeq(chunks, 1, SmallerOf(n, Len(chunks)))

\* The best ranked of some chunks
Best(ranked, chunks) ==
  ranked[CHOOSE i \in DOMAIN ranked :
           ranked[i] \in chunks /\ \A j \in 1..(i - 1) : ranked[j] \notin chunks]

\* _explicit_records
ExplicitRecords(collection, k) == {c \in collection : KnowledgeOf[c] = k}

\* _relation_records: the neighbours of the knowledge points that were found, fewer
\* of them here than its limits (2 for each direction and point, 24 in all).
Neighbours(seeds) ==
  {k \in {KnowledgeOf[c] : c \in Chunks} \ seeds :
     \E p \in seeds : {<<p, k>>, <<k, p>>} \cap Related # {}}

\* _semantic_records: the valid chunks near the query, which may be any.
SemanticRecords(collection) == SUBSET collection

\* The candidates of one retrieval from the active collection.
Gathered(collection, explicit, near) ==
  LET seeds == {k \in Range(explicit) : ExplicitRecords(collection, k) # {}}
  IN near \cup UNION {ExplicitRecords(collection, k) :
                        k \in Range(explicit) \cup Neighbours(seeds)}

\* _merge and _score_candidates: each chunk once, in the order of the scores.
Rankings(chunks) == SetToSeqs(chunks)

\* One chunk per planned knowledge point, in the order of the plan.
Planned(ranked, explicit, n) ==
  LET Own(k) == ExplicitRecords(Range(ranked), k) IN
  Folded([chosen \in Seq(Chunks) |-> [k \in Range(explicit) |->
            IF Len(chosen) >= n \/ Own(k) = {} THEN chosen
            ELSE With(chosen, Best(ranked, Own(k)))]],
         <<>>, explicit)

\* A practice guide needs an action and an observable result for each planned
\* knowledge point.
PracticeNeeds == <<"operation", "expected_result">>

Completed(ranked, chosen, k, need, n) ==
  LET held   == UNION {CapabilitiesOf[c] : c \in ExplicitRecords(Range(chosen), k)}
      serves == {c \in ExplicitRecords(Range(ranked), k) \ Range(chosen) :
                   need \in CapabilitiesOf[c]}
  IN IF need \in held \/ serves = {} \/ Len(chosen) >= n THEN chosen
     ELSE Append(chosen, Best(ranked, serves))

Supplemented(ranked, chosen, explicit, n) ==
  Folded([some \in Seq(Chunks) |-> [k \in Range(explicit) |->
            Completed(ranked, Completed(ranked, some, k, PracticeNeeds[1], n),
                      k, PracticeNeeds[2], n)]],
         chosen, explicit)

\* append_ranked: first knowledge points not seen yet, then any chunk.
Filled(ranked, chosen, n) ==
  LET Adding(again) ==
        [some \in Seq(Chunks) |-> [c \in Chunks |->
           IF Len(some) >= n
              \/ (~again /\ ExplicitRecords(Range(some), KnowledgeOf[c]) # {}) THEN some
           ELSE With(some, c)]]
  IN Folded(Adding(TRUE), Folded(Adding(FALSE), chosen, ranked), ranked)

\* The evidence of the selected quiz questions goes first.
QuizFirst(chosen, quiz, n) == FirstOf(Folded(Joining, quiz, chosen), n)

\* _assemble_output
Assembled(ranked, explicit, practice, quiz, n) ==
  LET planned == Planned(ranked, explicit, n)
      usable  == IF practice THEN Supplemented(ranked, planned, explicit, n) ELSE planned
  IN QuizFirst(Filled(ranked, usable, n), quiz, n)

\* What a retrieval may return, whatever the scores are.
Retrievals(collection, explicit, practice, quiz, n) ==
  UNION {{Assembled(ranked, explicit, practice, quiz, n) :
            ranked \in Rankings(Gathered(collection, explicit, near))} :
         near \in SemanticRecords(collection)}

\* TaskScopedArbitrationRetriever: the cited knowledge points come first, and
\* one chunk more than they need is asked for, up to 12.
VerificationBudget(n, cited) ==
  LET needed == IF n < Cardinality(cited) + 1 THEN Cardinality(cited) + 1 ELSE n
  IN SmallerOf(12, needed)

\* The chunks of `more` that are in `of` are added while there is room.
Extended(have, more, of) ==
  Folded([some \in Seq(Chunks) |-> [c \in Chunks |->
            IF c \notin of \/ Len(some) >= Capacity THEN some ELSE With(some, c)]],
         have, more)

\* _merge_revision_retrieval: what inherited resources cite, the fresh evidence,
\* what the resources under revision cite, and the rest while there is room.
Merged(previous, fresh, inherited, active) ==
  Extended(Extended(Extended(Extended(<<>>, inherited, Chunks), fresh, Chunks),
                    previous, active),
           previous, Chunks)

\* _merge_evidence: the arbitration's chunks come after the resource's own.
WithRefreshed(original, refreshed) == FirstOf(Folded(Joining, original, refreshed), Capacity)
=============================================================================
