---------------------------- MODULE CandidateIndex ----------------------------
(***************************************************************************)
(* The candidate index of one domain: isolated builds of a vector          *)
(* collection (rag/candidate_index.py), the manifest row that names the    *)
(* active one (rag/database_manifest_store.py), the rebuild job            *)
(* (services/candidate_index_job.py) and the readiness that is derived     *)
(* from both (rag/readiness.py, services/domain_api_service.py).           *)
(*                                                                         *)
(* The published catalog is the seeded content, edited `edits` times, and  *)
(* the documents adopted since.  A source is what source_data_version      *)
(* hashes: the catalog and the prerequisite relations between its items.   *)
(* Collections are numbered in the order they are created.                 *)
(***************************************************************************)
EXTENDS Naturals, FiniteSets

CONSTANTS
    Docs,      \* uploaded documents
    Linked,    \* documents whose import proposes prerequisite relations
    Base,      \* the seeded content
    Rebuild,   \* the rebuild job, beside one import build per document
    NoCand,
    MaxColls,  \* bound: collections created
    MaxEdits   \* bound: edits of published items

ASSUME NamesAssumption == Base \notin Docs /\ Rebuild \notin Docs

\* A built candidate; NoCand stands for none.
Source == [docs : SUBSET Docs, edits : Nat, links : SUBSET Docs]
Manifest == [coll : Nat, source : Source, prev : Nat]

ASSUME NoCandAssumption == NoCand \notin Manifest

Builders == Docs \cup {Rebuild}

VARIABLES
    domain,    \* Domain.status: ready or preparing
    adopted,   \* documents whose items are published
    edits,     \* edits of published items
    covered,   \* topics whose formal questions are complete
    manifest,  \* active manifest: [coll, source, prev]
    colls,     \* collections in the vector store
    minted,    \* collections created so far
    smoked,    \* sources a successful job has smoke evidence for
    job,       \* latest IndexBuildJob of each builder
    rebuild,   \* run_rebuild: pc, its candidate and the manifest it checked
    sweeps,    \* candidates just activated whose predecessors are to be deleted
    raced,     \* history: an activation was committed over a newer state than it read
    overtaken  \* history: a cleanup ran during or after the next activation

catalogVars == <<domain, adopted, edits, covered>>
storeVars == <<manifest, colls, minted, smoked>>
history == <<raced, overtaken>>
indexVars == <<catalogVars, storeVars, job, rebuild, sweeps, history>>

Topics == Docs \cup {Base}
IdleRebuild == [pc |-> "idle", cand |-> NoCand, seen |-> 0]

\* knowledge_catalog_fingerprint of the published items.
Catalog == [docs |-> adopted, edits |-> edits]

\* database_source_snapshot of the published items.
LiveSource == [docs |-> adopted, edits |-> edits, links |-> adopted \cap Linked]

\* Variant of ProjectedSource: an import is built from what is published.
ProjectedPublished(d, staged) == LiveSource

\* An import build sees staged items, but no relation it has yet to publish.
ProjectedSource(d, staged) ==
    [LiveSource EXCEPT !.docs = @ \cup ({d} \cap staged)]

IndexInit ==
    LET source == [docs |-> {}, edits |-> 0, links |-> {}] IN
    /\ domain = "ready" /\ adopted = {} /\ edits = 0 /\ covered = {Base}
    /\ manifest = [coll |-> 1, source |-> source, prev |-> 0]
    /\ colls = {1} /\ minted = 1 /\ smoked = {source}
    /\ job = [b \in Builders |-> "none"]
    /\ rebuild = IdleRebuild /\ sweeps = {}
    /\ raced = FALSE /\ overtaken = FALSE

(***************************************************************************)
(* What the index promises its readers.                                    *)
(***************************************************************************)
\* CandidateIndexAccess.active
IndexUsable == manifest.coll \in colls

\* candidate_rag_status
RagReady == IndexUsable /\ manifest.source = LiveSource

\* load_domain_runtime: every published item has its formal questions.
QuestionBankReady(topics) == adopted \cup {Base} \subseteq topics

\* DomainApiService.readiness; a topic stands for its items.
Readiness(topics) ==
    /\ QuestionBankReady(topics)
    /\ RagReady
    /\ manifest.source \in smoked

(***************************************************************************)
(* Builds and activation, shared by rebuilds and imports.                  *)
(***************************************************************************)
\* try_start: at most one running job of the domain.
NoRunningJob == \A b \in Builders : job[b] # "running"

\* mark_interrupted_on_startup
InterruptedJobs ==
    [b \in Builders |-> IF job[b] = "running" THEN "interrupted" ELSE job[b]]

\* build_candidate: an incremental build on the active collection, which must
\* exist.  Nothing to do if the manifest was built from the same source.
Unchanged(source) == manifest.source = source

NewCandidate(source) ==
    [coll |-> minted + 1, source |-> source, prev |-> manifest.coll]

CanBuild(source) == IndexUsable /\ (Unchanged(source) \/ minted < MaxColls)

ActivatableMissing(cand) == IndexUsable => manifest.coll \in {cand.coll, cand.prev}

\* activate_candidate: the checks made before the manifest is written.
Activatable(cand) ==
    /\ cand.coll \in colls
    /\ IndexUsable =>
          \/ manifest.coll = cand.coll /\ manifest.source = cand.source
          \/ manifest.coll = cand.prev

\* Variant of Kept: the collection that was replaced is all that is kept.
KeptPrevious(cand) == {cand.prev}

\* cleanup_after_activation keeps the new collection and the one it replaced.
Kept(cand) == {cand.coll, cand.prev}

\* It runs after the activation was committed, whatever else is then under way.
Sweep(cand, activating) ==
    /\ cand \in sweeps
    /\ sweeps' = sweeps \ {cand}
    /\ colls' = colls \cap Kept(cand)
    /\ overtaken' = (overtaken \/ manifest.coll # cand.coll \/ activating)
    /\ UNCHANGED <<catalogVars, manifest, minted, smoked, job, rebuild, raced>>

\* discard_candidate refuses the active collection, and refuses altogether when
\* that one is missing.
Discarded(coll) ==
    IF IndexUsable /\ coll # manifest.coll THEN colls \ {coll} ELSE colls

(***************************************************************************)
(* The rebuild job.                                                        *)
(***************************************************************************)
\* rebuild_vector_index, and document withdrawals
StartRebuild ==
    /\ NoRunningJob /\ rebuild.pc = "idle"
    /\ job' = [job EXCEPT ![Rebuild] = "running"]
    /\ rebuild' = [IdleRebuild EXCEPT !.pc = "build"]
    /\ UNCHANGED <<catalogVars, storeVars, sweeps, history>>

RebuildFails ==
    /\ rebuild.pc \in {"build", "smoke"}
    /\ colls' = IF rebuild.pc = "smoke" THEN Discarded(rebuild.cand.coll) ELSE colls
    /\ job' = [job EXCEPT ![Rebuild] = "failed"]
    /\ rebuild' = IdleRebuild
    /\ UNCHANGED <<catalogVars, manifest, minted, smoked, sweeps, history>>

\* An unchanged index is smoke tested and nothing is switched.
RebuildUnchanged ==
    /\ rebuild.pc = "build" /\ IndexUsable /\ Unchanged(LiveSource)
    /\ job' = [job EXCEPT ![Rebuild] = "success"]
    /\ smoked' = smoked \cup {LiveSource}
    /\ rebuild' = IdleRebuild
    /\ UNCHANGED <<catalogVars, manifest, colls, minted, sweeps, history>>

RebuildBuild ==
    /\ rebuild.pc = "build" /\ CanBuild(LiveSource) /\ ~Unchanged(LiveSource)
    /\ rebuild' = [rebuild EXCEPT !.pc = "smoke", !.cand = NewCandidate(LiveSource)]
    /\ minted' = minted + 1
    /\ colls' = colls \cup {minted + 1}
    /\ UNCHANGED <<catalogVars, manifest, smoked, job, sweeps, history>>

\* The manifest is read, in a transaction that writes it later.
RebuildCheck ==
    /\ rebuild.pc = "smoke" /\ Activatable(rebuild.cand)
    /\ rebuild' = [rebuild EXCEPT !.pc = "checked", !.seen = manifest.coll]
    /\ UNCHANGED <<catalogVars, storeVars, job, sweeps, history>>

RebuildCommit ==
    /\ rebuild.pc = "checked"
    /\ manifest' = rebuild.cand
    /\ smoked' = smoked \cup {rebuild.cand.source}
    /\ job' = [job EXCEPT ![Rebuild] = "success"]
    /\ raced' = (raced \/ manifest.coll # rebuild.seen)
    /\ sweeps' = sweeps \cup {rebuild.cand}
    /\ rebuild' = IdleRebuild
    /\ UNCHANGED <<catalogVars, colls, minted, overtaken>>

RebuildStep ==
    \/ RebuildFails \/ RebuildUnchanged \/ RebuildBuild
    \/ RebuildCheck \/ RebuildCommit

(***************************************************************************)
(* Maintenance of published items and questions by an administrator.       *)
(***************************************************************************)
\* Variant of UpdateItem that leaves the domain as it was.
UpdateItemQuietly ==
    /\ edits < MaxEdits
    /\ edits' = edits + 1
    /\ covered' = covered \ {Base}
    /\ UNCHANGED <<domain, adopted, storeVars, job, rebuild, sweeps, history>>

\* update_knowledge_item: the questions of the item become stale.
UpdateItem ==
    /\ edits < MaxEdits
    /\ edits' = edits + 1
    /\ covered' = covered \ {Base}
    /\ domain' = "preparing"
    /\ UNCHANGED <<adopted, storeVars, job, rebuild, sweeps, history>>

\* DomainApiService.publish
PublishDomain ==
    /\ domain = "preparing" /\ Readiness(covered)
    /\ domain' = "ready"
    /\ UNCHANGED <<adopted, edits, covered, storeVars, job, rebuild, sweeps, history>>
================================================================================
