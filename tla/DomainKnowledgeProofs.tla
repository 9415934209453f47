------------------------ MODULE DomainKnowledgeProofs ------------------------
(***************************************************************************)
(* DomainKnowledge keeps its invariants for any number of documents, edits,*)
(* retries and restarts.  The invariant has one part per promise:          *)
(*   CancelInv   an early cancellation is ahead of every check that counts *)
(*   ThreadInv   a thread that is to claim its run will not be refused     *)
(*   ReadInv     what an activation has read is complete                   *)
(*   IndexInv    nobody else names the collection of a rebuild             *)
(*   UsableInv   what may become active exists                             *)
(*   StagedInv   what is built or published of a document, while it is not *)
(*               deleted, is there                                         *)
(*   OrderInv    the active collection is only replaced by younger ones    *)
(*   GrowthInv   a candidate on top of the active index has what that      *)
(*               serves of the published knowledge                         *)
(*   JudgedInv   an activation was judged by the index it replaces         *)
(* The last three hold until an activation or a cleanup is overtaken, or a *)
(* document that was deleted is activated again.                           *)
(***************************************************************************)
EXTENDS DomainKnowledge, TLAPS

RunStatuses == {"none", "queued", "running", "interrupted", "ready_to_publish",
                "ready_for_questions", "ready", "needs_attention", "failed",
                "cancel_requested", "cancelled"}
Steps == {"none", "claim", "prepare", "stage", "index", "build", "smoke", "refresh"}
Requests == {"no", "early", "late", "deleted"}
SetStatuses == {"none", "preparing", "ready_for_questions", "questions_preparing",
                "ready_to_activate", "activated", "cancelled"}
JobStatuses == {"none", "running", "success", "failed", "interrupted"}

CatalogRow == [docs: SUBSET Docs, edits: Nat]
SetRow == [status: SetStatuses, base: CatalogRow]
Read == [manifest: Nat, catalog: CatalogRow, covered: SUBSET Topics,
         set: SetStatuses, items: {"none", "staged", "updated", "deleted"},
         cand: Manifest \cup {NoCand}]
RebuildRow == [pc: {"idle", "build", "smoke", "checked"}, cand: Manifest \cup {NoCand}, seen: Nat]

\* The published knowledge and the index
StoreTypes ==
    /\ adopted \in SUBSET Docs /\ edits \in Nat /\ covered \in SUBSET Topics
    /\ manifest \in Manifest /\ minted \in Nat /\ colls \in SUBSET Nat
    /\ job \in [Builders -> JobStatuses]
    /\ rebuild \in RebuildRow

\* Imports and change sets
ImportTypes ==
    /\ run \in [Docs -> RunStatuses] /\ thread \in [Docs -> Steps] /\ asked \in [Docs -> Requests]
    /\ leased \in SUBSET Docs
    /\ cand \in [Docs -> Manifest \cup {NoCand}]
    /\ staged \in SUBSET Docs
    /\ set \in [Docs -> SetRow]
    /\ draft \in [Docs -> SUBSET Topics]
    /\ publish \in [Docs -> Read]

CancelInv ==
    \A d \in Docs : asked[d] = "early" =>
        /\ run[d] \in NeverPublished
        /\ publish[d] = NoRead
        /\ \/ thread[d] \in {"none", "claim"}
           \/ thread[d] \in {"prepare", "stage", "index"} /\ run[d] = "cancel_requested"

ThreadInv ==
    /\ RunningHasThread
    /\ \A d \in Docs : thread[d] = "claim" /\ run[d] \in {"running", "interrupted"} =>
          d \notin leased

\* Complete reads a whole catalog.
Complete(read, d) ==
    read.set # "none" /\ read.items \in {"staged", "updated"} =>
        /\ read.catalog.docs \cup {Base} \subseteq read.covered
        /\ read.items = "staged" => d \in read.covered

ReadInv == \A d \in Docs : Complete(publish[d], d)

Candidates == {d \in Docs : cand[d] # NoCand}
Readers == {d \in Docs : publish[d] # NoRead}

IndexInv ==
    /\ manifest.coll <= minted
    /\ \A d \in Candidates : cand[d].coll <= minted
    /\ \A d \in Readers : publish[d].cand # NoCand /\ publish[d].cand.coll <= minted
    /\ rebuild.pc \in {"smoke", "checked"} =>
          /\ rebuild.cand # NoCand
          /\ rebuild.cand.coll <= minted
          /\ rebuild.cand.coll # manifest.coll
          /\ \A d \in Candidates : cand[d].coll # rebuild.cand.coll
          /\ \A d \in Readers : publish[d].cand.coll # rebuild.cand.coll
    /\ \A d \in Docs : job[d] = "success" => d \in Candidates

UsableInv ==
    \/ overtaken
    \/ /\ IndexUsable
       /\ rebuild.pc = "checked" => rebuild.cand.coll \in colls
       /\ \A d \in Readers : publish[d].cand.coll \in colls

Rebuilt == rebuild.pc \in {"smoke", "checked"}

StagedInv == \A d \in Docs \ deleted :
    /\ thread[d] \in {"index", "build"} => d \in staged \cup adopted
    /\ d \in Candidates => d \in staged \cup adopted /\ d \in cand[d].source.docs

OrderInv ==
    /\ manifest.prev < manifest.coll
    /\ \A d \in Candidates : cand[d].prev < cand[d].coll /\ cand[d].prev <= manifest.coll
    /\ Rebuilt => rebuild.cand.prev < rebuild.cand.coll /\ rebuild.cand.prev <= manifest.coll
    /\ rebuild.pc = "checked" => rebuild.cand.prev = rebuild.seen
    /\ \A d \in Readers : publish[d].manifest <= manifest.coll

\* The candidate c, built on the active index, adds at most the documents in new.
OnTop(c, new) ==
    /\ adopted \subseteq c.source.docs
    /\ c.source.docs \subseteq manifest.source.docs \cup new
    /\ adopted \cap Linked \subseteq c.source.links
    /\ c.source.links \subseteq manifest.source.docs \cap Linked
    /\ manifest.source.edits <= c.source.edits /\ c.source.edits <= edits

GrowthInv ==
    /\ adopted \subseteq manifest.source.docs
    /\ manifest.source.docs \subseteq adopted \cup deleted
    /\ manifest.source.edits <= edits
    /\ \A d \in Candidates : cand[d].prev = manifest.coll => OnTop(cand[d], {d})
    /\ Rebuilt /\ rebuild.cand.prev = manifest.coll => OnTop(rebuild.cand, {})

\* The source of a catalog.
SourceOf(catalog) ==
    [docs |-> catalog.docs, edits |-> catalog.edits, links |-> catalog.docs \cap Linked]

JudgedInv == \A d \in Readers : publish[d].manifest = manifest.coll =>
    /\ \/ publish[d].cand.coll = manifest.coll /\ publish[d].cand.source = manifest.source
       \/ publish[d].cand.prev = manifest.coll
    /\ publish[d].set # "none" => manifest.source = SourceOf(publish[d].catalog)

Quiet == ~raced /\ ~overtaken /\ ~returned

ServedInv == Quiet => OrderInv /\ GrowthInv /\ JudgedInv

IInv ==
    /\ StoreTypes /\ ImportTypes
    /\ CancelInv /\ ThreadInv /\ ReadInv /\ ReadyIsCovered /\ IndexInv /\ UsableInv
    /\ StagedInv /\ ServedInv

-----------------------------------------------------------------------------
(* Types                                                                   *)

LEMMA SourceTypes ==
  ASSUME StoreTypes, ImportTypes
  PROVE  /\ Catalog \in CatalogRow /\ LiveSource \in Source
         /\ \A d \in Docs : ProjectedSource(d, staged) \in Source
         /\ \A s \in Source : NewCandidate(s) \in Manifest /\ NewCandidate(s).coll = minted + 1
         /\ IdleRebuild \in RebuildRow
         /\ NoRead \in Read /\ NoRead.set = "none"
  <1>1. Catalog \in CatalogRow /\ LiveSource \in Source
    BY DEF StoreTypes, Catalog, CatalogRow, LiveSource, Source
  <1>2. ASSUME NEW d \in Docs
        PROVE  ProjectedSource(d, staged) \in Source
    BY <1>1 DEF ImportTypes, ProjectedSource, Source
  <1>3. ASSUME NEW s \in Source
        PROVE  NewCandidate(s) \in Manifest /\ NewCandidate(s).coll = minted + 1
    BY DEF StoreTypes, NewCandidate, Manifest
  <1>4. IdleRebuild \in RebuildRow
    BY DEF IdleRebuild, RebuildRow
  <1>5. NoRead \in Read /\ NoRead.set = "none"
    BY DEF NoRead, Read, CatalogRow, SetStatuses
  <1> QED BY <1>1, <1>2, <1>3, <1>4, <1>5

LEMMA InitTypes ==
  ASSUME Init
  PROVE  StoreTypes /\ ImportTypes
  <1> USE DEF Init
  <1>1. StoreTypes
    <2>1. [docs |-> {}, edits |-> 0, links |-> {}] \in Source
      BY DEF Source
    <2> QED BY <2>1 DEF IndexInit, StoreTypes, Manifest, Topics, IdleRebuild, RebuildRow, JobStatuses
  <1>2. NoRead \in Read
    BY DEF NoRead, Read, CatalogRow, SetStatuses
  <1>3. NoSet \in SetRow
    BY DEF NoSet, SetRow, CatalogRow, SetStatuses
  <1>4. ImportTypes
    BY <1>2, <1>3 DEF ImportTypes, RunStatuses, Steps, Requests
  <1> QED BY <1>1, <1>4

\* Every step of the module, in the groups that the proofs go through.
ImportOnly(d) ==
    \/ Upload(d) \/ RetryDocument(d) \/ CancelImport(d) \/ Claim(d) \/ CancelHeeded(d)
    \/ Prepare(d) \/ Stage(d) \/ Revalidate(d) \/ ConfirmForQuestions(d)

LEMMA NextCases ==
  ASSUME [Next]_vars
  PROVE  \/ \E d \in Docs : \/ ImportOnly(d)
                            \/ StepFails(d) \/ StartBuild(d) \/ Build(d) \/ Smoke(d) \/ Refresh(d)
                            \/ BeginPublication(d) \/ CommitPublication(d) \/ AbortPublication(d)
                            \/ PublishDraft(d) \/ CancelSet(d) \/ Withdraw(d)
         \/ IndexStep
         \/ \E w \in Workbooks : \/ ValidateWorkbook(w)
                                 \/ \E scope \in SUBSET Topics : UploadWorkbook(w, scope)
         \/ PublishLive \/ (\E c \in discards : DiscardCandidate(c)) \/ Crash \/ Startup
         \/ UNCHANGED vars
  BY DEF Next, DocumentStep, ImportStep, ImportOnly

LEMMA StoreStep ==
  ASSUME StoreTypes, ImportTypes, IndexInv, [Next]_vars
  PROVE  StoreTypes'
  <1> USE DEF indexVars, catalogVars, storeVars, history
  <1>0. /\ Catalog \in CatalogRow /\ LiveSource \in Source
        /\ \A d \in Docs : ProjectedSource(d, staged) \in Source
        /\ \A s \in Source : NewCandidate(s) \in Manifest
        /\ IdleRebuild \in RebuildRow
    BY SourceTypes
  <1>1. ASSUME UNCHANGED <<indexVars>>
        PROVE  StoreTypes'
    BY <1>1 DEF StoreTypes
  <1>2. ASSUME NEW d \in Docs, ImportOnly(d)
        PROVE  StoreTypes'
    BY <1>1, <1>2 DEF ImportOnly, Upload, RetryDocument, CancelImport, Claim, CancelHeeded,
       Prepare, Stage, Revalidate, ConfirmForQuestions
  <1>3. ASSUME NEW d \in Docs, StepFails(d) \/ StartBuild(d)
        PROVE  StoreTypes'
    BY <1>3 DEF StepFails, StartBuild, StoreTypes, JobStatuses
  <1>4. ASSUME NEW d \in Docs, Build(d)
        PROVE  StoreTypes'
    <2>0. minted \in Nat /\ minted + 1 \in Nat
      BY DEF StoreTypes
    <2>1. colls' \in SUBSET Nat /\ minted' \in Nat
      BY <1>4, <2>0 DEF Build, StoreTypes
    <2> QED BY <1>4, <2>1 DEF Build, StoreTypes, JobStatuses
  <1>5. ASSUME NEW d \in Docs, Smoke(d) \/ BeginPublication(d) \/ AbortPublication(d)
                               \/ PublishDraft(d) \/ CancelSet(d)
        PROVE  StoreTypes'
    BY <1>1, <1>5 DEF Smoke, BeginPublication, AbortPublication, PublishDraft, CancelSet
  <1>6. ASSUME NEW d \in Docs, Refresh(d)
        PROVE  StoreTypes'
    BY <1>6 DEF Refresh, StoreTypes
  <1>7. ASSUME NEW d \in Docs, CommitPublication(d)
        PROVE  StoreTypes'
    <2>0. publish[d].cand \in Manifest
      <3>1. publish[d] # NoRead
        BY <1>7 DEF CommitPublication, NoRead
      <3> QED BY <3>1 DEF IndexInv, Readers, ImportTypes, Read
    <2>1. covered' \in SUBSET Topics /\ adopted' \in SUBSET Docs
      BY <1>7 DEF CommitPublication, StoreTypes, ImportTypes
    <2> QED BY <1>7, <2>0, <2>1 DEF CommitPublication, StoreTypes
  <1>8. ASSUME NEW d \in Docs, Withdraw(d)
        PROVE  StoreTypes'
    <2>1. covered' \in SUBSET Topics /\ adopted' \in SUBSET Docs
      BY <1>8 DEF Withdraw, StoreTypes
    <2>2. job' \in [Builders -> JobStatuses]
      BY <1>8 DEF Withdraw, StoreTypes, JobStatuses, Builders
    <2>3. rebuild' \in RebuildRow
      BY <1>0, <1>8 DEF Withdraw, StoreTypes, RebuildRow
    <2> QED BY <1>8, <2>1, <2>2, <2>3 DEF Withdraw, StoreTypes
  <1>9. CASE IndexStep
    <2>1. CASE StartRebuild
      BY <1>0, <2>1 DEF StartRebuild, StoreTypes, JobStatuses, RebuildRow
    <2>2. CASE RebuildFails \/ RebuildUnchanged
      BY <1>0, <2>2 DEF RebuildFails, RebuildUnchanged, Discarded, StoreTypes, JobStatuses
    <2>3. CASE RebuildBuild
      <3>1. minted \in Nat /\ minted + 1 \in Nat
        BY DEF StoreTypes
      <3>2. colls' \in SUBSET Nat /\ minted' \in Nat
        BY <2>3, <3>1 DEF RebuildBuild, StoreTypes
      <3>3. NewCandidate(LiveSource) \in Manifest
        BY <1>0
      <3>4. rebuild' \in RebuildRow
        BY <2>3, <3>3 DEF RebuildBuild, StoreTypes, RebuildRow
      <3> QED BY <2>3, <3>2, <3>4 DEF RebuildBuild, StoreTypes
    <2>4. CASE RebuildCheck
      BY <2>4 DEF RebuildCheck, StoreTypes, RebuildRow, Manifest
    <2>5. CASE RebuildCommit /\ rebuild.cand \in Manifest
      BY <1>0, <2>5 DEF RebuildCommit, StoreTypes, JobStatuses
    <2>6. CASE PublishDomain \/ UpdateItem
      <3>1. edits' \in Nat /\ covered' \in SUBSET Topics
        BY <2>6 DEF PublishDomain, UpdateItem, StoreTypes
      <3> QED BY <2>6, <3>1 DEF PublishDomain, UpdateItem, StoreTypes
    <2>7. ASSUME NEW c \in sweeps, Sweep(c, Activating)
          PROVE  StoreTypes'
      BY <2>7 DEF Sweep, StoreTypes
    <2>8. RebuildCommit => rebuild.cand \in Manifest
      BY DEF RebuildCommit, IndexInv, StoreTypes, RebuildRow
    <2> QED BY <1>9, <2>1, <2>2, <2>3, <2>4, <2>5, <2>6, <2>7, <2>8 DEF IndexStep, RebuildStep
  <1>10. CASE PublishLive
    <2>1. covered' \in SUBSET Topics
      BY <1>10 DEF PublishLive, CatalogTopics, StoreTypes, Topics
    <2> QED BY <1>10, <2>1 DEF PublishLive, StoreTypes
  <1>11. ASSUME NEW c \in discards, DiscardCandidate(c)
         PROVE  StoreTypes'
    BY <1>11 DEF DiscardCandidate, Discarded, StoreTypes
  <1>12. CASE Crash
    BY <1>0, <1>12 DEF Crash, StoreTypes
  <1>13. CASE Startup
    BY <1>13 DEF Startup, InterruptedJobs, StoreTypes, JobStatuses
  <1>14. ASSUME NEW w \in Workbooks, ValidateWorkbook(w) \/ \E scope \in SUBSET Topics : UploadWorkbook(w, scope)
         PROVE  StoreTypes'
    BY <1>1, <1>14 DEF ValidateWorkbook, UploadWorkbook
  <1>15. CASE UNCHANGED vars
    BY <1>1, <1>15 DEF vars
  <1> QED BY NextCases, <1>2, <1>3, <1>4, <1>5, <1>6, <1>7, <1>8, <1>9, <1>10, <1>11, <1>12,
          <1>13, <1>14, <1>15

LEMMA SnapshotType ==
  ASSUME StoreTypes, ImportTypes, NEW d \in Docs
  PROVE  Snapshot(d) \in Read
  <1>1. Catalog \in CatalogRow
    BY SourceTypes
  <1>2. manifest.coll \in Nat
    BY DEF StoreTypes, Manifest
  <1>3. covered \cup draft[d] \in SUBSET Topics
    BY DEF StoreTypes, ImportTypes
  <1>4. set[d].status \in SetStatuses
    BY DEF ImportTypes, SetRow
  <1>5. cand[d] \in Manifest \cup {NoCand}
    BY DEF ImportTypes
  <1> QED BY <1>1, <1>2, <1>3, <1>4, <1>5 DEF Snapshot, Read

LEMMA ImportTypesStep ==
  ASSUME StoreTypes, ImportTypes, [Next]_vars
  PROVE  ImportTypes'
  <1> USE DEF importVars, stagingVars, processVars
  <1>0. /\ Catalog \in CatalogRow /\ NoRead \in Read
        /\ \A d \in Docs : ProjectedSource(d, staged) \in Source
        /\ \A s \in Source : NewCandidate(s) \in Manifest
    BY SourceTypes
  <1>1. ASSUME UNCHANGED <<importVars, stagingVars, publish>>
        PROVE  ImportTypes'
    BY <1>1 DEF ImportTypes
  <1>2. ASSUME NEW d \in Docs, Upload(d)
        PROVE  ImportTypes'
    <2>1. set' \in [Docs -> SetRow]
      BY <1>0, <1>2 DEF Upload, OpenedSet, ImportTypes, SetRow, SetStatuses
    <2> QED BY <1>2, <2>1 DEF Upload, ImportTypes, RunStatuses, Steps
  <1>3. ASSUME NEW d \in Docs, RetryDocument(d) \/ CancelImport(d) \/ Claim(d) \/ Revalidate(d)
        PROVE  ImportTypes'
    BY <1>3 DEF RetryDocument, CancelImport, Claim, Revalidate, ProjectedReadiness, ImportTypes,
       RunStatuses, Steps, Requests
  <1>4. ASSUME NEW d \in Docs, CancelHeeded(d) \/ StepFails(d) \/ Refresh(d)
        PROVE  ImportTypes'
    BY <1>4 DEF CancelHeeded, StepFails, Refresh, ProjectedReadiness, Outcome, End, ImportTypes,
       RunStatuses, Steps
  <1>5. ASSUME NEW d \in Docs, Prepare(d) \/ Stage(d) \/ StartBuild(d) \/ Smoke(d)
        PROVE  ImportTypes'
    BY <1>5 DEF Prepare, CandidatesReplaced, Stage, CandidatesApproved, StartBuild, Smoke, Advance,
       ImportTypes, Steps
  <1>6. ASSUME NEW d \in Docs, Build(d)
        PROVE  ImportTypes'
    <2>1. cand' \in [Docs -> Manifest \cup {NoCand}]
      BY <1>0, <1>6 DEF Build, ImportTypes, StoreTypes
    <2> QED BY <1>6, <2>1 DEF Build, Advance, ImportTypes, Steps
  <1>7. ASSUME NEW d \in Docs, ConfirmForQuestions(d)
        PROVE  ImportTypes'
    <2>1. set' \in [Docs -> SetRow]
      BY <1>7 DEF ConfirmForQuestions, ImportTypes, SetRow, SetStatuses
    <2> QED BY <1>7, <2>1 DEF ConfirmForQuestions, ImportTypes, RunStatuses
  <1>8. ASSUME NEW d \in Docs, BeginPublication(d) \/ AbortPublication(d)
        PROVE  ImportTypes'
    <2>1. publish' \in [Docs -> Read]
      BY <1>0, <1>8, SnapshotType DEF BeginPublication, AbortPublication, ImportTypes
    <2> QED BY <1>8, <2>1 DEF BeginPublication, AbortPublication, ImportTypes
  <1>9. ASSUME NEW d \in Docs, CommitPublication(d)
        PROVE  ImportTypes'
    <2>1. publish' \in [Docs -> Read]
      BY <1>0, <1>9 DEF CommitPublication, ImportTypes
    <2>2. set' \in [Docs -> SetRow]
      BY <1>9 DEF CommitPublication, ImportTypes, SetRow, SetStatuses
    <2>3. draft' \in [Docs -> SUBSET Topics]
      BY <1>9 DEF CommitPublication, ImportTypes
    <2> QED BY <1>9, <2>1, <2>2, <2>3 DEF CommitPublication, ImportTypes, RunStatuses
  <1>10. ASSUME NEW d \in Docs, PublishDraft(d)
         PROVE  ImportTypes'
    <2>1. set' \in [Docs -> SetRow]
      BY <1>10 DEF PublishDraft, ImportTypes, SetRow, SetStatuses
    <2>2. workbook[d].gap \subseteq Topics
      BY <1>10 DEF PublishDraft, CatalogTopics, ImportTypes, StoreTypes, Topics
    <2>3. draft' \in [Docs -> SUBSET Topics]
      BY <1>10, <2>2 DEF PublishDraft, ImportTypes
    <2> QED BY <1>10, <2>1, <2>3 DEF PublishDraft, ImportTypes
  <1>11. ASSUME NEW d \in Docs, CancelSet(d)
         PROVE  ImportTypes'
    <2>1. set' \in [Docs -> SetRow]
      BY <1>11 DEF CancelSet, ImportTypes, SetRow, SetStatuses
    <2>2. publish' \in [Docs -> Read]
      BY <1>11 DEF CancelSet, ImportTypes, Read
    <2>3. draft' \in [Docs -> SUBSET Topics] /\ staged' \in SUBSET Docs
      BY <1>11 DEF CancelSet, ImportTypes
    <2> QED BY <1>11, <2>1, <2>2, <2>3 DEF CancelSet, ImportTypes
  <1>12. ASSUME NEW d \in Docs, Withdraw(d)
         PROVE  ImportTypes'
    BY <1>12 DEF Withdraw, ImportTypes, RunStatuses, Requests
  <1>13. CASE Crash
    BY <1>0, <1>13 DEF Crash, ImportTypes, Steps
  <1>14. CASE Startup
    BY <1>14 DEF Startup, ImportTypes, RunStatuses, Steps
  <1>15. CASE IndexStep \/ PublishLive \/ \E c \in discards : DiscardCandidate(c)
    BY <1>1, <1>15 DEF IndexStep, PublishLive, DiscardCandidate, ImportTypes
  <1>16. ASSUME NEW w \in Workbooks,
                ValidateWorkbook(w) \/ \E scope \in SUBSET Topics : UploadWorkbook(w, scope)
         PROVE  ImportTypes'
    BY <1>16 DEF ValidateWorkbook, UploadWorkbook, ImportTypes
  <1>17. CASE UNCHANGED vars
    BY <1>1, <1>17 DEF vars
  <1> QED BY NextCases, <1>2, <1>3, <1>4, <1>5, <1>6, <1>7, <1>8, <1>9, <1>10, <1>11, <1>12,
          <1>13, <1>14, <1>15, <1>16, <1>17 DEF ImportOnly

-----------------------------------------------------------------------------
(* Cancellations                                                           *)

LEMMA CancelStep ==
  ASSUME ImportTypes, CancelInv, [Next]_vars
  PROVE  CancelInv'
  <1> USE DEF importVars, stagingVars, processVars
  <1>1. ASSUME UNCHANGED <<run, thread, asked, publish>>
        PROVE  CancelInv'
    BY <1>1 DEF CancelInv
  <1>2. ASSUME NEW d \in Docs, asked[d] # "early", asked' = asked,
               \A e \in Docs \ {d} :
                  run'[e] = run[e] /\ thread'[e] = thread[e] /\ publish'[e] = publish[e]
        PROVE  CancelInv'
    BY <1>2 DEF CancelInv
  <1>3. ASSUME NEW d \in Docs, ImportOnly(d)
        PROVE  CancelInv'
    <2>1. CASE Upload(d)
      BY <2>1 DEF Upload, NewDocument, CancelInv, ImportTypes, NeverPublished
    <2>2. CASE RetryDocument(d) \/ CancelImport(d) \/ Revalidate(d)
      BY <2>2 DEF RetryDocument, CancelImport, Revalidate, ProjectedReadiness, CancelInv,
         ImportTypes, NeverPublished
    <2>3. CASE Claim(d)
      BY <2>3 DEF Claim, ClaimRefused, CancelInv, ImportTypes, NeverPublished, Terminal
    <2>4. CASE CancelHeeded(d)
      BY <2>4 DEF CancelHeeded, End, CancelInv, ImportTypes, NeverPublished
    <2>5. CASE Prepare(d) \/ Stage(d)
      BY <2>5 DEF Prepare, Stage, Advance, Stopping, CancelInv, ImportTypes
    <2>6. CASE ConfirmForQuestions(d)
      BY <2>6 DEF ConfirmForQuestions, CancelInv, ImportTypes, NeverPublished
    <2> QED BY <1>3, <2>1, <2>2, <2>3, <2>4, <2>5, <2>6 DEF ImportOnly
  <1>4. ASSUME NEW d \in Docs, StepFails(d) \/ StartBuild(d) \/ Build(d) \/ Smoke(d) \/ Refresh(d)
        PROVE  CancelInv'
    BY <1>4 DEF StepFails, StartBuild, Build, Smoke, Refresh, ProjectedReadiness, Outcome, End,
       Advance, Stopping, CancelInv, ImportTypes
  <1>5. ASSUME NEW d \in Docs, BeginPublication(d)
        PROVE  CancelInv'
    BY <1>5 DEF BeginPublication, CompleteSet, CancelInv, ImportTypes, NeverPublished
  <1>6. ASSUME NEW d \in Docs, CommitPublication(d) \/ AbortPublication(d)
        PROVE  CancelInv'
    <2>1. publish[d] # NoRead
      BY <1>6 DEF CommitPublication, AbortPublication, NoRead
    <2> QED BY <1>2, <1>6, <2>1 DEF CommitPublication, AbortPublication, CancelInv, ImportTypes
  <1>7. ASSUME NEW d \in Docs, CancelSet(d)
        PROVE  CancelInv'
    <2>1. NoRead.items # "staged"
      BY DEF NoRead
    <2> QED BY <1>7, <2>1 DEF CancelSet, CancelInv, ImportTypes
  <1>8. ASSUME NEW d \in Docs, PublishDraft(d)
        PROVE  CancelInv'
    BY <1>1, <1>8 DEF PublishDraft
  <1>9. ASSUME NEW d \in Docs, Withdraw(d)
        PROVE  CancelInv'
    BY <1>9 DEF Withdraw, CancelInv, ImportTypes, NeverPublished
  <1>10. CASE Crash
    BY <1>10 DEF Crash, CancelInv, ImportTypes
  <1>11. CASE Startup
    BY <1>11 DEF Startup, Recovered, CancelInv, ImportTypes, NeverPublished
  <1>12. CASE \/ IndexStep \/ PublishLive \/ (\E c \in discards : DiscardCandidate(c))
              \/ UNCHANGED vars
    BY <1>1, <1>12 DEF IndexStep, PublishLive, DiscardCandidate, vars
  <1>13. ASSUME NEW w \in Workbooks,
                ValidateWorkbook(w) \/ \E scope \in SUBSET Topics : UploadWorkbook(w, scope)
         PROVE  CancelInv'
    BY <1>1, <1>13 DEF ValidateWorkbook, UploadWorkbook
  <1> QED BY NextCases, <1>3, <1>4, <1>5, <1>6, <1>7, <1>8, <1>9, <1>10, <1>11, <1>12, <1>13

-----------------------------------------------------------------------------
(* Threads                                                                 *)

LEMMA ThreadStep ==
  ASSUME ImportTypes, ThreadInv, [Next]_vars
  PROVE  ThreadInv'
  <1> USE DEF importVars, stagingVars, processVars
  <1>1. ASSUME UNCHANGED <<up, run, thread, leased, outlived>>
        PROVE  ThreadInv'
    BY <1>1 DEF ThreadInv, RunningHasThread
  <1>2. ASSUME NEW d \in Docs, ImportOnly(d)
        PROVE  ThreadInv'
    <2>1. CASE Upload(d)
      BY <2>1 DEF Upload, ThreadInv, RunningHasThread, ImportTypes
    <2>2. CASE RetryDocument(d) \/ CancelImport(d) \/ Revalidate(d)
      BY <2>2 DEF RetryDocument, CancelImport, Revalidate, ProjectedReadiness, ThreadInv,
         RunningHasThread, ImportTypes
    <2>3. CASE Claim(d)
      BY <2>3 DEF Claim, ClaimRefused, Terminal, ThreadInv, RunningHasThread, ImportTypes
    <2>4. CASE CancelHeeded(d)
      BY <2>4 DEF CancelHeeded, End, ThreadInv, RunningHasThread, ImportTypes
    <2>5. CASE Prepare(d) \/ Stage(d)
      BY <2>5 DEF Prepare, Stage, Advance, ThreadInv, RunningHasThread, ImportTypes
    <2>6. CASE ConfirmForQuestions(d)
      BY <2>6 DEF ConfirmForQuestions, ThreadInv, RunningHasThread, ImportTypes
    <2> QED BY <1>2, <2>1, <2>2, <2>3, <2>4, <2>5, <2>6 DEF ImportOnly
  <1>3. ASSUME NEW d \in Docs, StepFails(d) \/ StartBuild(d) \/ Build(d) \/ Smoke(d) \/ Refresh(d)
        PROVE  ThreadInv'
    BY <1>3 DEF StepFails, StartBuild, Build, Smoke, Refresh, ProjectedReadiness, Outcome, End,
       Advance, ThreadInv, RunningHasThread, ImportTypes
  <1>4. ASSUME NEW d \in Docs, BeginPublication(d) \/ AbortPublication(d)
                               \/ PublishDraft(d) \/ CancelSet(d)
        PROVE  ThreadInv'
    BY <1>1, <1>4 DEF BeginPublication, AbortPublication, PublishDraft, CancelSet
  <1>5. ASSUME NEW d \in Docs, CommitPublication(d) \/ Withdraw(d)
        PROVE  ThreadInv'
    BY <1>5 DEF CommitPublication, Withdraw, ThreadInv, RunningHasThread, ImportTypes
  <1>6. CASE Crash
    BY <1>6 DEF Crash, ThreadInv, RunningHasThread
  <1>7. CASE Startup
    BY <1>7 DEF Startup, ThreadInv, RunningHasThread, ImportTypes
  <1>8. CASE \/ IndexStep \/ PublishLive \/ (\E c \in discards : DiscardCandidate(c))
             \/ UNCHANGED vars
    BY <1>1, <1>8 DEF IndexStep, PublishLive, DiscardCandidate, vars
  <1>9. ASSUME NEW w \in Workbooks,
               ValidateWorkbook(w) \/ \E scope \in SUBSET Topics : UploadWorkbook(w, scope)
        PROVE  ThreadInv'
    BY <1>1, <1>9 DEF ValidateWorkbook, UploadWorkbook
  <1> QED BY NextCases, <1>2, <1>3, <1>4, <1>5, <1>6, <1>7, <1>8, <1>9

-----------------------------------------------------------------------------
(* Coverage of a domain that is ready                                      *)

LEMMA ReadStep ==
  ASSUME ImportTypes, ReadInv, [Next]_vars
  PROVE  ReadInv'
  <1> USE DEF importVars, stagingVars, processVars
  <1>1. ASSUME UNCHANGED publish
        PROVE  ReadInv'
    BY <1>1 DEF ReadInv
  <1>2. ASSUME NEW d \in Docs, publish' = [publish EXCEPT ![d] = NoRead]
        PROVE  ReadInv'
    BY <1>2 DEF ReadInv, Complete, ImportTypes, NoRead
  <1>3. ASSUME NEW d \in Docs, ImportOnly(d)
        PROVE  ReadInv'
    BY <1>1, <1>3 DEF ImportOnly, Upload, RetryDocument, CancelImport, Claim, CancelHeeded,
       Prepare, Stage, Revalidate, ConfirmForQuestions
  <1>4. ASSUME NEW d \in Docs, \/ StepFails(d) \/ StartBuild(d) \/ Build(d) \/ Smoke(d)
                               \/ Refresh(d) \/ PublishDraft(d) \/ Withdraw(d)
        PROVE  ReadInv'
    BY <1>1, <1>4 DEF StepFails, StartBuild, Build, Smoke, Refresh, PublishDraft, Withdraw
  <1>5. ASSUME NEW d \in Docs, BeginPublication(d)
        PROVE  ReadInv'
    <2>1. Complete(Snapshot(d), d)
      BY <1>5 DEF BeginPublication, CompleteSet, Complete, Snapshot, Catalog
    <2> QED BY <1>5, <2>1 DEF BeginPublication, ReadInv, ImportTypes
  <1>6. ASSUME NEW d \in Docs, CommitPublication(d) \/ AbortPublication(d)
        PROVE  ReadInv'
    BY <1>2, <1>6 DEF CommitPublication, AbortPublication
  <1>7. ASSUME NEW d \in Docs, CancelSet(d)
        PROVE  ReadInv'
    <2>1. ASSUME publish' = [publish EXCEPT ![d].items = "deleted"]
          PROVE  ReadInv'
      <3>1. publish'[d].items = "deleted"
        BY <2>1 DEF ImportTypes, Read
      <3> QED BY <2>1, <3>1 DEF ReadInv, Complete, ImportTypes
    <2> QED BY <1>1, <1>7, <2>1 DEF CancelSet
  <1>8. CASE Crash
    BY <1>8 DEF Crash, ReadInv, Complete, NoRead
  <1>9. CASE \/ Startup \/ IndexStep \/ PublishLive \/ (\E c \in discards : DiscardCandidate(c))
             \/ UNCHANGED vars
    BY <1>1, <1>9 DEF Startup, IndexStep, PublishLive, DiscardCandidate, vars
  <1>10. ASSUME NEW w \in Workbooks,
                ValidateWorkbook(w) \/ \E scope \in SUBSET Topics : UploadWorkbook(w, scope)
         PROVE  ReadInv'
    BY <1>1, <1>10 DEF ValidateWorkbook, UploadWorkbook
  <1> QED BY NextCases, <1>3, <1>4, <1>5, <1>6, <1>7, <1>8, <1>9, <1>10

LEMMA CoveredStep ==
  ASSUME StoreTypes, ImportTypes, ReadInv, ReadyIsCovered, [Next]_vars
  PROVE  ReadyIsCovered'
  <1> USE DEF indexVars, catalogVars, storeVars, history
  <1>1. ASSUME UNCHANGED <<adopted, covered>>, raced => raced',
               domain' \in {domain, "preparing"}
        PROVE  ReadyIsCovered'
    BY <1>1 DEF ReadyIsCovered
  <1>2. ASSUME NEW d \in Docs, ImportOnly(d)
        PROVE  ReadyIsCovered'
    BY <1>1, <1>2 DEF ImportOnly, Upload, RetryDocument, CancelImport, Claim, CancelHeeded,
       Prepare, Stage, Revalidate, ConfirmForQuestions
  <1>3. ASSUME NEW d \in Docs,
               \/ StepFails(d) \/ StartBuild(d) \/ Build(d) \/ Smoke(d) \/ Refresh(d)
               \/ BeginPublication(d) \/ AbortPublication(d) \/ PublishDraft(d) \/ CancelSet(d)
        PROVE  ReadyIsCovered'
    BY <1>1, <1>3 DEF StepFails, StartBuild, Build, Smoke, Refresh, BeginPublication,
       AbortPublication, PublishDraft, CancelSet, importVars, stagingVars
  <1>4. ASSUME NEW d \in Docs, CommitPublication(d)
        PROVE  ReadyIsCovered'
    <2>1. CASE set[d].status = "none"
      BY <1>4, <2>1 DEF CommitPublication, ReadyIsCovered
    <2>2. CASE raced'
      BY <2>2 DEF ReadyIsCovered
    <2>3. CASE set[d].status # "none" /\ ~raced'
      <3>1. publish[d] = Snapshot(d) /\ publish[d].items \in {"staged", "updated"}
        BY <1>4, <2>3 DEF CommitPublication
      <3>2. publish[d].set # "none"
        BY <2>3, <3>1 DEF Snapshot
      <3>3. /\ adopted \cup {Base} \subseteq covered \cup draft[d]
            /\ publish[d].items = "staged" => d \in covered \cup draft[d]
        BY <3>1, <3>2 DEF ReadInv, Complete, Snapshot, Catalog
      <3>4. covered' = covered \cup draft[d]
        BY <1>4, <2>3 DEF CommitPublication
      <3>5. adopted' = adopted \cup ({d} \cap {x \in Docs : publish[x].items = "staged"})
        BY <1>4 DEF CommitPublication
      <3> QED BY <3>3, <3>4, <3>5 DEF ReadyIsCovered
    <2> QED BY <2>1, <2>2, <2>3
  <1>5. ASSUME NEW d \in Docs, Withdraw(d)
        PROVE  ReadyIsCovered'
    BY <1>5, NamesAssumption DEF Withdraw, ReadyIsCovered
  <1>6. CASE IndexStep
    <2>1. CASE StartRebuild \/ RebuildStep \/ UpdateItem \/ \E c \in sweeps : Sweep(c, Activating)
      BY <1>1, <2>1 DEF StartRebuild, RebuildStep, RebuildFails, RebuildUnchanged, RebuildBuild,
         RebuildCheck, RebuildCommit, UpdateItem, Sweep, ReadyIsCovered
    <2>2. CASE PublishDomain
      BY <2>2 DEF PublishDomain, Readiness, QuestionBankReady, ReadyIsCovered
    <2> QED BY <1>6, <2>1, <2>2 DEF IndexStep
  <1>7. CASE PublishLive
    BY <1>7 DEF PublishLive, Readiness, QuestionBankReady, ReadyIsCovered
  <1>8. CASE Crash \/ Startup \/ (\E c \in discards : DiscardCandidate(c)) \/ UNCHANGED vars
    BY <1>1, <1>8 DEF Crash, Startup, DiscardCandidate, vars
  <1>9. ASSUME NEW w \in Workbooks,
               ValidateWorkbook(w) \/ \E scope \in SUBSET Topics : UploadWorkbook(w, scope)
        PROVE  ReadyIsCovered'
    BY <1>1, <1>9 DEF ValidateWorkbook, UploadWorkbook
  <1> QED BY NextCases, <1>2, <1>3, <1>4, <1>5, <1>6, <1>7, <1>8, <1>9

-----------------------------------------------------------------------------
(* Collections                                                             *)

\* Cancelling a change set takes no candidate from an activation under way.
LEMMA CancelledReads ==
  ASSUME ImportTypes, NEW d \in Docs, CancelSet(d)
  PROVE  /\ Readers' = Readers
         /\ \A e \in Docs : /\ publish'[e].cand = publish[e].cand
                             /\ publish'[e].manifest = publish[e].manifest
                             /\ publish'[e].catalog = publish[e].catalog
                             /\ publish'[e].set = publish[e].set
  <1>1. NoRead.items = "none"
    BY DEF NoRead
  <1>2. CASE publish' = publish
    BY <1>2 DEF Readers
  <1>3. CASE publish[d].items = "staged" /\ publish' = [publish EXCEPT ![d].items = "deleted"]
    <2>1. publish'[d].items = "deleted" /\ publish[d] # NoRead /\ publish'[d] # NoRead
      BY <1>1, <1>3 DEF ImportTypes, Read
    <2>2. \A e \in Docs \ {d} : publish'[e] = publish[e]
      BY <1>3 DEF ImportTypes
    <2>3. /\ publish'[d].cand = publish[d].cand /\ publish'[d].manifest = publish[d].manifest
          /\ publish'[d].catalog = publish[d].catalog /\ publish'[d].set = publish[d].set
      BY <1>3 DEF ImportTypes, Read
    <2> QED BY <2>1, <2>2, <2>3 DEF Readers
  <1> QED BY <1>2, <1>3 DEF CancelSet

LEMMA IndexStepInv ==
  ASSUME StoreTypes, ImportTypes, IndexInv, [Next]_vars
  PROVE  IndexInv'
  <1> USE DEF indexVars, catalogVars, storeVars, history, importVars, stagingVars, processVars
  <1>0. /\ minted \in Nat /\ manifest \in Manifest
        /\ \A d \in Candidates : cand[d] \in Manifest
        /\ \A m \in Manifest : m # NoCand /\ m.coll \in Nat
        /\ \A s \in Source : NewCandidate(s) \in Manifest /\ NewCandidate(s).coll = minted + 1
    BY SourceTypes, NoCandAssumption DEF StoreTypes, ImportTypes, Candidates, Manifest
  <1>1. ASSUME UNCHANGED <<manifest, minted, cand>>,
               rebuild'.pc \in {"smoke", "checked"} =>
                  rebuild.pc \in {"smoke", "checked"} /\ rebuild'.cand = rebuild.cand,
               \A d \in Docs : job'[d] = "success" => job[d] = "success",
               \A d \in Readers' : d \in Readers /\ publish'[d].cand = publish[d].cand
        PROVE  IndexInv'
    BY <1>1 DEF IndexInv, Candidates
  <1>2. ASSUME UNCHANGED <<manifest, minted, rebuild, job, cand, publish>>
        PROVE  IndexInv'
    BY <1>2 DEF IndexInv, Candidates, Readers
  <1>3. ASSUME NEW d \in Docs, ImportOnly(d) \/ Smoke(d) \/ Refresh(d) \/ PublishDraft(d)
        PROVE  IndexInv'
    BY <1>2, <1>3 DEF ImportOnly, Upload, RetryDocument, CancelImport, Claim, CancelHeeded,
       Prepare, Stage, Revalidate, ConfirmForQuestions, Smoke, Refresh, PublishDraft
  <1>4. ASSUME NEW d \in Docs, StepFails(d) \/ StartBuild(d)
        PROVE  IndexInv'
    BY <1>1, <1>4 DEF StepFails, StartBuild, StoreTypes, Builders, Readers
  <1>5. ASSUME NEW d \in Docs, Build(d)
        PROVE  IndexInv'
    <2>1. PICK c \in Manifest : /\ cand' = [cand EXCEPT ![d] = c]
                                /\ \/ c = manifest /\ minted' = minted
                                   \/ c.coll = minted + 1 /\ minted' = minted + 1
      <3>1. ProjectedSource(d, staged) \in Source
        BY SourceTypes
      <3> QED BY <1>0, <1>5, <3>1 DEF Build
    <2>2. /\ cand'[d] = c /\ \A e \in Docs \ {d} : cand'[e] = cand[e]
          /\ Candidates' = Candidates \cup {d}
      BY <1>0, <2>1 DEF Candidates, ImportTypes
    <2>3. minted <= minted' /\ minted' \in Nat
      BY <1>0, <2>1
    <2>4. manifest'.coll <= minted'
      BY <1>0, <1>5, <2>3 DEF Build, IndexInv
    <2>5. \A e \in Candidates' : cand'[e].coll <= minted'
      <3>1. c.coll <= minted'
        BY <1>0, <2>1, <2>3 DEF IndexInv
      <3>2. \A e \in Candidates : cand[e].coll <= minted'
        BY <1>0, <2>3 DEF IndexInv
      <3> QED BY <2>2, <3>1, <3>2 DEF Candidates
    <2>6. ASSUME rebuild'.pc \in {"smoke", "checked"}
          PROVE  /\ rebuild'.cand # NoCand /\ rebuild'.cand.coll <= minted'
                 /\ rebuild'.cand.coll # manifest'.coll
                 /\ \A e \in Candidates' : cand'[e].coll # rebuild'.cand.coll
                 /\ \A e \in Readers' : publish'[e].cand.coll # rebuild'.cand.coll
      <3>1. /\ rebuild' = rebuild /\ manifest' = manifest
            /\ rebuild.cand # NoCand /\ rebuild.cand.coll <= minted
            /\ rebuild.cand.coll # manifest.coll
            /\ \A e \in Candidates : cand[e].coll # rebuild.cand.coll
            /\ \A e \in Readers' : publish'[e].cand.coll # rebuild.cand.coll
        BY <1>5, <2>6 DEF Build, IndexInv, Readers
      <3>2. rebuild.cand.coll \in Nat
        BY <1>0, <3>1 DEF StoreTypes, RebuildRow
      <3>3. c.coll # rebuild.cand.coll /\ rebuild.cand.coll <= minted'
        BY <1>0, <2>1, <2>3, <3>1, <3>2
      <3> QED BY <2>2, <3>1, <3>3 DEF Candidates
    <2>7. \A e \in Docs : job'[e] = "success" => e \in Candidates'
      BY <1>5, <2>2 DEF Build, IndexInv, StoreTypes, Builders
    <2>8. \A e \in Readers' : publish'[e].cand # NoCand /\ publish'[e].cand.coll <= minted'
      <3>1. ASSUME NEW e \in Readers
            PROVE  publish[e].cand.coll <= minted'
        <4>1. publish[e].cand \in Manifest /\ publish[e].cand.coll <= minted
          BY DEF Readers, IndexInv, ImportTypes, Read
        <4> QED BY <1>0, <2>3, <4>1
      <3> QED BY <1>5, <3>1 DEF Build, IndexInv, Readers
    <2> QED BY <2>4, <2>5, <2>6, <2>7, <2>8 DEF IndexInv
  <1>6. ASSUME NEW d \in Docs, BeginPublication(d)
        PROVE  IndexInv'
    <2>1. d \in Candidates /\ publish' = [publish EXCEPT ![d] = Snapshot(d)]
          /\ UNCHANGED <<manifest, minted, rebuild, job, cand>>
      BY <1>6 DEF BeginPublication, Publishable, IndexInv
    <2>2. publish'[d].cand = cand[d] /\ \A e \in Docs \ {d} : publish'[e] = publish[e]
      BY <2>1 DEF Snapshot, ImportTypes
    <2>3. \A e \in Readers' : e = d \/ (e \in Readers /\ publish'[e] = publish[e])
      BY <2>2 DEF Readers
    <2> QED BY <2>1, <2>2, <2>3 DEF IndexInv, Candidates
  <1>7. ASSUME NEW d \in Docs, AbortPublication(d) \/ CancelSet(d) \/ Withdraw(d)
        PROVE  IndexInv'
    <2>1. CASE AbortPublication(d)
      BY <1>1, <2>1 DEF AbortPublication, ImportTypes, Readers
    <2>2. CASE CancelSet(d)
      BY <1>1, <2>2, CancelledReads DEF CancelSet, Readers
    <2>3. CASE Withdraw(d)
      BY <1>1, <2>3 DEF Withdraw, IdleRebuild, StoreTypes, Builders, Readers
    <2> QED BY <1>7, <2>1, <2>2, <2>3
  <1>8. ASSUME NEW d \in Docs, CommitPublication(d)
        PROVE  IndexInv'
    <2>1. d \in Readers
      BY <1>8 DEF CommitPublication, NoRead, Readers
    <2>2. /\ manifest' = publish[d].cand /\ UNCHANGED <<minted, rebuild, job, cand>>
          /\ publish' = [publish EXCEPT ![d] = NoRead]
      BY <1>8 DEF CommitPublication
    <2>3. \A e \in Readers' : e \in Readers /\ publish'[e] = publish[e]
      BY <2>2 DEF Readers, ImportTypes
    <2> QED BY <2>1, <2>2, <2>3 DEF IndexInv, Candidates
  <1>9. CASE IndexStep
    <2>1. CASE StartRebuild \/ RebuildFails \/ RebuildUnchanged
      BY <1>1, <1>9, <2>1, NamesAssumption
         DEF IndexStep, StartRebuild, RebuildFails, RebuildUnchanged, IdleRebuild, StoreTypes,
             Builders, Readers
    <2>2. CASE RebuildBuild
      <3>1. NewCandidate(LiveSource) \in Manifest /\ NewCandidate(LiveSource).coll = minted + 1
        BY <1>0, SourceTypes
      <3>2. rebuild' = [pc |-> "smoke", cand |-> NewCandidate(LiveSource), seen |-> rebuild.seen]
        BY <2>2 DEF RebuildBuild, StoreTypes, RebuildRow
      <3>3. rebuild'.cand = NewCandidate(LiveSource) /\ rebuild'.cand # NoCand
        BY <1>0, <3>1, <3>2
      <3>4. /\ minted' = minted + 1 /\ manifest' = manifest /\ cand' = cand /\ job' = job
            /\ publish' = publish /\ Candidates' = Candidates /\ Readers' = Readers
        BY <1>9, <2>2 DEF IndexStep, RebuildBuild, Candidates, Readers
      <3>5. /\ manifest.coll <= minted + 1 /\ manifest.coll # minted + 1
            /\ \A d \in Candidates : cand[d].coll <= minted + 1 /\ cand[d].coll # minted + 1
            /\ \A d \in Readers : /\ publish[d].cand.coll <= minted + 1
                                   /\ publish[d].cand.coll # minted + 1
        <4>1. \A d \in Readers : publish[d].cand \in Manifest
          BY DEF IndexInv, Readers, ImportTypes, Read
        <4> QED BY <1>0, <4>1 DEF IndexInv
      <3>6. minted + 1 <= minted + 1
        BY <1>0
      <3> QED BY <3>1, <3>3, <3>4, <3>5, <3>6 DEF IndexInv
    <2>3. CASE RebuildCheck
      BY <1>1, <1>9, <2>3 DEF IndexStep, RebuildCheck, StoreTypes, RebuildRow, Readers
    <2>4. CASE RebuildCommit
      BY <1>9, <2>4, NamesAssumption
         DEF IndexStep, RebuildCommit, IdleRebuild, IndexInv, Candidates, Readers, StoreTypes,
             Builders
    <2>5. CASE PublishDomain \/ UpdateItem \/ \E c \in sweeps : Sweep(c, Activating)
      BY <1>2, <1>9, <2>5 DEF IndexStep, PublishDomain, UpdateItem, Sweep
    <2> QED BY <1>9, <2>1, <2>2, <2>3, <2>4, <2>5 DEF IndexStep, RebuildStep
  <1>10. CASE PublishLive \/ (\E c \in discards : DiscardCandidate(c)) \/ UNCHANGED vars
    BY <1>2, <1>10 DEF PublishLive, DiscardCandidate, vars
  <1>11. CASE Crash \/ Startup
    BY <1>1, <1>11 DEF Crash, Startup, InterruptedJobs, IdleRebuild, Builders, Readers
  <1>12. ASSUME NEW w \in Workbooks,
                ValidateWorkbook(w) \/ \E scope \in SUBSET Topics : UploadWorkbook(w, scope)
         PROVE  IndexInv'
    BY <1>2, <1>12 DEF ValidateWorkbook, UploadWorkbook
  <1> QED BY NextCases, <1>3, <1>4, <1>5, <1>6, <1>7, <1>8, <1>9, <1>10, <1>11, <1>12

LEMMA OvertakenStays ==
  ASSUME overtaken, [Next]_vars
  PROVE  overtaken'
  <1> USE DEF indexVars, history
  <1>1. ASSUME NEW d \in Docs,
               \/ ImportOnly(d) \/ StepFails(d) \/ StartBuild(d) \/ Build(d) \/ Smoke(d)
               \/ Refresh(d) \/ BeginPublication(d)
        PROVE  overtaken'
    BY <1>1 DEF ImportOnly, Upload, RetryDocument, CancelImport, Claim, CancelHeeded, Prepare,
       Stage, Revalidate, ConfirmForQuestions, StepFails, StartBuild, Build, Smoke, Refresh,
       BeginPublication
  <1>2. ASSUME NEW d \in Docs, \/ CommitPublication(d) \/ AbortPublication(d)
                               \/ PublishDraft(d) \/ CancelSet(d) \/ Withdraw(d)
        PROVE  overtaken'
    BY <1>2 DEF CommitPublication, AbortPublication, PublishDraft, CancelSet, Withdraw
  <1>3. CASE IndexStep
    BY <1>3 DEF IndexStep, StartRebuild, RebuildStep, RebuildFails, RebuildUnchanged,
       RebuildBuild, RebuildCheck, RebuildCommit, PublishDomain, UpdateItem, Sweep
  <1>4. ASSUME NEW w \in Workbooks,
               ValidateWorkbook(w) \/ \E scope \in SUBSET Topics : UploadWorkbook(w, scope)
        PROVE  overtaken'
    BY <1>4 DEF ValidateWorkbook, UploadWorkbook
  <1>5. CASE \/ PublishLive \/ (\E c \in discards : DiscardCandidate(c)) \/ Crash \/ Startup
             \/ UNCHANGED vars
    BY <1>5 DEF PublishLive, DiscardCandidate, Crash, Startup, vars
  <1> QED BY NextCases, <1>1, <1>2, <1>3, <1>4, <1>5

LEMMA UsableStep ==
  ASSUME StoreTypes, ImportTypes, IndexInv, UsableInv, [Next]_vars
  PROVE  UsableInv'
  <1> USE DEF indexVars, catalogVars, storeVars, history, importVars, stagingVars, processVars
  <1>0. CASE overtaken
    <2>1. overtaken'
      BY <1>0, OvertakenStays
    <2> QED BY <2>1 DEF UsableInv
  <1>1. CASE ~overtaken
   <2>0. /\ IndexUsable
         /\ rebuild.pc = "checked" => rebuild.cand.coll \in colls
         /\ \A d \in Readers : publish[d].cand.coll \in colls
     BY <1>1 DEF UsableInv
   <2>1. ASSUME UNCHANGED manifest, colls \subseteq colls',
                rebuild'.pc = "checked" => rebuild.pc = "checked" /\ rebuild'.cand = rebuild.cand,
                \A d \in Readers' : d \in Readers /\ publish'[d].cand = publish[d].cand
         PROVE  UsableInv'
     BY <2>0, <2>1 DEF UsableInv, IndexUsable
   <2>2. ASSUME UNCHANGED <<manifest, colls, rebuild, publish>>
         PROVE  UsableInv'
     BY <2>1, <2>2 DEF Readers
   <2>3. ASSUME NEW d \in Docs, \/ ImportOnly(d) \/ Smoke(d) \/ Refresh(d) \/ PublishDraft(d)
                                \/ StepFails(d) \/ StartBuild(d)
         PROVE  UsableInv'
     BY <2>2, <2>3 DEF ImportOnly, Upload, RetryDocument, CancelImport, Claim, CancelHeeded,
        Prepare, Stage, Revalidate, ConfirmForQuestions, Smoke, Refresh, PublishDraft, StepFails,
        StartBuild
   <2>4. ASSUME NEW d \in Docs, Build(d)
         PROVE  UsableInv'
     BY <2>1, <2>4 DEF Build, Readers
   <2>5. ASSUME NEW d \in Docs, BeginPublication(d)
         PROVE  UsableInv'
     <3>1. /\ cand[d].coll \in colls /\ UNCHANGED <<manifest, colls, rebuild>>
           /\ publish' = [publish EXCEPT ![d] = Snapshot(d)]
       BY <2>5 DEF BeginPublication, Publishable, Activatable
     <3>2. publish'[d].cand = cand[d] /\ \A e \in Docs \ {d} : publish'[e] = publish[e]
       BY <3>1 DEF Snapshot, ImportTypes
     <3> QED BY <2>0, <3>1, <3>2 DEF UsableInv, IndexUsable, Readers
   <2>6. ASSUME NEW d \in Docs, AbortPublication(d) \/ CancelSet(d) \/ Withdraw(d)
         PROVE  UsableInv'
     <3>1. CASE AbortPublication(d)
       BY <2>1, <3>1 DEF AbortPublication, ImportTypes, Readers
     <3>2. CASE CancelSet(d)
       BY <2>1, <3>2, CancelledReads DEF CancelSet, Readers
     <3>3. CASE Withdraw(d)
       BY <2>1, <3>3 DEF Withdraw, IdleRebuild, Readers
     <3> QED BY <2>6, <3>1, <3>2, <3>3
   <2>7. ASSUME NEW d \in Docs, CommitPublication(d)
         PROVE  UsableInv'
     <3>1. d \in Readers
       BY <2>7 DEF CommitPublication, NoRead, Readers
     <3>2. /\ manifest' = publish[d].cand /\ UNCHANGED <<colls, rebuild>>
           /\ publish' = [publish EXCEPT ![d] = NoRead]
       BY <2>7 DEF CommitPublication
     <3>3. \A e \in Readers' : e \in Readers /\ publish'[e] = publish[e]
       BY <3>2 DEF Readers, ImportTypes
     <3> QED BY <2>0, <3>1, <3>2, <3>3 DEF UsableInv, IndexUsable
   <2>8. ASSUME NEW c, Sweep(c, Activating), UNCHANGED publish
         PROVE  UsableInv'
     BY <2>0, <2>8 DEF Sweep, Kept, Activating, UsableInv, IndexUsable, Readers
   <2>9. CASE IndexStep
     <3>1. CASE StartRebuild \/ RebuildUnchanged \/ RebuildBuild
       <4>1. rebuild'.pc # "checked"
         <5>1. CASE StartRebuild \/ RebuildUnchanged
           BY <5>1 DEF StartRebuild, RebuildUnchanged, IdleRebuild
         <5>2. CASE RebuildBuild
           <6>1. rebuild' = [pc |-> "smoke", cand |-> NewCandidate(LiveSource), seen |-> rebuild.seen]
             BY <5>2 DEF RebuildBuild, StoreTypes, RebuildRow
           <6> QED BY <6>1
         <5> QED BY <3>1, <5>1, <5>2
       <4>2. colls \subseteq colls' /\ UNCHANGED <<manifest, publish>>
         BY <2>9, <3>1 DEF IndexStep, StartRebuild, RebuildUnchanged, RebuildBuild
       <4> QED BY <2>1, <4>1, <4>2 DEF Readers
     <3>2. CASE RebuildFails
       <4>1. manifest.coll \in colls'
         BY <2>0, <3>2 DEF RebuildFails, Discarded, IndexUsable
       <4>2. \A d \in Readers : publish[d].cand.coll \in colls'
         BY <2>0, <3>2 DEF RebuildFails, Discarded, IndexInv
       <4> QED BY <2>9, <3>2, <4>1, <4>2
           DEF IndexStep, RebuildFails, IdleRebuild, UsableInv, IndexUsable, Readers
     <3>3. CASE RebuildCheck
       BY <2>0, <2>9, <3>3 DEF IndexStep, RebuildCheck, Activatable, UsableInv, IndexUsable,
          StoreTypes, RebuildRow, Readers
     <3>4. CASE RebuildCommit
       BY <2>0, <2>9, <3>4 DEF IndexStep, RebuildCommit, IdleRebuild, UsableInv, IndexUsable,
          Readers
     <3>5. CASE PublishDomain \/ UpdateItem
       BY <2>2, <2>9, <3>5 DEF IndexStep, PublishDomain, UpdateItem
     <3> QED BY <2>8, <2>9, <3>1, <3>2, <3>3, <3>4, <3>5 DEF IndexStep, RebuildStep
   <2>10. ASSUME NEW c \in discards, DiscardCandidate(c)
          PROVE  UsableInv'
     BY <2>0, <2>10 DEF DiscardCandidate, Discarded, Activating, UsableInv, IndexUsable,
        Readers
   <2>11. CASE PublishLive \/ UNCHANGED vars
     BY <2>2, <2>11 DEF PublishLive, vars
   <2>12. CASE Crash \/ Startup
     BY <2>1, <2>12 DEF Crash, Startup, IdleRebuild, Readers
   <2>13. ASSUME NEW w \in Workbooks,
                 ValidateWorkbook(w) \/ \E scope \in SUBSET Topics : UploadWorkbook(w, scope)
          PROVE  UsableInv'
     BY <2>2, <2>13 DEF ValidateWorkbook, UploadWorkbook
   <2> QED BY NextCases, <2>3, <2>4, <2>5, <2>6, <2>7, <2>9, <2>10, <2>11, <2>12, <2>13
  <1> QED BY <1>0, <1>1

-----------------------------------------------------------------------------
(* What a candidate was built from                                         *)

LEMMA HistoryStays ==
  ASSUME [Next]_vars
  PROVE  (raced => raced') /\ (returned => returned')
  <1> USE DEF indexVars, history, processVars, removals
  <1>1. ASSUME NEW d \in Docs,
               \/ ImportOnly(d) \/ StepFails(d) \/ StartBuild(d) \/ Build(d) \/ Smoke(d)
               \/ Refresh(d) \/ BeginPublication(d)
        PROVE  (raced => raced') /\ (returned => returned')
    BY <1>1 DEF ImportOnly, Upload, RetryDocument, CancelImport, Claim, CancelHeeded, Prepare,
       Stage, Revalidate, ConfirmForQuestions, StepFails, StartBuild, Build, Smoke, Refresh,
       BeginPublication
  <1>2. ASSUME NEW d \in Docs, \/ CommitPublication(d) \/ AbortPublication(d)
                               \/ PublishDraft(d) \/ CancelSet(d) \/ Withdraw(d)
        PROVE  (raced => raced') /\ (returned => returned')
    <2>1. ASSUME raced PROVE raced'
      BY <1>2, <2>1 DEF CommitPublication, AbortPublication, PublishDraft, CancelSet, Withdraw
    <2>2. ASSUME returned PROVE returned'
      BY <1>2, <2>2 DEF CommitPublication, AbortPublication, PublishDraft, CancelSet, Withdraw
    <2> QED BY <2>1, <2>2
  <1>3. CASE IndexStep
    <2>1. ASSUME raced PROVE raced'
      BY <1>3, <2>1 DEF IndexStep, StartRebuild, RebuildStep, RebuildFails, RebuildUnchanged,
         RebuildBuild, RebuildCheck, RebuildCommit, PublishDomain, UpdateItem, Sweep
    <2>2. ASSUME returned PROVE returned'
      BY <1>3, <2>2 DEF IndexStep
    <2> QED BY <2>1, <2>2
  <1>4. ASSUME NEW w \in Workbooks,
               ValidateWorkbook(w) \/ \E scope \in SUBSET Topics : UploadWorkbook(w, scope)
        PROVE  (raced => raced') /\ (returned => returned')
    BY <1>4 DEF ValidateWorkbook, UploadWorkbook
  <1>5. CASE \/ PublishLive \/ (\E c \in discards : DiscardCandidate(c)) \/ Crash \/ Startup
             \/ UNCHANGED vars
    BY <1>5 DEF PublishLive, DiscardCandidate, Crash, Startup, vars
  <1> QED BY NextCases, <1>1, <1>2, <1>3, <1>4, <1>5

LEMMA StagedStep ==
  ASSUME StoreTypes, ImportTypes, StagedInv, [Next]_vars
  PROVE  StagedInv'
  <1> USE DEF indexVars, catalogVars, importVars, stagingVars, processVars, removals
  <1>1. ASSUME UNCHANGED cand, deleted \subseteq deleted',
               staged \cup adopted \subseteq staged' \cup adopted',
               \A d \in Docs : thread'[d] \in {"index", "build"} => thread[d] \in {"index", "build"}
        PROVE  StagedInv'
    BY <1>1 DEF StagedInv, Candidates
  <1>2. ASSUME NEW d \in Docs, ImportOnly(d)
        PROVE  StagedInv'
    <2>1. CASE Stage(d)
      BY <2>1 DEF Stage, Advance, ImportTypes, StagedInv, Candidates
    <2>2. CASE ~Stage(d)
      BY <1>1, <1>2, <2>2 DEF ImportOnly, Upload, RetryDocument, CancelImport, Claim,
         CancelHeeded, End, Prepare, Advance, Revalidate, ConfirmForQuestions, ImportTypes
    <2> QED BY <2>1, <2>2
  <1>3. ASSUME NEW d \in Docs, \/ StepFails(d) \/ StartBuild(d) \/ Smoke(d) \/ Refresh(d)
                               \/ BeginPublication(d) \/ AbortPublication(d) \/ PublishDraft(d)
        PROVE  StagedInv'
    BY <1>1, <1>3 DEF StepFails, StartBuild, Smoke, Refresh, ProjectedReadiness, Outcome, End,
       Advance, BeginPublication, AbortPublication, PublishDraft, ImportTypes
  <1>4. ASSUME NEW d \in Docs, Build(d)
        PROVE  StagedInv'
    <2> DEFINE source == ProjectedSource(d, staged)
    <2>1. source.docs = adopted \cup ({d} \cap staged)
      BY DEF ProjectedSource, LiveSource
    <2>2. cand'[d].source = source /\ \A e \in Docs \ {d} : cand'[e] = cand[e]
      BY <1>4 DEF Build, Unchanged, NewCandidate, ImportTypes
    <2>3. /\ thread[d] = "build" /\ thread' = [thread EXCEPT ![d] = "smoke"]
          /\ UNCHANGED <<staged, adopted, deleted>>
      BY <1>4 DEF Build, Advance
    <2> HIDE DEF source
    <2>4. ASSUME d \notin deleted
          PROVE  d \in staged \cup adopted /\ d \in cand'[d].source.docs
      BY <2>1, <2>2, <2>3, <2>4 DEF StagedInv
    <2> QED BY <2>2, <2>3, <2>4 DEF StagedInv, Candidates, ImportTypes
  <1>5. ASSUME NEW d \in Docs, CommitPublication(d)
        PROVE  StagedInv'
    BY <1>1, <1>5 DEF CommitPublication
  <1>6. ASSUME NEW d \in Docs, CancelSet(d) \/ Withdraw(d)
        PROVE  StagedInv'
    BY <1>6 DEF CancelSet, Withdraw, StagedInv, Candidates
  <1>7. CASE \/ IndexStep \/ PublishLive \/ (\E c \in discards : DiscardCandidate(c))
             \/ UNCHANGED vars
    BY <1>1, <1>7 DEF IndexStep, StartRebuild, RebuildStep, RebuildFails, RebuildUnchanged,
       RebuildBuild, RebuildCheck, RebuildCommit, PublishDomain, UpdateItem, Sweep, PublishLive,
       DiscardCandidate, vars
  <1>8. CASE Crash \/ Startup
    BY <1>1, <1>8 DEF Crash, Startup
  <1>9. ASSUME NEW w \in Workbooks,
               ValidateWorkbook(w) \/ \E scope \in SUBSET Topics : UploadWorkbook(w, scope)
        PROVE  StagedInv'
    BY <1>1, <1>9 DEF ValidateWorkbook, UploadWorkbook
  <1> QED BY NextCases, <1>2, <1>3, <1>4, <1>5, <1>6, <1>7, <1>8, <1>9

\* The rows the arithmetic below is about.
LEMMA RowTypes ==
  ASSUME StoreTypes, ImportTypes, IndexInv
  PROVE  /\ manifest \in Manifest /\ edits \in Nat /\ minted \in Nat
         /\ \A d \in Candidates : cand[d] \in Manifest
         /\ Rebuilt => rebuild.cand \in Manifest
         /\ \A d \in Readers : publish[d].manifest \in Nat /\ publish[d].cand \in Manifest
         /\ \A c \in Manifest : /\ c.coll \in Nat /\ c.prev \in Nat /\ c.source \in Source
                                /\ c.source.edits \in Nat
  <1>1. Rebuilt => rebuild.cand \in Manifest
    BY DEF Rebuilt, IndexInv, StoreTypes, RebuildRow
  <1>2. \A d \in Readers : publish[d].manifest \in Nat /\ publish[d].cand \in Manifest
    BY DEF Readers, IndexInv, ImportTypes, Read
  <1>3. \A c \in Manifest : /\ c.coll \in Nat /\ c.prev \in Nat /\ c.source \in Source
                            /\ c.source.edits \in Nat
    BY DEF Manifest, Source
  <1> QED BY <1>1, <1>2, <1>3 DEF StoreTypes, ImportTypes, Candidates

\* Readings that end or go on, as they were.
ReadsOn == \A d \in Readers' :
    /\ d \in Readers
    /\ publish'[d].cand = publish[d].cand /\ publish'[d].manifest = publish[d].manifest
    /\ publish'[d].catalog = publish[d].catalog /\ publish'[d].set = publish[d].set

\* Rebuilds that end or go on, as they were.
RebuildsOn == /\ Rebuilt' => Rebuilt /\ rebuild'.cand = rebuild.cand
              /\ rebuild'.pc = "checked" => rebuild.pc = "checked" /\ rebuild'.seen = rebuild.seen

\* Steps that build and activate nothing: knowledge goes, or is edited.
LEMMA KeepsIndex ==
  ASSUME StoreTypes, ImportTypes, IndexInv, OrderInv, GrowthInv, JudgedInv,
         UNCHANGED <<manifest, cand>>, ReadsOn, RebuildsOn,
         adopted' \subseteq adopted, adopted \cup deleted \subseteq adopted' \cup deleted',
         edits' \in Nat, edits <= edits'
  PROVE  OrderInv' /\ GrowthInv' /\ JudgedInv'
  <1>1. OrderInv'
    <2>1. \A d \in Candidates' : cand'[d].prev < cand'[d].coll /\ cand'[d].prev <= manifest'.coll
      BY DEF OrderInv, Candidates
    <2>2. Rebuilt' => /\ rebuild'.cand.prev < rebuild'.cand.coll
                      /\ rebuild'.cand.prev <= manifest'.coll
      BY DEF OrderInv, RebuildsOn
    <2>3. rebuild'.pc = "checked" => rebuild'.cand.prev = rebuild'.seen
      BY DEF OrderInv, RebuildsOn, Rebuilt
    <2>4. \A d \in Readers' : publish'[d].manifest <= manifest'.coll
      BY DEF OrderInv, ReadsOn
    <2> QED BY <2>1, <2>2, <2>3, <2>4 DEF OrderInv
  <1>2. ASSUME NEW c \in Manifest, NEW new, OnTop(c, new)
        PROVE  OnTop(c, new)'
    BY <1>2, RowTypes DEF OnTop
  <1>3. GrowthInv'
    <2>1. manifest'.source.edits <= edits'
      BY RowTypes DEF GrowthInv
    <2>2. Candidates' = Candidates
      BY DEF Candidates
    <2>3. \A d \in Candidates' : cand'[d].prev = manifest'.coll => OnTop(cand[d], {d})'
      BY <1>2, <2>2, RowTypes DEF GrowthInv
    <2>4. Rebuilt' /\ rebuild'.cand.prev = manifest'.coll => OnTop(rebuild.cand, {})'
      <3>1. ASSUME Rebuilt', rebuild'.cand.prev = manifest'.coll
            PROVE  /\ rebuild.cand \in Manifest /\ rebuild'.cand = rebuild.cand
                   /\ OnTop(rebuild.cand, {})
        BY <3>1, RowTypes DEF RebuildsOn, GrowthInv
      <3>2. ASSUME rebuild'.cand = rebuild.cand, rebuild.cand \in Manifest, OnTop(rebuild.cand, {})
            PROVE  OnTop(rebuild.cand, {})'
        BY <3>2, RowTypes DEF OnTop
      <3> QED BY <3>1, <3>2
    <2> QED BY <2>1, <2>3, <2>4 DEF GrowthInv
  <1>4. JudgedInv'
    BY DEF JudgedInv, ReadsOn, SourceOf
  <1> QED BY <1>1, <1>3, <1>4

\* The activation of an index that was built on the active one.
LEMMA Switches ==
  ASSUME StoreTypes, ImportTypes, IndexInv, OrderInv, GrowthInv, JudgedInv,
         UNCHANGED <<cand, edits>>, ReadsOn, RebuildsOn,
         manifest' \in Manifest, manifest'.prev = manifest.coll, manifest'.prev < manifest'.coll,
         adopted' \subseteq manifest'.source.docs,
         manifest'.source.docs \subseteq adopted' \cup deleted',
         manifest'.source.edits <= edits
  PROVE  OrderInv' /\ GrowthInv' /\ JudgedInv'
  <1>1. /\ manifest.coll \in Nat /\ manifest'.coll \in Nat /\ manifest.coll < manifest'.coll
        /\ \A n \in Nat : n <= manifest.coll => n <= manifest'.coll /\ n # manifest'.coll
    BY RowTypes
  <1>2. /\ \A d \in Candidates' : d \in Candidates /\ cand'[d] = cand[d] /\ cand[d] \in Manifest
        /\ Rebuilt' => Rebuilt /\ rebuild'.cand = rebuild.cand /\ rebuild.cand \in Manifest
    BY RowTypes DEF Candidates, RebuildsOn
  <1>3. OrderInv'
    <2>1. \A d \in Candidates' : cand'[d].prev < cand'[d].coll /\ cand'[d].prev <= manifest'.coll
      BY <1>1, <1>2, RowTypes DEF OrderInv
    <2>2. Rebuilt' => /\ rebuild'.cand.prev < rebuild'.cand.coll
                      /\ rebuild'.cand.prev <= manifest'.coll
      BY <1>1, <1>2, RowTypes DEF OrderInv
    <2>3. rebuild'.pc = "checked" => rebuild'.cand.prev = rebuild'.seen
      BY DEF OrderInv, RebuildsOn, Rebuilt
    <2>4. \A d \in Readers' : publish'[d].manifest <= manifest'.coll
      BY <1>1, RowTypes DEF OrderInv, ReadsOn
    <2> QED BY <2>1, <2>2, <2>3, <2>4 DEF OrderInv
  <1>4. GrowthInv'
    <2>1. \A d \in Candidates' : cand'[d].prev # manifest'.coll
      BY <1>1, <1>2, RowTypes DEF OrderInv
    <2>2. Rebuilt' => rebuild'.cand.prev # manifest'.coll
      BY <1>1, <1>2, RowTypes DEF OrderInv
    <2> QED BY <2>1, <2>2 DEF GrowthInv
  <1>5. JudgedInv'
    <2>1. \A d \in Readers' : publish'[d].manifest # manifest'.coll
      BY <1>1, RowTypes DEF OrderInv, ReadsOn
    <2> QED BY <2>1 DEF JudgedInv
  <1> QED BY <1>3, <1>4, <1>5

\* What an activation that is not overtaken publishes.
LEMMA CommitFacts ==
  ASSUME StoreTypes, ImportTypes, IndexInv, StagedInv, NEW d \in Docs, CommitPublication(d),
         ~raced', ~returned'
  PROVE  /\ d \in Candidates /\ d \in Readers /\ publish[d] = Snapshot(d)
         /\ manifest' = cand[d] /\ adopted' = adopted \cup {d} /\ d \in cand[d].source.docs
         /\ ReadsOn /\ RebuildsOn /\ UNCHANGED <<cand, edits, deleted, rebuild>>
  <1>1. /\ publish[d] = Snapshot(d) /\ publish[d].items \in {"staged", "updated"}
        /\ d \notin deleted /\ manifest' = publish[d].cand
        /\ publish' = [publish EXCEPT ![d] = NoRead]
        /\ UNCHANGED <<cand, edits, deleted, rebuild>>
        /\ adopted' = adopted \cup ({d} \cap {x \in Docs : publish[x].items = "staged"})
    BY DEF CommitPublication
  <1>2. d \in Readers
    BY <1>1 DEF Readers, NoRead
  <1>3. /\ publish[d].cand = cand[d]
        /\ publish[d].items = IF d \in staged THEN "staged" ELSE "updated"
    BY <1>1 DEF Snapshot
  <1>4. d \in Candidates
    BY <1>2, <1>3 DEF IndexInv, Candidates
  <1>5. d \in staged \cup adopted /\ d \in cand[d].source.docs
    BY <1>1, <1>4 DEF StagedInv
  <1>6. adopted' = adopted \cup {d}
    BY <1>1, <1>3, <1>5
  <1>7. ReadsOn
    BY <1>1 DEF ReadsOn, Readers, ImportTypes
  <1>8. RebuildsOn
    BY <1>1 DEF RebuildsOn, Rebuilt
  <1> QED BY <1>1, <1>2, <1>3, <1>4, <1>5, <1>6, <1>7, <1>8

LEMMA CommitServes ==
  ASSUME StoreTypes, ImportTypes, IndexInv, StagedInv, OrderInv, GrowthInv, JudgedInv,
         NEW d \in Docs, CommitPublication(d), Quiet'
  PROVE  OrderInv' /\ GrowthInv' /\ JudgedInv'
  <1>1. ~raced' /\ ~returned'
    BY DEF Quiet
  <1>2. /\ d \in Candidates /\ d \in Readers /\ publish[d] = Snapshot(d)
        /\ manifest' = cand[d] /\ adopted' = adopted \cup {d} /\ d \in cand[d].source.docs
        /\ ReadsOn /\ RebuildsOn /\ UNCHANGED <<cand, edits, deleted, rebuild>>
    BY <1>1, CommitFacts
  <1>3. publish[d].manifest = manifest.coll /\ publish[d].cand = cand[d]
    BY <1>2 DEF Snapshot
  <1>4. \/ cand[d].coll = manifest.coll /\ cand[d].source = manifest.source
        \/ cand[d].prev = manifest.coll
    BY <1>2, <1>3 DEF JudgedInv
  <1>5. cand[d] \in Manifest /\ cand[d].prev < cand[d].coll
    BY <1>2, RowTypes DEF OrderInv
  <1>6. CASE cand[d].prev = manifest.coll
    <2>1. OnTop(cand[d], {d})
      BY <1>2, <1>6 DEF GrowthInv
    <2>2. /\ adopted' \subseteq manifest'.source.docs
          /\ manifest'.source.docs \subseteq adopted' \cup deleted'
          /\ manifest'.source.edits <= edits
      BY <1>2, <2>1 DEF OnTop, GrowthInv
    <2> QED BY <1>2, <1>5, <1>6, <2>2, Switches
  <1>7. CASE cand[d].coll = manifest.coll /\ cand[d].source = manifest.source
    <2>1. d \in adopted
      <3>1. d \notin deleted
        BY <1>1 DEF CommitPublication
      <3> QED BY <1>2, <1>7, <3>1 DEF GrowthInv
    <2>2. adopted' = adopted
      BY <1>2, <2>1
    <2>3. manifest'.coll = manifest.coll /\ manifest'.source = manifest.source
      BY <1>2, <1>7
    <2>4. OrderInv'
      BY <1>2, <1>5, <2>3 DEF OrderInv, Candidates, Rebuilt, ReadsOn
    <2>5. GrowthInv'
      BY <1>2, <2>2, <2>3 DEF GrowthInv, OnTop, Candidates, Rebuilt
    <2>6. JudgedInv'
      BY <1>2, <2>3 DEF JudgedInv, ReadsOn, SourceOf
    <2> QED BY <2>4, <2>5, <2>6
  <1> QED BY <1>4, <1>6, <1>7

LEMMA BuildServes ==
  ASSUME StoreTypes, ImportTypes, IndexInv, OrderInv, GrowthInv, JudgedInv,
         NEW d \in Docs, Build(d)
  PROVE  OrderInv' /\ GrowthInv' /\ JudgedInv'
  <1> USE DEF catalogVars, history, processVars, removals
  <1> DEFINE source == ProjectedSource(d, staged)
  <1>1. /\ source \in Source /\ source.docs = adopted \cup ({d} \cap staged)
        /\ source.edits = edits /\ source.links = adopted \cap Linked
        /\ NewCandidate(source) \in Manifest /\ NewCandidate(source).coll = minted + 1
    BY SourceTypes DEF ProjectedSource, LiveSource
  <1>2. /\ NewCandidate(source).prev = manifest.coll
        /\ NewCandidate(source).source = source
    BY DEF NewCandidate
  <1>3. PICK c \in Manifest : /\ cand' = [cand EXCEPT ![d] = c]
                              /\ c = manifest \/ c = NewCandidate(source)
    BY <1>1 DEF Build, StoreTypes
  <1> HIDE DEF source
  <1>4. UNCHANGED <<manifest, adopted, edits, deleted, rebuild, publish>>
    BY DEF Build
  <1>5. /\ cand'[d] = c /\ \A e \in Docs \ {d} : cand'[e] = cand[e]
        /\ \A e \in Candidates' : e = d \/ e \in Candidates
    BY <1>3 DEF Candidates, ImportTypes
  <1>6. /\ c.prev < c.coll /\ c.prev <= manifest.coll
        /\ c.prev = manifest.coll => OnTop(c, {d})
    <2>1. CASE c = manifest
      BY <2>1, RowTypes DEF OrderInv
    <2>2. CASE c = NewCandidate(source)
      <3>1. c.prev = manifest.coll /\ c.coll = minted + 1 /\ manifest.coll <= minted
        BY <1>1, <1>2, <2>2 DEF IndexInv
      <3>2. c.prev < c.coll /\ c.prev <= manifest.coll
        BY <3>1, RowTypes
      <3>3. OnTop(c, {d})
        BY <1>1, <1>2, <2>2, RowTypes DEF OnTop, GrowthInv
      <3> QED BY <3>2, <3>3
    <2> QED BY <1>3, <2>1, <2>2
  <1>7. OrderInv'
    <2>1. \A e \in Candidates' : cand'[e].prev < cand'[e].coll /\ cand'[e].prev <= manifest'.coll
      BY <1>4, <1>5, <1>6 DEF OrderInv, Candidates
    <2> QED BY <1>4, <2>1 DEF OrderInv, Rebuilt, Readers
  <1>8. GrowthInv'
    <2>1. ASSUME NEW e \in Candidates', cand'[e].prev = manifest'.coll
          PROVE  OnTop(cand'[e], {e})
      BY <1>4, <1>5, <1>6, <2>1 DEF GrowthInv, Candidates
    <2>2. \A e \in Candidates' : cand'[e].prev = manifest'.coll => OnTop(cand[e], {e})'
      BY <1>4, <2>1 DEF OnTop
    <2>3. Rebuilt' /\ rebuild'.cand.prev = manifest'.coll => OnTop(rebuild.cand, {})'
      BY <1>4 DEF GrowthInv, OnTop, Rebuilt
    <2> QED BY <1>4, <2>2, <2>3 DEF GrowthInv
  <1>9. JudgedInv'
    BY <1>4 DEF JudgedInv, SourceOf, Readers
  <1> QED BY <1>7, <1>8, <1>9

LEMMA BeginServes ==
  ASSUME StoreTypes, ImportTypes, IndexInv, UsableInv, OrderInv, GrowthInv, JudgedInv, Quiet,
         NEW d \in Docs, BeginPublication(d)
  PROVE  OrderInv' /\ GrowthInv' /\ JudgedInv'
  <1> USE DEF indexVars, catalogVars, storeVars, importVars
  <1>1. /\ publish' = [publish EXCEPT ![d] = Snapshot(d)]
        /\ UNCHANGED <<manifest, adopted, edits, deleted, rebuild, cand>>
    BY DEF BeginPublication, removals
  <1>2. /\ publish'[d] = Snapshot(d) /\ \A e \in Docs \ {d} : publish'[e] = publish[e]
        /\ \A e \in Readers' : e = d \/ e \in Readers
    BY <1>1 DEF Readers, ImportTypes
  <1>3. /\ Snapshot(d).manifest = manifest.coll /\ Snapshot(d).cand = cand[d]
        /\ Snapshot(d).set = set[d].status /\ Snapshot(d).catalog = Catalog
    BY DEF Snapshot
  <1>4. \/ cand[d].coll = manifest.coll /\ cand[d].source = manifest.source
        \/ cand[d].prev = manifest.coll
    <2>1. IndexUsable /\ Activatable(cand[d])
      BY DEF Quiet, UsableInv, BeginPublication, Publishable
    <2> QED BY <2>1 DEF Activatable
  <1>5. set[d].status # "none" => manifest.source = SourceOf(Catalog)
    BY DEF BeginPublication, CompleteSet, RagReady, LiveSource, SourceOf, Catalog
  <1>6. OrderInv'
    <2>1. \A e \in Readers' : publish'[e].manifest <= manifest'.coll
      BY <1>1, <1>2, <1>3, RowTypes DEF OrderInv, Readers
    <2> QED BY <1>1, <2>1 DEF OrderInv, Rebuilt, Candidates
  <1>7. GrowthInv'
    BY <1>1 DEF GrowthInv, OnTop, Rebuilt, Candidates
  <1>8. JudgedInv'
    <2>1. ASSUME NEW e \in Readers', publish'[e].manifest = manifest'.coll
          PROVE  /\ \/ publish'[e].cand.coll = manifest'.coll /\ publish'[e].cand.source = manifest'.source
                    \/ publish'[e].cand.prev = manifest'.coll
                 /\ publish'[e].set # "none" => manifest'.source = SourceOf(publish'[e].catalog)
      <3>1. CASE e = d
        BY <1>1, <1>2, <1>3, <1>4, <1>5, <3>1
      <3>2. CASE e # d
        BY <1>1, <1>2, <2>1, <3>2 DEF JudgedInv, Readers
      <3> QED BY <3>1, <3>2
    <2> QED BY <2>1 DEF JudgedInv, SourceOf
  <1> QED BY <1>6, <1>7, <1>8

LEMMA RebuildServes ==
  ASSUME StoreTypes, ImportTypes, IndexInv, UsableInv, OrderInv, GrowthInv, JudgedInv, Quiet,
         IndexStep, RebuildBuild \/ RebuildCheck \/ RebuildCommit, Quiet'
  PROVE  OrderInv' /\ GrowthInv' /\ JudgedInv'
  <1> USE DEF indexVars, catalogVars, storeVars, history, importVars, processVars, removals
  <1>0. UNCHANGED <<cand, publish, deleted, adopted, edits>>
    BY DEF IndexStep, RebuildBuild, RebuildCheck, RebuildCommit
  <1>1. CASE RebuildBuild
    <2> DEFINE c == NewCandidate(LiveSource)
    <2>1. /\ c \in Manifest /\ c.coll = minted + 1 /\ c.prev = manifest.coll
          /\ c.source = LiveSource
      BY SourceTypes DEF NewCandidate
    <2>2. rebuild' = [pc |-> "smoke", cand |-> c, seen |-> rebuild.seen] /\ manifest' = manifest
      BY <1>1 DEF RebuildBuild, StoreTypes, RebuildRow
    <2>3. rebuild'.pc = "smoke" /\ rebuild'.cand = c
      BY <2>2
    <2> HIDE DEF c
    <2>4. OnTop(c, {})
      <3>1. /\ c.source.docs = adopted /\ c.source.edits = edits
            /\ c.source.links = adopted \cap Linked
        BY <2>1 DEF LiveSource
      <3> QED BY <3>1, RowTypes DEF OnTop, GrowthInv
    <2>5. c.prev < c.coll /\ c.prev <= manifest.coll
      BY <2>1, RowTypes DEF IndexInv
    <2>6. OrderInv'
      BY <1>0, <2>2, <2>3, <2>5 DEF OrderInv, Candidates, Readers, Rebuilt
    <2>7. OnTop(rebuild.cand, {})'
      BY <1>0, <2>2, <2>3, <2>4 DEF OnTop
    <2>8. GrowthInv'
      BY <1>0, <2>2, <2>7 DEF GrowthInv, OnTop, Candidates
    <2>9. JudgedInv'
      BY <1>0, <2>2 DEF JudgedInv, SourceOf, Readers
    <2> QED BY <2>6, <2>8, <2>9
  <1>2. CASE RebuildCheck
    <2>1. /\ rebuild.pc = "smoke" /\ rebuild' = [rebuild EXCEPT !.pc = "checked", !.seen = manifest.coll]
          /\ manifest' = manifest
      BY <1>2 DEF RebuildCheck
    <2>2. rebuild'.pc = "checked" /\ rebuild'.cand = rebuild.cand /\ rebuild'.seen = manifest.coll
      BY <2>1 DEF StoreTypes, RebuildRow
    <2>3. rebuild.cand.prev = manifest.coll
      <3>1. IndexUsable /\ Activatable(rebuild.cand)
        BY <1>2 DEF Quiet, UsableInv, RebuildCheck
      <3>2. rebuild.cand.coll # manifest.coll
        BY <2>1 DEF IndexInv
      <3> QED BY <3>1, <3>2 DEF Activatable
    <2>4. Rebuilt
      BY <2>1 DEF Rebuilt
    <2>5. OrderInv'
      BY <1>0, <2>1, <2>2, <2>3, <2>4 DEF OrderInv, Candidates, Readers
    <2>6. GrowthInv'
      BY <1>0, <2>1, <2>2, <2>4 DEF GrowthInv, OnTop, Candidates
    <2>7. JudgedInv'
      BY <1>0, <2>1 DEF JudgedInv, SourceOf, Readers
    <2> QED BY <2>5, <2>6, <2>7
  <1>3. CASE RebuildCommit
    <2>1. /\ rebuild.pc = "checked" /\ manifest' = rebuild.cand /\ rebuild' = IdleRebuild
          /\ manifest.coll = rebuild.seen
      BY <1>3 DEF RebuildCommit, Quiet
    <2>2. Rebuilt /\ rebuild.cand \in Manifest /\ rebuild.cand.prev = manifest.coll
          /\ rebuild.cand.prev < rebuild.cand.coll
      BY <2>1, RowTypes DEF Rebuilt, OrderInv
    <2>3. OnTop(rebuild.cand, {})
      BY <2>2 DEF GrowthInv
    <2>4. /\ adopted' \subseteq manifest'.source.docs
          /\ manifest'.source.docs \subseteq adopted' \cup deleted'
          /\ manifest'.source.edits <= edits
      BY <1>0, <2>1, <2>3 DEF OnTop, GrowthInv
    <2>5. ReadsOn /\ RebuildsOn
      BY <1>0, <2>1 DEF ReadsOn, RebuildsOn, Rebuilt, Readers, IdleRebuild
    <2> QED BY <1>0, <2>1, <2>2, <2>4, <2>5, Switches
  <1> QED BY <1>1, <1>2, <1>3

LEMMA ServedStep ==
  ASSUME StoreTypes, ImportTypes, IndexInv, UsableInv, StagedInv, ServedInv, [Next]_vars
  PROVE  ServedInv'
  <1> USE DEF indexVars, catalogVars, storeVars, history, importVars, stagingVars, processVars,
          removals
  <1> SUFFICES ASSUME Quiet'
               PROVE  OrderInv' /\ GrowthInv' /\ JudgedInv'
    BY DEF ServedInv
  <1>0. /\ Quiet /\ OrderInv /\ GrowthInv /\ JudgedInv
        /\ edits \in Nat /\ edits <= edits /\ edits <= edits + 1 /\ edits + 1 \in Nat
    <2>1. Quiet
      BY OvertakenStays, HistoryStays DEF Quiet
    <2> QED BY <2>1, RowTypes DEF ServedInv
  <1>1. ASSUME UNCHANGED <<manifest, cand, adopted, deleted, edits, rebuild, publish>>
        PROVE  OrderInv' /\ GrowthInv' /\ JudgedInv'
    <2>1. ReadsOn /\ RebuildsOn
      BY <1>1 DEF ReadsOn, RebuildsOn, Readers, Rebuilt
    <2> QED BY <1>0, <1>1, <2>1, KeepsIndex
  <1>2. ASSUME NEW d \in Docs, \/ ImportOnly(d) \/ StepFails(d) \/ StartBuild(d) \/ Smoke(d)
                               \/ Refresh(d) \/ PublishDraft(d)
        PROVE  OrderInv' /\ GrowthInv' /\ JudgedInv'
    BY <1>1, <1>2 DEF ImportOnly, Upload, RetryDocument, CancelImport, Claim, CancelHeeded,
       Prepare, Stage, Revalidate, ConfirmForQuestions, StepFails, StartBuild, Smoke, Refresh,
       PublishDraft
  <1>3. ASSUME NEW d \in Docs, Build(d)
        PROVE  OrderInv' /\ GrowthInv' /\ JudgedInv'
    BY <1>0, <1>3, BuildServes
  <1>4. ASSUME NEW d \in Docs, BeginPublication(d)
        PROVE  OrderInv' /\ GrowthInv' /\ JudgedInv'
    BY <1>0, <1>4, BeginServes
  <1>5. ASSUME NEW d \in Docs, CommitPublication(d)
        PROVE  OrderInv' /\ GrowthInv' /\ JudgedInv'
    BY <1>0, <1>5, CommitServes
  <1>6. ASSUME NEW d \in Docs, AbortPublication(d) \/ CancelSet(d) \/ Withdraw(d)
        PROVE  OrderInv' /\ GrowthInv' /\ JudgedInv'
    <2>1. /\ UNCHANGED <<manifest, cand, edits>> /\ adopted' \subseteq adopted
          /\ adopted \cup deleted \subseteq adopted' \cup deleted'
      BY <1>6 DEF AbortPublication, CancelSet, Withdraw
    <2>2. RebuildsOn
      BY <1>6 DEF AbortPublication, CancelSet, Withdraw, RebuildsOn, Rebuilt, IdleRebuild
    <2>3. ReadsOn
      <3>1. CASE AbortPublication(d)
        BY <3>1 DEF AbortPublication, ReadsOn, Readers, ImportTypes
      <3>2. CASE CancelSet(d)
        BY <3>2, CancelledReads DEF ReadsOn, Readers
      <3>3. CASE Withdraw(d)
        BY <3>3 DEF Withdraw, ReadsOn, Readers
      <3> QED BY <1>6, <3>1, <3>2, <3>3
    <2> QED BY <1>0, <2>1, <2>2, <2>3, KeepsIndex
  <1>7. CASE IndexStep
    <2>1. CASE RebuildBuild \/ RebuildCheck \/ RebuildCommit
      BY <1>0, <1>7, <2>1, RebuildServes
    <2>2. CASE StartRebuild \/ RebuildFails \/ RebuildUnchanged
      <3>1. UNCHANGED <<manifest, cand, edits, adopted, deleted, publish>>
        BY <1>7, <2>2 DEF IndexStep, StartRebuild, RebuildFails, RebuildUnchanged
      <3>2. ReadsOn /\ RebuildsOn
        BY <2>2, <3>1 DEF StartRebuild, RebuildFails, RebuildUnchanged, IdleRebuild, ReadsOn,
           RebuildsOn, Readers, Rebuilt
      <3> QED BY <1>0, <3>1, <3>2, KeepsIndex
    <2>3. CASE UpdateItem
      <3>1. /\ UNCHANGED <<manifest, cand, adopted, deleted, publish, rebuild>>
            /\ edits' = edits + 1
        BY <1>7, <2>3 DEF IndexStep, UpdateItem
      <3>2. ReadsOn /\ RebuildsOn
        BY <3>1 DEF ReadsOn, RebuildsOn, Readers, Rebuilt
      <3> QED BY <1>0, <3>1, <3>2, KeepsIndex
    <2>4. CASE PublishDomain \/ \E c \in sweeps : Sweep(c, Activating)
      BY <1>1, <1>7, <2>4 DEF IndexStep, PublishDomain, Sweep
    <2> QED BY <1>7, <2>1, <2>2, <2>3, <2>4 DEF IndexStep, RebuildStep
  <1>8. CASE \/ PublishLive \/ (\E c \in discards : DiscardCandidate(c)) \/ Startup
             \/ UNCHANGED vars
    BY <1>1, <1>8 DEF PublishLive, DiscardCandidate, Startup, vars
  <1>9. CASE Crash
    <2>1. UNCHANGED <<manifest, cand, edits, adopted, deleted>>
      BY <1>9 DEF Crash
    <2>2. ReadsOn /\ RebuildsOn
      BY <1>9 DEF Crash, ReadsOn, RebuildsOn, Readers, Rebuilt, IdleRebuild
    <2> QED BY <1>0, <2>1, <2>2, KeepsIndex
  <1>10. ASSUME NEW w \in Workbooks,
                ValidateWorkbook(w) \/ \E scope \in SUBSET Topics : UploadWorkbook(w, scope)
         PROVE  OrderInv' /\ GrowthInv' /\ JudgedInv'
    BY <1>1, <1>10 DEF ValidateWorkbook, UploadWorkbook
  <1> QED BY NextCases, <1>2, <1>3, <1>4, <1>5, <1>6, <1>7, <1>8, <1>9, <1>10

\* Only three steps make a domain ready.
LEMMA ReadySteps ==
  ASSUME [Next]_vars, domain' = "ready", domain # "ready"
  PROVE  Activation \/ PublishLive \/ (PublishDomain /\ IndexStep)
  <1> USE DEF indexVars, catalogVars
  <1>1. ASSUME NEW d \in Docs,
               \/ ImportOnly(d) \/ StepFails(d) \/ StartBuild(d) \/ Build(d) \/ Smoke(d)
               \/ Refresh(d) \/ BeginPublication(d) \/ AbortPublication(d)
               \/ PublishDraft(d) \/ CancelSet(d) \/ Withdraw(d)
        PROVE  domain' = domain
    BY <1>1 DEF ImportOnly, Upload, RetryDocument, CancelImport, Claim, CancelHeeded, Prepare,
       Stage, Revalidate, ConfirmForQuestions, StepFails, StartBuild, Build, Smoke, Refresh,
       BeginPublication, AbortPublication, PublishDraft, CancelSet, Withdraw
  <1>2. ASSUME NEW d \in Docs, CommitPublication(d)
        PROVE  Activation
    BY <1>2 DEF CommitPublication, Activation
  <1>3. CASE IndexStep
    BY <1>3 DEF IndexStep, StartRebuild, RebuildStep, RebuildFails, RebuildUnchanged,
       RebuildBuild, RebuildCheck, RebuildCommit, UpdateItem, Sweep
  <1>4. ASSUME NEW w \in Workbooks,
               ValidateWorkbook(w) \/ \E scope \in SUBSET Topics : UploadWorkbook(w, scope)
        PROVE  domain' = domain
    BY <1>4 DEF ValidateWorkbook, UploadWorkbook
  <1>5. CASE (\E c \in discards : DiscardCandidate(c)) \/ Crash \/ Startup \/ UNCHANGED vars
    BY <1>5 DEF DiscardCandidate, Crash, Startup, vars
  <1> QED BY NextCases, <1>1, <1>2, <1>3, <1>4, <1>5

\* An activation that is excused by nothing serves all that is published after it.
LEMMA ActivationServes ==
  ASSUME IInv, UsableInv', NEW d \in Docs, CommitPublication(d), set[d].status # "none", Quiet',
         adopted' \cap Linked = adopted \cap Linked
  PROVE  IndexUsable' /\ manifest'.source = LiveSource'
  <1>0. /\ StoreTypes /\ ImportTypes /\ IndexInv /\ StagedInv /\ ~raced' /\ ~returned'
        /\ IndexUsable'
    BY DEF IInv, Quiet, UsableInv
  <1>1. OrderInv /\ GrowthInv /\ JudgedInv
    BY DEF IInv, ServedInv, Quiet, CommitPublication
  <1>2. /\ d \in Candidates /\ d \in Readers /\ publish[d] = Snapshot(d)
        /\ manifest' = cand[d] /\ adopted' = adopted \cup {d} /\ d \in cand[d].source.docs
        /\ UNCHANGED edits
    BY <1>0, CommitFacts
  <1>3. /\ publish[d].manifest = manifest.coll /\ publish[d].cand = cand[d]
        /\ publish[d].set # "none" /\ publish[d].catalog = Catalog
    BY <1>2 DEF Snapshot
  <1>4. /\ \/ cand[d].coll = manifest.coll /\ cand[d].source = manifest.source
           \/ cand[d].prev = manifest.coll
        /\ manifest.source.docs = adopted /\ manifest.source.edits = edits
        /\ manifest.source.links = adopted \cap Linked
    <2>1. /\ \/ publish[d].cand.coll = manifest.coll /\ publish[d].cand.source = manifest.source
             \/ publish[d].cand.prev = manifest.coll
          /\ manifest.source = SourceOf(publish[d].catalog)
      BY <1>1, <1>2, <1>3 DEF JudgedInv
    <2>2. SourceOf(Catalog) = [docs |-> adopted, edits |-> edits, links |-> adopted \cap Linked]
      BY DEF SourceOf, Catalog
    <2>3. manifest.source = [docs |-> adopted, edits |-> edits, links |-> adopted \cap Linked]
      BY <1>3, <2>1, <2>2
    <2> QED BY <1>3, <2>1, <2>3
  <1>5. cand[d].source \in Source /\ edits \in Nat
    BY <1>0, <1>2, RowTypes
  <1>6. /\ cand[d].source.docs = adopted' /\ cand[d].source.edits = edits
        /\ cand[d].source.links = adopted' \cap Linked
    <2>1. CASE cand[d].coll = manifest.coll /\ cand[d].source = manifest.source
      BY <1>2, <1>4, <2>1
    <2>2. CASE cand[d].prev = manifest.coll
      <3>1. OnTop(cand[d], {d})
        BY <1>1, <1>2, <2>2 DEF GrowthInv
      <3>2. cand[d].source.docs = adopted' /\ cand[d].source.links = adopted' \cap Linked
        BY <1>2, <1>4, <3>1 DEF OnTop
      <3>3. cand[d].source.edits = edits
        BY <1>4, <1>5, <3>1 DEF OnTop, Source
      <3> QED BY <3>2, <3>3
    <2> QED BY <1>4, <2>1, <2>2
  <1>7. cand[d].source = LiveSource'
    BY <1>2, <1>5, <1>6 DEF Source, LiveSource
  <1> QED BY <1>0, <1>2, <1>7

-----------------------------------------------------------------------------
(* The invariant, and what follows from it                                 *)

LEMMA InitInv ==
  ASSUME Init
  PROVE  IInv
  <1>1. StoreTypes /\ ImportTypes
    BY InitTypes
  <1> USE DEF Init, IndexInit
  <1>2. CancelInv /\ ThreadInv
    BY DEF CancelInv, ThreadInv, RunningHasThread
  <1>3. ReadInv /\ ReadyIsCovered
    BY DEF ReadInv, Complete, NoRead, ReadyIsCovered
  <1>4. IndexInv
    <2>1. 1 <= 1
      OBVIOUS
    <2> QED BY <2>1 DEF IndexInv, Candidates, Readers, IdleRebuild, Builders
  <1>5. UsableInv
    BY DEF UsableInv, IndexUsable, IdleRebuild, Readers
  <1>6. StagedInv /\ ServedInv
    BY DEF StagedInv, ServedInv, OrderInv, GrowthInv, JudgedInv, Candidates, Readers, Rebuilt,
       IdleRebuild
  <1> QED BY <1>1, <1>2, <1>3, <1>4, <1>5, <1>6 DEF IInv

\* The invariant, of every behaviour of the publication of a domain's knowledge.
THEOREM Invariance == Spec => []IInv
  <1>1. Init => IInv
    BY InitInv
  <1>2. IInv /\ [Next]_vars => IInv'
    BY StoreStep, ImportTypesStep, CancelStep, ThreadStep, ReadStep, CoveredStep, IndexStepInv,
       UsableStep, StagedStep, ServedStep DEF IInv
  <1> QED BY <1>1, <1>2, PTL DEF Spec

\* The manifest of a domain names a collection that exists, whatever cleanups delete,
\* unless one of them ran during or after the next activation (activate_candidate,
\* cleanup_after_activation, discard_change_set_candidates).
THEOREM ActiveIndexStays == Spec => []ActiveIndexExists
  <1>1. IInv => ActiveIndexExists
    BY DEF IInv, UsableInv, ActiveIndexExists
  <1> QED BY Invariance, <1>1, PTL

\* A domain that is ready has formal questions for all it publishes, unless an
\* activation was overtaken between its read and its commit (activate_change_set,
\* publish_import_run, update_knowledge_item).
THEOREM ReadyStaysCovered == Spec => []ReadyIsCovered
  <1>1. IInv => ReadyIsCovered
    BY DEF IInv
  <1> QED BY Invariance, <1>1, PTL

\* A cancellation accepted while checks were ahead of the run keeps it from ever
\* coming to be published, through any number of restarts
\* (_raise_if_cancel_requested, recover_interrupted_imports).
THEOREM CancellationHolds == Spec => []EarlyCancelWins
  <1>1. IInv => EarlyCancelWins
    BY DEF IInv, CancelInv, EarlyCancelWins
  <1> QED BY Invariance, <1>1, PTL

\* A run that is under way has a thread, but for runs that a restart did not take up
\* again (run_import, recover_interrupted_imports).
THEOREM ThreadsStay == Spec => []RunningHasThread
  <1>1. IInv => RunningHasThread
    BY DEF IInv, ThreadInv
  <1> QED BY Invariance, <1>1, PTL

\* A domain that becomes ready, or whose change set is activated, has an index of
\* exactly the knowledge it publishes then: unless the change set brings prerequisite
\* relations, a document that was deleted has been activated again, or an activation or
\* a cleanup was overtaken (activate_change_set, activate_import_candidate).
THEOREM ReadyServes == Spec => ReadyIsServed
  <1>1. ASSUME IInv, UsableInv', [Next]_vars
        PROVE  [domain' = "ready" /\ (domain # "ready" \/ Activation) =>
                  \/ IndexUsable' /\ manifest'.source = LiveSource'
                  \/ /\ Activation
                     /\ \/ adopted' \cap Linked # adopted \cap Linked
                        \/ returned' \/ raced' \/ overtaken']_vars
    <2>1. ASSUME Activation, ~(\/ adopted' \cap Linked # adopted \cap Linked
                               \/ returned' \/ raced' \/ overtaken')
          PROVE  IndexUsable' /\ manifest'.source = LiveSource'
      <3>1. PICK d \in Docs : CommitPublication(d) /\ set[d].status # "none"
        BY <2>1 DEF Activation
      <3>2. Quiet'
        BY <2>1 DEF Quiet
      <3> QED BY <1>1, <2>1, <3>1, <3>2, ActivationServes
    <2>2. ASSUME domain' = "ready", domain # "ready", PublishLive \/ (PublishDomain /\ IndexStep)
          PROVE  IndexUsable' /\ manifest'.source = LiveSource'
      <3>1. RagReady /\ UNCHANGED <<storeVars, adopted, edits>>
        BY <2>2 DEF PublishLive, PublishDomain, Readiness
      <3> QED BY <3>1 DEF RagReady, IndexUsable, LiveSource, storeVars
    <2> QED BY <1>1, <2>1, <2>2, ReadySteps
  <1>2. IInv => UsableInv
    BY DEF IInv
  <1> QED BY Invariance, <1>1, <1>2, PTL DEF Spec, ReadyIsServed
=============================================================================
