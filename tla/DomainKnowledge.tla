---------------------------- MODULE DomainKnowledge ----------------------------
(***************************************************************************)
(* How documents and questions reach the published knowledge of a domain:  *)
(* import runs and their threads (services/knowledge_import_orchestrator), *)
(* the import handlers (api/v1/knowledge_imports.py, knowledge_documents), *)
(* change sets (services/domain_change_set_service.py), question workbooks *)
(* (services/question_import_service.py) and the activation that publishes *)
(* (services/knowledge_import_publish_service.py), over one CandidateIndex.*)
(*                                                                         *)
(* Every document has its own topic and its latest import run.  Lost in a  *)
(* crash: import threads, the rebuild, activations between their read and  *)
(* their commit, and background discards.                                  *)
(***************************************************************************)
EXTENDS CandidateIndex

CONSTANTS
    Live,                     \* question workbooks for the published catalog
    MaxEvents                 \* bound: edits, retries and crashes together

Workbooks == Docs \cup {Live}

VARIABLES
    up,
    events,     \* retries and crashes so far
    run,        \* status of the document's latest import run
    thread,     \* the step its import thread is in
    leased,     \* runs whose lease has not expired
    withdrawn,  \* documents with status withdrawn
    staged,     \* documents with staged items
    approved,   \* documents with approved candidates
    cand,       \* result of the latest successful import build
    passed,     \* documents whose build passed its smoke tests
    set,        \* the document's change set: [status, base]
    draft,      \* topics completed by the staged questions of the change set
    workbook,   \* question import runs: [status, scope, gap, print]
    publish,    \* an activation between its read and its commit: what it read
    discards,   \* collections to discard in the background
    asked,      \* history: when the run's cancellation was accepted, and whether
                \* the document was then deleted before its thread took notice
    outlived,   \* history: runs that a restart did not take up again, because their
                \* lease was still valid or the restart before had interrupted them
    deleted,    \* history: documents that were deleted, with a change set or as a source
    returned    \* history: the items of one of them were activated after that

importVars == <<run, thread, leased, cand, passed, asked>>
stagingVars == <<withdrawn, staged, approved, set, draft, workbook>>
removals == <<deleted, returned>>
processVars == <<up, events, publish, discards, outlived, removals>>
vars == <<indexVars, importVars, stagingVars, processVars>>

\* Variant of Terminal: an interrupted run is not taken up again.
TerminalInterrupted == {"ready", "ready_to_publish", "needs_attention", "failed",
                        "cancel_requested", "cancelled", "interrupted"}

\* TERMINAL_STATUSES
Terminal == {"ready", "ready_to_publish", "needs_attention", "failed",
             "cancel_requested", "cancelled"}

OpenSets == {"preparing", "ready_for_questions", "questions_preparing"}
Cancellable == OpenSets \cup {"ready_to_activate"}
NoSet == [status |-> "none", base |-> [docs |-> {}, edits |-> 0]]
NoBook == [status |-> "none", scope |-> {}, gap |-> {}, print |-> <<>>]
NoRead == [manifest |-> 0, catalog |-> [docs |-> {}, edits |-> 0], covered |-> {},
           set |-> "none", items |-> "none", cand |-> NoCand]

Init ==
    /\ IndexInit
    /\ up = TRUE /\ events = 0
    /\ run = [d \in Docs |-> "none"] /\ thread = [d \in Docs |-> "none"]
    /\ leased = {} /\ withdrawn = {} /\ staged = {} /\ approved = {}
    /\ cand = [d \in Docs |-> NoCand] /\ passed = {}
    /\ set = [d \in Docs |-> NoSet] /\ draft = [d \in Docs |-> {}]
    /\ workbook = [w \in Workbooks |-> NoBook]
    /\ publish = [d \in Docs |-> NoRead]
    /\ discards = {} /\ asked = [d \in Docs |-> "no"] /\ outlived = {}
    /\ deleted = {} /\ returned = FALSE

(***************************************************************************)
(* Documents and import runs.                                              *)
(***************************************************************************)
\* create_document refuses content that the domain already has.
NewDocument(d) == run[d] = "none"

\* create_change_set, on the catalog as it is then.
OpenedSet == [status |-> "preparing", base |-> Catalog]

\* upload_document: a domain that is ready gets a change set.
Upload(d) ==
    /\ up /\ NewDocument(d)
    /\ run' = [run EXCEPT ![d] = "queued"]
    /\ thread' = [thread EXCEPT ![d] = "claim"]
    /\ set' = IF domain = "ready"
              THEN [set EXCEPT ![d] = OpenedSet] ELSE set
    /\ UNCHANGED <<indexVars, leased, cand, passed, asked, withdrawn, staged, approved,
                   draft, workbook, processVars>>

\* retry_failed_document, of a document no thread or publication works on: a new run.
RetryDocument(d) ==
    /\ up /\ edits + events < MaxEvents
    /\ run[d] \in {"failed", "needs_attention"} /\ d \notin withdrawn
    /\ thread[d] = "none" /\ publish[d] = NoRead
    /\ events' = events + 1
    /\ run' = [run EXCEPT ![d] = "queued"]
    /\ thread' = [thread EXCEPT ![d] = "claim"]
    /\ leased' = leased \ {d}
    /\ asked' = [asked EXCEPT ![d] = "no"]
    /\ outlived' = outlived \ {d}
    /\ UNCHANGED <<indexVars, cand, passed, stagingVars, up, publish, discards,
                   removals>>

\* cancel_import.  A request counts as early while a check is still to come
\* and no activation has read the run.
CancelImport(d) ==
    /\ up /\ run[d] \in {"queued", "running", "interrupted", "ready_for_questions"}
    /\ run' = [run EXCEPT ![d] = "cancel_requested"]
    /\ asked' = [asked EXCEPT ![d] =
          IF /\ thread[d] \in {"claim", "prepare", "stage", "index"}
             /\ publish[d] = NoRead
          THEN "early" ELSE "late"]
    /\ UNCHANGED <<indexVars, thread, leased, cand, passed, stagingVars, processVars>>

(***************************************************************************)
(* run_import, from its claim to its last commit.                          *)
(***************************************************************************)
\* A run that is settled, or leased to another worker, is left alone.
ClaimRefused(d) == run[d] \in Terminal \/ d \in leased

Claim(d) ==
    /\ up /\ thread[d] = "claim"
    /\ IF ClaimRefused(d)
       THEN /\ thread' = [thread EXCEPT ![d] = "none"]
            /\ UNCHANGED <<run, leased>>
       ELSE /\ thread' = [thread EXCEPT ![d] = "prepare"]
            /\ run' = [run EXCEPT ![d] = "running"]
            /\ leased' = leased \cup {d}
    /\ UNCHANGED <<indexVars, cand, passed, asked, stagingVars, processVars>>

\* The three ways a run ends early, each in the transaction of the handler.
End(d, status) ==
    /\ run' = [run EXCEPT ![d] = status]
    /\ thread' = [thread EXCEPT ![d] = "none"]
    /\ leased' = leased \ {d}

\* _raise_if_cancel_requested, called at the start of these steps.
Stopping(d) == run[d] = "cancel_requested" /\ thread[d] \in {"prepare", "stage", "index"}

CancelHeeded(d) ==
    /\ up /\ Stopping(d)
    /\ End(d, "cancelled")
    /\ withdrawn' = withdrawn \ {d}
    /\ UNCHANGED <<indexVars, cand, passed, asked, staged, approved, set, draft, workbook,
                   processVars>>

\* A step that fails; ValueErrors need attention.  A build that fails has left no
\* collection, and a smoke test that fails leaves the one it tested.
StepFails(d) ==
    /\ up /\ thread[d] \in {"prepare", "stage", "index", "build", "smoke"} /\ ~Stopping(d)
    /\ \E status \in {"failed", "needs_attention"} : End(d, status)
    /\ job' = IF thread[d] = "build" THEN [job EXCEPT ![d] = "failed"] ELSE job
    /\ withdrawn' = withdrawn \ {d}
    /\ UNCHANGED <<catalogVars, storeVars, rebuild, sweeps, history, cand, passed, asked,
                   staged, approved, set, draft, workbook, processVars>>

\* Each step writes its name to the document, whatever that said before.
Advance(d, from, to) ==
    /\ up /\ thread[d] = from /\ ~Stopping(d)
    /\ thread' = [thread EXCEPT ![d] = to]
    /\ withdrawn' = withdrawn \ {d}

\* replace_candidates: those of an earlier import go, approved or not.
CandidatesReplaced(d) == approved \ {d}

\* parsing to validating: chunks and candidates are replaced.
Prepare(d) ==
    /\ Advance(d, "prepare", "stage")
    /\ approved' = CandidatesReplaced(d)
    /\ UNCHANGED <<indexVars, run, leased, cand, passed, asked, staged, set, draft, workbook,
                   processVars>>

\* approve_candidates, of all that passed their validation.
CandidatesApproved(d) == approved \cup {d}

\* publish_approved writes the approved candidates to staged items.
Stage(d) ==
    /\ Advance(d, "stage", "index")
    /\ staged' = staged \cup {d}
    /\ approved' = CandidatesApproved(d)
    /\ UNCHANGED <<indexVars, run, leased, cand, passed, asked, set, draft, workbook,
                   processVars>>

StartBuild(d) ==
    /\ NoRunningJob
    /\ Advance(d, "index", "build")
    /\ job' = [job EXCEPT ![d] = "running"]
    /\ UNCHANGED <<catalogVars, storeVars, rebuild, sweeps, history, run, leased, cand, passed,
                   asked, staged, approved, set, draft, workbook, processVars>>

\* run_import_build: the collection is built, but not activated.
Build(d) ==
    LET source == ProjectedSource(d, staged) IN
    /\ CanBuild(source)
    /\ Advance(d, "build", "smoke")
    /\ job' = [job EXCEPT ![d] = "success"]
    /\ passed' = passed \ {d}
    /\ IF Unchanged(source)
       THEN /\ cand' = [cand EXCEPT ![d] = manifest]
            /\ UNCHANGED <<colls, minted>>
       ELSE /\ cand' = [cand EXCEPT ![d] = NewCandidate(source)]
            /\ minted' = minted + 1
            /\ colls' = colls \cup {minted + 1}
    /\ UNCHANGED <<catalogVars, manifest, smoked, rebuild, sweeps, history, run, leased, asked,
                   staged, approved, set, draft, workbook, processVars>>

\* smoke_domain_index: the collection answers, for its own domain.
Retrievable(cnd) == cnd.coll \in colls

\* smoke_import_index and smoke_domain_index query the candidate.
Smoke(d) ==
    /\ Advance(d, "smoke", "refresh")
    /\ Retrievable(cand[d])
    /\ UNCHANGED <<indexVars, run, leased, cand, passed, asked, staged, approved, set, draft,
                   workbook, processVars>>

\* _projected_readiness: the graph the domain would have passes its gate or not.
ProjectedReadiness == {"ready_to_publish", "needs_attention"}

\* refresh_import_readiness writes the outcome over whatever the run's status is.
Outcome(d, status) ==
    /\ End(d, status)
    /\ withdrawn' = withdrawn \ {d}
    /\ passed' = passed \cup {d}
    /\ smoked' = smoked \cup {cand[d].source}

Refresh(d) ==
    /\ up /\ thread[d] = "refresh"
    /\ \E status \in ProjectedReadiness : Outcome(d, status)
    /\ UNCHANGED <<catalogVars, manifest, colls, minted, job, rebuild, sweeps, history, cand,
                   asked, staged, approved, set, draft, workbook, processVars>>

\* revalidate_graph asks for a tested build, not for a state of the run.
Revalidate(d) ==
    /\ up /\ job[d] = "success" /\ d \in passed
    /\ \E status \in ProjectedReadiness : run' = [run EXCEPT ![d] = status]
    /\ leased' = leased \ {d}
    /\ withdrawn' = withdrawn \ {d}
    /\ asked' = [asked EXCEPT ![d] = "no"]
    /\ UNCHANGED <<indexVars, thread, cand, passed, staged, approved, set, draft, workbook,
                   processVars>>

(***************************************************************************)
(* Question workbooks.  A topic without complete questions is a gap.       *)
(***************************************************************************)
\* _catalog_items of the domain, or of a change set with its staged items.
CatalogTopics(w) ==
    adopted \cup {Base} \cup (IF w \in Docs THEN {w} \cap staged ELSE {})

\* question_gap_slots
Gaps(w) ==
    CatalogTopics(w) \ (covered \cup (IF w \in Docs THEN draft[w] ELSE {}))

\* knowledge_catalog_fingerprint of the items a workbook is about.
Fingerprint(topics) == <<topics, edits>>

Accepting(w) == w \in Docs => set[w].status \in OpenSets

\* validate_import_run compares the workbook with the whole catalog.
Verdict(w, book) ==
    IF /\ book.print = Fingerprint(CatalogTopics(w))
       /\ book.gap = Gaps(w) \cap book.scope
       /\ book.gap # {}
    THEN "ready_to_publish" ELSE "needs_attention"

\* create_import_run of a filled workbook: the template's fingerprint covers the
\* topics of its scope.
FilledWorkbook(w, scope) ==
    [status |-> "none", scope |-> scope, gap |-> Gaps(w) \cap scope,
     print |-> Fingerprint(CatalogTopics(w) \cap scope)]

\* build_question_template, then create_import_run, which validates at once.
UploadWorkbook(w, scope) ==
    LET book == FilledWorkbook(w, scope) IN
    /\ up /\ Accepting(w) /\ workbook[w].status \in {"none", "published", "needs_attention"}
    /\ scope # {} /\ scope \subseteq CatalogTopics(w) /\ book.gap # {}
    /\ workbook' = [workbook EXCEPT ![w] = [book EXCEPT !.status = Verdict(w, book)]]
    /\ UNCHANGED <<indexVars, importVars, withdrawn, staged, approved, set, draft,
                   processVars>>

\* validate_question_import, in any state of the run.
ValidateWorkbook(w) ==
    /\ up /\ workbook[w].status # "none"
    /\ workbook' = [workbook EXCEPT ![w].status = Verdict(w, workbook[w])]
    /\ UNCHANGED <<indexVars, importVars, withdrawn, staged, approved, set, draft,
                   processVars>>

\* publish_import_run of the live catalog: the domain follows its readiness.
PublishLive ==
    LET topics == covered \cup workbook[Live].gap IN
    /\ up /\ workbook[Live].status = "ready_to_publish"
    /\ workbook[Live].gap \subseteq CatalogTopics(Live)
    /\ covered' = topics
    /\ domain' = IF Readiness(topics) THEN "ready" ELSE "preparing"
    /\ workbook' = [workbook EXCEPT ![Live].status = "published"]
    /\ UNCHANGED <<adopted, edits, storeVars, job, rebuild, sweeps, history, importVars,
                   withdrawn, staged, approved, set, draft, processVars>>

\* publish_import_run of a change set: its questions stay staged.
PublishDraft(d) ==
    LET topics == draft[d] \cup workbook[d].gap IN
    /\ up /\ workbook[d].status = "ready_to_publish"
    /\ workbook[d].gap \subseteq CatalogTopics(d)
    /\ draft' = [draft EXCEPT ![d] = topics]
    /\ set' = [set EXCEPT ![d].status =
          IF CatalogTopics(d) \subseteq covered \cup topics
          THEN "ready_to_activate" ELSE "questions_preparing"]
    /\ workbook' = [workbook EXCEPT ![d].status = "published"]
    /\ UNCHANGED <<indexVars, importVars, withdrawn, staged, approved, processVars>>

(***************************************************************************)
(* Publication.  The handlers read, compare and only then write: what they *)
(* read is a snapshot, which other commits may overtake.                   *)
(***************************************************************************)
\* confirm_publish of a document with a change set.
ConfirmForQuestions(d) ==
    /\ up /\ run[d] = "ready_to_publish" /\ set[d].status # "none"
    /\ run' = [run EXCEPT ![d] = "ready_for_questions"]
    /\ set' = [set EXCEPT ![d].status = "ready_for_questions"]
    /\ withdrawn' = withdrawn \ {d}
    /\ UNCHANGED <<indexVars, thread, leased, cand, passed, asked, staged, approved, draft,
                   workbook, processVars>>

\* activate_import_candidate: what it asks of the import.
Publishable(d) ==
    /\ job[d] = "success" /\ d \in passed
    /\ d \in staged \cup approved
    /\ Activatable(cand[d])

\* Its items are the staged ones, which a cancelled set deletes; its candidate is
\* the one of the job it was given.
Snapshot(d) == [manifest |-> manifest.coll, catalog |-> Catalog,
                covered |-> covered \cup draft[d], set |-> set[d].status,
                items |-> IF d \in staged THEN "staged" ELSE "updated",
                cand |-> cand[d]]

\* activate_change_set: what it asks of the change set.  Its readiness check reads
\* the index in a session of its own, which sees the one to be replaced.
CompleteSet(d) ==
    /\ set[d].status = "ready_to_activate" /\ set[d].base = Catalog
    /\ run[d] \in {"ready_for_questions", "ready_to_publish"}
    /\ Gaps(d) = {}
    /\ adopted \cup {Base} \cup ({d} \cap staged) \subseteq covered \cup draft[d]
    /\ RagReady /\ manifest.source \in smoked

BeginPublication(d) ==
    /\ up /\ publish[d] = NoRead /\ Publishable(d)
    /\ IF set[d].status = "none" THEN run[d] = "ready_to_publish" ELSE CompleteSet(d)
    /\ publish' = [publish EXCEPT ![d] = Snapshot(d)]
    /\ UNCHANGED <<indexVars, importVars, stagingVars, up, events, discards,
                   outlived, removals>>

\* The domain is ready at once with a change set, and has to be made ready otherwise.
CommitPublication(d) ==
    LET items == {d} \cap {x \in Docs : publish[x].items = "staged"} IN
    /\ up /\ publish[d].items \in {"staged", "updated"}
    /\ publish' = [publish EXCEPT ![d] = NoRead]
    /\ raced' = (raced \/ publish[d] # Snapshot(d) \/ run[d] = "running"
                       \/ run[d] = "cancel_requested" \/ d \in withdrawn)
    /\ adopted' = adopted \cup items
    /\ staged' = staged \ items /\ approved' = approved \ {d}
    /\ manifest' = publish[d].cand
    /\ sweeps' = sweeps \cup {publish[d].cand}
    /\ returned' = (returned \/ d \in deleted)
    /\ run' = [run EXCEPT ![d] = "ready"]
    /\ withdrawn' = withdrawn \ {d}
    /\ IF set[d].status = "none"
       THEN domain' = "preparing" /\ UNCHANGED <<covered, set, draft>>
       ELSE /\ domain' = "ready"
            /\ covered' = covered \cup draft[d]
            /\ draft' = [draft EXCEPT ![d] = {}]
            /\ set' = [set EXCEPT ![d].status = "activated"]
    /\ UNCHANGED <<edits, colls, minted, smoked, job, rebuild, overtaken, thread, leased, cand,
                   passed, asked, workbook, up, events, discards, outlived, deleted>>

\* Items that were deleted since they were read fail the update: rolled back.
AbortPublication(d) ==
    /\ up /\ publish[d].items = "deleted"
    /\ publish' = [publish EXCEPT ![d] = NoRead]
    /\ UNCHANGED <<indexVars, importVars, stagingVars, up, events, discards,
                   outlived, removals>>

(***************************************************************************)
(* delete_document: a change set is cancelled, an adopted source withdrawn.*)
(***************************************************************************)
\* cancel_change_set: staged assets are removed, the import run is not touched.
CancelSet(d) ==
    /\ up /\ set[d].status \in Cancellable
    /\ set' = [set EXCEPT ![d].status = "cancelled"]
    /\ workbook' = [workbook EXCEPT ![d] =
          IF @ = NoBook THEN @ ELSE [@ EXCEPT !.status = "cancelled"]]
    /\ staged' = staged \ {d}
    /\ draft' = [draft EXCEPT ![d] = {}]
    /\ withdrawn' = withdrawn \cup {d}
    /\ discards' = IF cand[d] = NoCand THEN discards ELSE discards \cup {cand[d].coll}
    /\ publish' = IF publish[d].items = "staged"
                  THEN [publish EXCEPT ![d].items = "deleted"] ELSE publish
    /\ deleted' = deleted \cup {d}
    /\ UNCHANGED <<indexVars, importVars, approved, up, events, outlived, returned>>

\* An activation is between its read and its commit.
Activating == rebuild.pc = "checked" \/ \E d \in Docs : publish[d] # NoRead

\* discard_change_set_candidates
DiscardCandidate(c) ==
    /\ up /\ c \in discards
    /\ discards' = discards \ {c}
    /\ colls' = Discarded(c)
    /\ overtaken' = (overtaken \/ Activating)
    /\ UNCHANGED <<catalogVars, manifest, minted, smoked, job, rebuild, sweeps, raced,
                   importVars, stagingVars, up, events, publish, outlived, removals>>

Processing(d) == run[d] \in {"queued", "running", "cancel_requested"}

\* A document under way must have its cancellation requested first.  The items lose
\* their source and are retired, and a rebuild starts unless a job is running.
Withdraw(d) ==
    /\ up /\ run[d] # "none" /\ d \notin withdrawn
    /\ set[d].status \in {"none", "activated"}
    /\ Processing(d) => run[d] = "cancel_requested"
    /\ run' = IF Processing(d) THEN [run EXCEPT ![d] = "cancelled"] ELSE run
    /\ leased' = IF Processing(d) THEN leased \ {d} ELSE leased
    /\ asked' = IF asked[d] = "early" /\ thread[d] # "none"
                THEN [asked EXCEPT ![d] = "deleted"] ELSE asked
    /\ withdrawn' = withdrawn \cup {d}
    /\ adopted' = adopted \ {d} /\ staged' = staged \ {d}
    /\ covered' = covered \ {d}
    /\ deleted' = deleted \cup {d}
    /\ IF NoRunningJob /\ rebuild.pc = "idle"
       THEN /\ job' = [job EXCEPT ![Rebuild] = "running"]
            /\ rebuild' = [IdleRebuild EXCEPT !.pc = "build"]
       ELSE UNCHANGED <<job, rebuild>>
    /\ UNCHANGED <<domain, edits, storeVars, sweeps, history, thread, cand, passed,
                   approved, set, draft, workbook, up, events, publish, discards, outlived,
                   returned>>

(***************************************************************************)
(* Crash and restart.                                                      *)
(***************************************************************************)
Crash ==
    /\ up /\ edits + events < MaxEvents
    /\ up' = FALSE
    /\ events' = events + 1
    /\ thread' = [d \in Docs |-> "none"]
    /\ rebuild' = IdleRebuild
    /\ publish' = [d \in Docs |-> NoRead]
    /\ sweeps' = {} /\ discards' = {}
    /\ UNCHANGED <<catalogVars, storeVars, job, history, run, leased, cand, passed, asked,
                   stagingVars, outlived, removals>>

\* Variant of Recovered: a run whose cancellation was requested is started again.
RecoveredAll == {"running", "cancel_requested"}

\* Runs that recover_interrupted_imports starts again.
Recovered == {"running"}

\* mark_interrupted_on_startup and recover_interrupted_imports: running jobs are
\* interrupted, runs whose lease has expired are settled, and started again unless
\* their cancellation was requested.  Runs that are interrupted already are not read.
Startup ==
    /\ ~up /\ up' = TRUE
    /\ job' = InterruptedJobs
    /\ \E expired \in SUBSET leased :
          LET settled == {d \in Docs : /\ run[d] \in {"running", "cancel_requested"}
                                       /\ d \notin leased \ expired}
              resumed == {d \in settled : run[d] \in Recovered} IN
          /\ run' = [d \in Docs |-> IF d \in resumed THEN "interrupted"
                                    ELSE IF d \in settled THEN "cancelled" ELSE run[d]]
          /\ thread' = [d \in Docs |-> IF d \in resumed THEN "claim" ELSE "none"]
          /\ leased' = leased \ expired
          /\ outlived' = outlived \cup (leased \ expired)
                                 \cup {d \in Docs : run[d] = "interrupted"}
          /\ withdrawn' = withdrawn \ settled
    /\ UNCHANGED <<catalogVars, storeVars, rebuild, sweeps, history, cand, passed, asked,
                   staged, approved, set, draft, workbook, events, publish, discards,
                   removals>>

(***************************************************************************)
(* Specification.                                                          *)
(***************************************************************************)
ImportStep(d) ==
    \/ Claim(d) \/ CancelHeeded(d) \/ StepFails(d) \/ Prepare(d) \/ Stage(d)
    \/ StartBuild(d) \/ Build(d) \/ Smoke(d) \/ Refresh(d)

DocumentStep(d) ==
    \/ Upload(d) \/ RetryDocument(d) \/ CancelImport(d) \/ ImportStep(d) \/ Revalidate(d)
    \/ ConfirmForQuestions(d) \/ BeginPublication(d) \/ CommitPublication(d)
    \/ AbortPublication(d) \/ PublishDraft(d) \/ CancelSet(d) \/ Withdraw(d)

IndexStep ==
    /\ up
    /\ \/ StartRebuild \/ RebuildStep \/ PublishDomain
       \/ edits + events < MaxEvents /\ UpdateItem
       \/ \E c \in sweeps : Sweep(c, Activating)
    /\ UNCHANGED <<importVars, stagingVars, processVars>>

Next ==
    \/ \E d \in Docs : DocumentStep(d)
    \/ IndexStep
    \/ \E w \in Workbooks :
          \/ ValidateWorkbook(w)
          \/ \E scope \in SUBSET Topics : UploadWorkbook(w, scope)
    \/ PublishLive
    \/ \E c \in discards : DiscardCandidate(c)
    \/ Crash \/ Startup

Spec == Init /\ [][Next]_vars

\* Bound of the exploration: an activation or a cleanup that was overtaken is the
\* last step of a behaviour.
UntilOvertaken == ~raced /\ ~overtaken

(***************************************************************************)
(* Properties.                                                             *)
(***************************************************************************)
\* The manifest names a collection that exists, although cleanups delete every
\* other collection of the domain, candidates of imports included: unless one of
\* them ran during or after the next activation (activate_candidate, cleanup_after_activation).
ActiveIndexExists == IndexUsable \/ overtaken

\* A domain that is ready has formal questions for every published item, through
\* edits, withdrawals and activations of staged questions: unless an activation was
\* overtaken between its read and its commit (activate_change_set, publish_import_run,
\* update_knowledge_item).
ReadyIsCovered == domain = "ready" => adopted \cup {Base} \subseteq covered \/ raced

NeverPublished == {"cancel_requested", "cancelled", "failed", "needs_attention"}

\* A cancellation that is accepted while the run has checks ahead of it stops the
\* run, also when the process is restarted in between: it may fail first, but it
\* never comes to be published, unless the document is deleted before its thread
\* looks again (_raise_if_cancel_requested, recover_interrupted_imports).
EarlyCancelWins == \A d \in Docs : asked[d] = "early" => run[d] \in NeverPublished

\* A run that is under way has a thread, through crashes, retries and overlapping
\* handlers, unless its lease was still valid when the process was restarted, or the
\* process stopped again before the interrupted run was claimed
\* (run_import, recover_interrupted_imports).
RunningHasThread ==
    up => \A d \in Docs :
             run[d] \in {"running", "interrupted"} => thread[d] # "none" \/ d \in outlived

\* The activation of a change set.
Activation == \E d \in Docs : CommitPublication(d) /\ set[d].status # "none"

\* A domain that becomes ready has an index of exactly the knowledge it publishes.
\* So has a domain that is ready right after the activation of a change set, which
\* is judged by the index it replaces and switches to one that was built before:
\* unless the change set brings prerequisite relations, which the index was built
\* without, a document that was deleted has been activated again, whose items an
\* earlier build may lack, or an activation or a cleanup was overtaken
\* (activate_change_set, activate_import_candidate, build_candidate,
\* candidate_rag_status).
ReadyIsServed ==
    [][domain' = "ready" /\ (domain # "ready" \/ Activation) =>
          \/ IndexUsable' /\ manifest'.source = LiveSource'
          \/ /\ Activation
             /\ \/ adopted' \cap Linked # adopted \cap Linked
                \/ returned' \/ raced' \/ overtaken']_vars
================================================================================
