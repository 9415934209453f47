# Cognivia: specifications of the learning core

Cognivia diagnoses a learner, plans a learning path and generates learning
packages (lecture, practice guide, graded quiz) with language models. Every
package goes through retrieval, generation and a two-model review; packages that
pass become the learner's current package, packages that do not are withheld.
Quizzes, mastery checks and corrections move the learner along the path; tutoring
adjusts it; imports and question workbooks change the knowledge all of this rests
on.

This directory models the parts of the backend that must be right under crashes,
retries, interleavings and stale reads, checks the models with TLC and proves
their main invariants with TLAPS. Paths below are under `src/backend/app/` unless
they start with `docs/` or a file name says otherwise.

## 1. Inventory

| component | state it keeps | operations | what is hard | modules |
| --- | --- | --- | --- | --- |
| learning graph (`agents/graphs.py`, `nodes.py`, `orchestrator_agent.py`, `contract_adapters.py`, `contracts.py`) | the LangGraph state of a task: evidence, artifacts, reports, revision plan | seven nodes, routing, partial revision rounds | the round counter is read back from the last plan; inherited artifacts must fit new evidence and old reports | `LearningGraph` |
| worker and checkpointer (`workers/generation_worker.py`, `agents/checkpointer.py`, `main.py`) | task rows, AgentRun rows, one checkpoint per task; threads in memory | invoke, resume, repeat, conclude, recover at startup | node transaction, checkpoint and task status are three commits; a crash between any two | `TaskLifecycle`, `GenerationTask` |
| task API (`api/v1/generation_tasks.py`) | task rows | create, confirm feedback, retry | reads several rows, then commits; the invocation is only in memory | `GenerationTask`, `PackagePublication` |
| package publication (`services/generation_service.py`, `learning_package_service.py`, `feedback_service.py`, `knowledge_update_service.py`, `api/v1/learning_packages.py`) | package member rows, current flag, knowledge impact | publish, withhold, refresh, feedback, dismiss, mark | several tasks derive from one package and publish in any order | `PackagePublication` |
| retrieval and generation (`rag/retrieval.py`, `agents/generation_agent.py`, `agents/nodes.py`) | the evidence and draft of a task | select, write, patch, merge, converge | a rejected statement must not come back through a patch or merge | `Folding`, `EvidenceSelection`, `ResourceRevision`, `ReviewAgent` |
| review (`agents/review_agent.py`, `review_claim_manifest.py`) | batch cache, snapshot of the last run | batch, ask two models, halve, cache, recheck, arbitrate | partial failures, answers replayed across rounds and restarts | `ReviewVerdicts`, `ReviewAgent` |
| graded quiz (`services/question_bank_service.py`) | question bank, references of a task | preflight, select, certify, replace | bank and index change between preflight, retrieval and review | `GradedQuiz`, `QuizGeneration` |
| diagnostics (`services/diagnostic_service.py`) | session, answer rows, scoring lease; profile, path, mistakes | submit, claim, score, fail, retry | partial scoring, a lease shorter than its job, repeated submissions | `Diagnosis` |
| profile (`services/profile_analysis_service.py`, `profile_knowledge_state_service.py`, `profile_revision_service.py`) | profile rows, cumulative knowledge state | analyse, accumulate, project, revise | the agent and the projection decide separately whether a version is due | `ProfileAnalysis`, `KnowledgeState`, `ProfileRevision` |
| learning path, mastery, mistakes, adjustment (`services/learning_path_service.py`, `node_mastery_service.py`, `resource_quiz_attempt_service.py`, `mistake_review_service.py`, `mistake_evidence_service.py`, `learning_adjustment_service.py`) | path nodes, quiz attempts, mistake items, proposals, assessments | answer, evaluate, advance, adjust, decide | a gate over many rows, read in a snapshot and acted on later | `Ordering`, `LearningPath`, `LearnerProgress` |
| tutoring (`api/v1/tutoring.py`, `services/tutoring_service.py`) | sessions, turns, feedback, proposals, resource tasks | send, stream, pause, propose, report | a stream, its thread and the next message overlap | `TutoringPolicy`, `Tutoring` |
| candidate index (`rag/candidate_index.py`, `database_manifest_store.py`, `services/candidate_index_job.py`) | collections, manifest row, job row | build, smoke-test, activate, clean up, recover | several builders, activation by compare-and-set, late cleanups | `CandidateIndex` |
| knowledge import, change sets, question import (`services/knowledge_import_orchestrator.py`, `knowledge_import_publish_service.py`, `domain_change_set_service.py`, `question_import_service.py`) | import runs, leases, staged items, change sets, workbooks | start, extract, stage, cancel, publish, activate, recover | cancellation, lease and restart race; readiness is recomputed from a moment ago; a published relation moves knowledge points under a learner's path | `DomainKnowledge`, `KnowledgeGraph` |
| sessions, idempotency | Redis sessions, keys | log in, refresh, replay | small request-scoped protocols | not modelled |
| reports, export, evaluation, model configuration, cleanup, frontend | derived | read | none of their own | not modelled |

The components interact through the rows of one MySQL database (REPEATABLE READ)
and a vector store. The API creates a task row and hands `run_generation_task` to a
background thread; the thread runs the graph, whose `finalize_task` node writes
resources and the package. A diagnosis writes the first profile and path; quizzes,
checks and corrections write answers, from which the profile is revised and the
path advanced; a proposal on the path becomes the next task. A publication of
knowledge switches the index, marks the members of current packages and opens an
impact; the learner asks for a refresh of the impact or reports a resource, which
creates the next task with the package as its source.

`PROJECT.json` lists every component with its files, and under `hazards` what is
hard to test, at its line.

## 2. Modules

| module | models | how it reads |
| --- | --- | --- |
| `LearningGraph` | one task's graph | one action per node and per outcome of `finalize_task`; `Raise` and `Resume` for a node that fails and the task that is resumed |
| `TaskLifecycle` | what a learner polls: status, decision, resources | the abstract specification |
| `GenerationTask` | handlers, worker threads, checkpoint, crash, startup | implements `TaskLifecycle` (`ImplementsLifecycle`) |
| `PackagePublication` | tasks, packages and impacts of one learner | one action per handler or final transaction |
| `Folding`, `EvidenceSelection`, `ReviewVerdicts`, `ResourceRevision` | operators: loops over lists, which chunks a retrieval keeps, what claims and verdicts are, how a draft is patched, merged and converged | pure functions, layered under `ReviewAgent` |
| `ReviewAgent` | one lecture or practice guide from retrieval to decision | batches, calls, halving, cache, snapshot, recheck, revision |
| `GradedQuiz`, `QuizGeneration` | selection, certification and replacement of questions; the quiz of a task | operators, and one action per node |
| `Diagnosis` | sessions, claims, scoring jobs | a job is one transaction on the snapshot it read |
| `ProfileAnalysis`, `KnowledgeState`, `ProfileRevision` | the analysis agent, the cumulative state, the revisions | integer arithmetic of the code in units of 1/10000 |
| `Ordering`, `LearningPath`, `LearnerProgress` | what is picked from a list and lists one after another; a path as data; one learner's requests on it | a handler is an operator of the committed tables and of the view it read |
| `TutoringPolicy`, `Tutoring` | the rules that classify a message; turns, streams, pauses | the stream, its thread and the request are separate steps |
| `KnowledgeGraph` | operators: the relation set of a domain, the edges it implies, cycles, and a document's relations from the model's answers through review, rewriting and linking to the publication | pure functions, used by `LearnerProgress` |
| `CandidateIndex`, `DomainKnowledge` | builds, manifest, activation; documents, imports, change sets, workbooks | `DomainKnowledge` extends `CandidateIndex` |
| `MC*` | | values of constants, symmetry |
| `*Proofs` | | section 6 |

**LearningGraph.** `evidence`, `artifacts`, `reports`, `pkgPassed` and `plan` are the
entries of the graph state; a chunk is the source it comes from, an artifact the
round that wrote it and the sources it cites, a report whether it passed and
whether it only has open claims. What a language model returns is any value the
contracts accept. `rounds` is a history variable: the revision rounds really asked
for, against which the counter in `plan` is judged.

**GenerationTask.** A thread's record in `worker` is one invocation of
`run_generation_task`: `load` (runtime, outside the try block), `open`
(`graph.invoke`), `between` and `node` (the wrapper of a node between and within its
two commits), `raised`, `final`. `unsaved` holds checkpoints handed to the saver:
LangGraph's default saver works behind the graph, so a node may be finished, and the
next one running, while the row still holds an earlier state. The seven nodes are
three here (`prepare`, `produce`, `finalize`), with the failures each may raise
grouped by what the worker and the retry handler do with them. A crash clears
threads, queue, recovery list and requests under way; `Startup` runs
`recover_interrupted_generation_tasks` in one transaction, possibly under a newer
contract version.

**PackagePublication.** `member` holds the package rows of a task per type, each with
the task that generated the resource and its freshness; `impact` is the latest
knowledge impact of a package. `status` "active" stands for pending, retry_pending
and running: how an active task gets to its end is the business of
`GenerationTask`, and `Publish`, `Withhold`, `Complete`, `Fail`, `Retry` and
`Succeed` are what that module lets it do, including a publication repeated after a
crash. `published`, `rooted` and `displaced` are history.

**ReviewAgent.** A draft is a function from its fields to texts, a text an abstract
wording that is neutral prose, a quotation of a chunk, or a statement. A review
splits the claims into batches (sets, since the manifest fixes the order of the claims
in each); each batch makes one call per model, from the cache
if the key is there; a failed batch is halved; disputed or unsupported claims are
reviewed once more on refreshed evidence. Token budgets are a batch size.

**QuizGeneration.** A question is a record of what selection and certification ask
of it. `Create(origin)` has the three ways a task is made: a request (bank ready
and preflight), a decided proposal (preflight only), feedback or a refresh
(neither). `base` remembers the bank the references were taken from.

**Diagnosis.** A sheet stands for the answers of a session; claims lock the session
row and see what is committed; a job works on the snapshot of its start and writes
the columns it changed over what is committed by then. `overtaken` remembers the
sessions claimed on an expired lease while a job of theirs still ran.

**ProfileRevision.** Answers are handed one batch at a time to the analysis agent
(`ProfileAnalysis`), accumulated (`KnowledgeState`) and stored as a revision, as
private state of the current profile, or not at all. `diagnosis` (the results the
profile was formed by) and `dropped` (the answers of each analysis of which nothing was
stored) are history. A sum and a ranking of the code is a fold over a ranked set
(`Total`, `Ranked`), so that the proofs can say what it returns.

**LearnerProgress.** The tables are the fields of `db`; `before` is `db` as it was
before the last commit. `RequestMastery`, `AnswerAssessment` and `Generate` read
either of them and write on `db`: the request that started before another commit.
`late` remembers which of them did. The other handlers lock what they read. Beside
the learner an administrator publishes documents (`PublishDocument`: the relations
of `KnowledgeGraph` that survive review, pruning and repair and keep the projected
domain sound) and rewrites the prerequisites of a published knowledge point
(`RewriteItem`, which refuses self references only); both retire the questions of
the items they touch.

**Tutoring.** A message is classified by `TutoringPolicy`. A plain turn is one
request; a streamed one commits the message, starts a daemon thread with its own
snapshot when the response generator starts, and ends when the thread's event
reaches the generator. Client leaving, pause requests, thread errors and a restart
fall anywhere in between. Pausing is modelled after leaving only, as
`ResourcePage.vue:597` aborts the stream before it posts the pause.

**DomainKnowledge.** Every document has its own topic and its latest import run, its
import thread walks through `claim`, `prepare`, `stage`, `index`, `build`, `smoke`,
`refresh`, and checks for cancellation where the code does. An activation is two
steps (`publish` holds what it read): the REPEATABLE READ snapshot is taken before
the domain is locked, and the candidate is the one of the job it was given. `raced`,
`overtaken`, `deleted` and `returned` are history.

## 3. Runs

| run | question | distinct states |
| --- | --- | --- |
| `graph` | do revision rounds keep budget, citations and reports consistent, and end? | 168,603 |
| `task` | does the learner see the abstract lifecycle through crash, upgrade and retry of two tasks? | 2.6 million |
| `task_races` | has one task one invocation, and no open run once settled, with two threads, two retry handlers and two crashes? does what a crash interrupts settle? | 544,529 |
| `task_pending` | is every accepted task started? (no) | |
| `publication` | one whole current package, impacts neither stuck nor forgotten? | 2.4 million |
| `review` | does a resource pass only by two current reviews, and does rejected text go? | 1.4 million |
| `quiz` | is a reviewed quiz from the bank, and does an admitted task get one? | 435,021 |
| `diagnosis` | is a session scored once, kept, retryable as offered, and are its mistakes kept? | 537,350 |
| `profile` | is accepted evidence kept, what counts as known, does the plan fit? | 111,837 |
| `progress` | are gate, path, checks and decisions sound when requests read old views? | 309,677 |
| `tutoring` | are signals counted once, and do replies and reviews settle? | 282,017 |
| `domain` | is a ready domain indexed and covered, and is a cancelled import unpublished? | 1.6 million |

What each property says is written above it in the modules.

**Bounds.**

- `graph`: three sources and room for two make a retrieval leave something out; two
  types let one be inherited while the other is revised; MaxRevisions is the code's 2,
  so that two counted rounds and the convergence round occur.
- `task`: two tasks make the recovery thread's list, the successor of a retry and
  unrelated tasks matter; one second review round, one late checkpoint, one crash,
  upgrade and retry. `task_races` has one task, two background threads, two retry
  handlers and two crashes.
- `publication`: three tasks are a package, a derived one, and a third that competes
  with it or derives from it; two updates are one that opens an impact and one that
  arrives during its refresh; one retry. A learner asks for all types.
- `review`: three chunks and room for two, so that a recheck and a revision evict;
  two fields; batches of one or two claims; one fault and two dissenting voices, which
  are enough for every verdict; one revision round (two in the code) and the
  convergence.
- `quiz`: two targets, questions near the wanted difficulty and far from it, an
  incomplete one and one related to the other target; two revision rounds as in the
  code and one edit of the bank.
- `diagnosis`: two sessions, one choice and two short questions, two jobs, three
  claims, one fault; a score below and one above the threshold.
- `profile`: two knowledge points with questions in a domain of six, a diagnosis of
  four questions and three further answers.
- `progress`: four knowledge points in two units, a quiz and a mastery question each;
  five requests from each of three start tables (a learner just diagnosed and two
  who are further on), one edit: one of three documents, of which one closes a cycle
  and is blocked, or one of two rewrites. One commit may overtake a request. Branches,
  depth, anchors and links per item are the code's.
- `tutoring`: three turns in one session, two at a time, one special message.
- `domain`: one document with its rebuild beside it, three collections, one edit,
  one retry or crash. The constraint `UntilOvertaken` stops a behaviour once an
  activation or a cleanup was overtaken; the properties except those states anyway,
  and hold without it too, in 5.8 million states.

Deadlock is not checked where the modelled part really stops: all tasks settled,
the session scored, or the bounds used up. `LearningGraph` stutters explicitly at its
end.

**Fairness.** `graph`: a node that runs returns or raises, because every external call
has a timeout; nothing makes it succeed, and `Termination` assumes that nodes stop
raising. `task_races`: threads are scheduled, and a stopped process is started again
by its container. `tutoring`: a thread that runs ends, with its model call answered or
timed out, and the response generator is driven by the server until the client
leaves. Users and new tasks are never obliged to do anything.

## 4. What does not hold

**Finding.** *Pending tasks* (`task_pending`, `PendingStarts`).
`INTERRUPTED_TASK_STATUSES` (`generation_worker.py:93`) has no "pending", and the
invocation of a new task is only in memory. After a crash the task is never started
and cannot be retried.

The properties carry exceptions, and each names a disagreement or a weakness of the
code which modelling met. They are told here so that nobody takes the exception for
a bound of the model.

*Tasks and packages*

- `docs/agent-contract-v10.md:30` and `docs/project-conventions.md:194` limit revision
  to two rounds; `orchestrator_agent.py:195` adds a convergence round reported with
  count 2. `RevisionBudget` states what the code keeps.
- Two concurrent retries of one task that both read it before either commits start
  two workers (`raced`); `OneInvocation` and `NoOrphanRun` show that this is the only
  way. `ImplementsLifecycle` is checked and proved with one handler because of it.
- An exception before the try block of `run_generation_task` leaves the task running
  until the next restart (`broken` in `InterruptedSettles`); dropping a checkpoint
  drops its recovery count.
- Feedback on a withheld resource names the failed task as the source package
  (`feedback_service.py:61`), and its failed resources become members of the next
  package, although `generation_service.py:92` asks for a published source.
  `WholePackages` shows that packages built on published ones are sound.
- Inherited stale members have no impact of their own; a feedback task resolves an
  impact another task is refreshing (`generation_service.py:63`); two tasks derived
  from one package undo each other (`learning_packages.py:133`); a successor made by
  a retry derives from the failed task (`generation_tasks.py:551`); a task that failed
  after publishing can publish again and displace a newer package
  (`generation_service.py:118`).

*Review and quiz*

- A rejected misconception cannot be patched: its path `misconceptions[i]` normalises
  to None (`generation_agent.py:1090`). A cited source that is evicted raises
  `revision_candidate_source_missing`. Support by a source another claim declares
  counts for a claim. Refreshed evidence can never make a claim supported on a source
  it does not declare. A half of a split batch discards the finished peer's answer.
- A quiz revision names rejected positions, looked up in a fresh selection whose order
  may differ (`graded_quiz_question_bank_scope_invalid` then fails the task); a second
  revision with an unchanged bank always fails, and so does a whole replacement,
  because references are still the old questions (`generation_agent.py:437`). A
  question rejected in round 1 can return. When a target is missing the review
  rejects position 0, sound or not. Tasks of feedback or refresh are made without a
  preflight, those of a proposal with half of it.

*Diagnosis and profile*

- A job that outlives its lease (nothing renews or checks it) lets a second one run:
  two profiles and paths, "failed" written over "scored" (`overtaken`).
- A skipped answer is stored as "" so that the rebuilt hash differs and the session
  stays "scoring"; a blank short answer fails for ever; a session with choices only
  that crashed is offered as retryable and its retry raises `not_retryable`
  (`RetryHonoured` is about sessions with short answers).
- The synchronisation of mistakes counts the rows of other sessions not yet
  evaluated; two open sessions scored concurrently fork the profile history.
- `persist_profile_revision` refuses a revision whose version the agent did not raise
  (`profile_revision_service.py:31`) although the projection requires one: accepted
  answers are then lost (`dropped` in `AnswersKept`), against the comment at
  `learning_adjustment_service.py:818`. Within the bounds of the run only right answers
  are; a wrong one is too when at least four right ones of the same batch outweigh it.
- Abilities move by the agent's step even when the policy's condition is not met;
  "known" counts answers, not questions, and not whether they are right: two wrong
  answers of the diagnosis and twelve right corrections make a point known without any
  formal right answer (TLC finds it with larger bounds), against `README.md:18` and the
  comment at `profile_knowledge_state_service.py:96` (corrections never establish it on
  their own). `KnownByFormalAnswers` says what is left for every history: two formal
  answers, and two right ones of any kind.

*Path and adjustment*

- An assessment answered on an old view writes the path and the profile back as they
  were read (`late`): forked profiles, lost evidence, a completion undone. Two
  concurrent mastery requests make two proposals, two "generate" decisions two tasks.
- `mistake_evidence_service.py:130` judges the gate before the correction is flushed
  (`core/db.py:10`, autoflush off): with fewer than two candidates the item just
  consolidated still blocks.
- The order of a re-prioritisation is lost at the next normalisation; units cap at six
  and beyond 42 remaining points the surplus is dropped; the closure's order comes
  from a Python set; the older threshold branch completes a node that has open
  mistakes on answers the client chose, against `docs/current-iteration-plan.md:27`.
- An administrator's update of a relation (`replace_item_relations`) refuses a self
  reference only and can close a prerequisite cycle in a domain that is ready, although
  the path service assumes that readiness rejected cycles; a learner may then be put
  on a unit whose prerequisite is not completed (the exception of
  `CurrentFollowsPrerequisites`; without it TLC finds the behaviour). The fingerprint of
  the catalog leaves relations out, so a projection may be judged on older ones.
- A consolidated mistake answered wrong again stays consolidated; after a disabled
  question a replay turns it into retired; a node completed by a quiz that comes last
  and has no mistakes is advanced by nobody until `complete_path_node`.

*Tutoring*

- Only the response generator hands a reported error to the background tasks: a client
  that leaves early loses the review (`ReviewStarts` excepts it). Leaving before the
  generator starts, an error of the thread after leaving, and a restart leave the
  reply "streaming" for ever (`RepliesSettle` excepts them).
- A pause writes back stale metadata and the thread overwrites "paused"; turns that
  overlap count `turn_count` once and may both propose (`late`); an automatic proposal
  with an exhausted bank stays "collecting" and blocks its node.

*Knowledge*

- `_raise_if_cancel_requested` looks for "cancel_requested" only; deleting the
  document sets "cancelled" (`knowledge_document_service.py:180`), and the thread
  restages its items and ends ready to publish (`EarlyCancelWins` excepts it).
- A document imported again links its items to their own published versions: a
  `depends_on` of that kind is an edge from an item to itself and blocks the publication,
  and one that repeats a link is a duplicate that blocks it as well.
- Activations read before they lock, and a rebuild does not lock the domain: both may
  pass the compare-and-set (`raced`). A late cleanup can delete a newer active
  collection (`overtaken`); a missing one fails every incremental rebuild until
  the command line resets it.
- The activation is judged by the readiness of the index it replaces and publishes
  relations the new index lacks, so the index can be stale right after it.
- The same gap lets a document be activated over an index without it: it is deleted
  while its import is building, so that the build finds no staged items, and imported
  again; the new thread has staged them when the graph is revalidated, which asks for
  the latest build of the document whichever import made it (`knowledge_imports.py:495`);
  the change set is confirmed, completed and activated with that build (`returned`).
- Templates for a scope are always refused as changed (`question_import_service.py:314`
  against `569`); `cancel_change_set` leaves the run alone; queued runs are never
  recovered; runs with a valid lease stay "running"; and a run interrupted by one
  restart whose new thread had not claimed it before the next stays "interrupted" for ever
  (`knowledge_import_orchestrator.py:776` selects running and cancel_requested only;
  found by the proof of `RunningHasThread`, exception `outlived`).

## 5. Abstractions

`LearnerProgress`: which of several selectable questions is asked is left open, every
package has a quiz, only the newest path row is kept, and a profile that was "kept"
saves its evidence (what happens otherwise is in `ProfileRevision`). `Diagnosis`: the
questions are one set, the decision to update the profile is open (it is made in
`ProfileRevision`), readiness exits are merged with those of inactive questions.
`ReviewAgent`: one resource, its difficulty matches, token budgets are a batch size,
words in common between claim and source are assumed. `Tutoring`: signals are the
learner's, delivery hands a task to the background at once. `DomainKnowledge`: a
document has one topic, the extraction and the checks of single items are an
outcome, a retry while the run is queued, or of a document that is published (an import
of updates only), is left out.
`KnowledgeGraph`: documents are small, no category is split or merged, and of the
quality shares of a projected catalog only those about relations are kept;
`LearnerProgress` tracks the prerequisite pairs of the result.
`PackagePublication`: `is_current` of single resources and metrics are left out.

**Not modelled.** Prompts, schemas and their validation, scores of embeddings; the
update a feedback task writes to the profile in the graph
(`_persist_profile_update`, a third writer); quick feedback and the older answer path
without a proposal; sessions and idempotency keys (small, scoped to a request);
reports, export and evaluation (read only); model configuration; the cleanup command
(runs while the service is stopped); the frontend.

## 6. Proofs

Eight modules hold proofs checked by TLAPS, each for every value of the constants the
named assumptions allow: any number of tasks, sources, sessions, messages,
documents, retries and restarts. Assumptions on constants stand in the module that
declares them and are evaluated by the runs.

| module | theorem | states |
| --- | --- | --- |
| `LearningGraphProofs` | `TypeCorrect`, `BudgetKept` | types; at most MaxRevisions counted rounds and one convergence round |
| | `ReviewIsCurrent`, `CitationsKept`, `GivesUpLast` | `DecidedOnCurrentArtifacts`, `CitationsRetained`, `GivesUpOnlyWhenExhausted` |
| `GenerationTaskProofs` | `TypeCorrectness` | types |
| | `RecoveryBudgetHolds`, `CheckpointBehindRowsHolds`, `OneInvocationHolds`, `NoOrphanRunHolds` | the invariants of that name |
| | `LifecycleRefinement` | `Spec => Lifecycle!Spec` when retries come from one handler |
| `PackageProofs` | `CurrentPackage`, `PackagesStayWhole`, `RefreshIsWorkedOn`, `ChangesStayOffered` | `OneCurrentPackage`, `WholePackages`, `RefreshHasWorker`, `ChangesOffered` |
| | `ReviewedQuizIsFromBank`, `AdmittedTaskGetsQuiz` | `QuizFromBank`, `PreflightHolds` (of `QuizGeneration`) |
| `DiagnosisProofs` | `OneProfile`, `RetriesHonoured`, `MistakesKept` | `ScoredOnce`, `RetryHonoured`, `NoLostMistake` |
| | `ScoresStay` | the action property `ScoresKept` |
| `DomainKnowledgeProofs` | `ActiveIndexStays`, `ReadyStaysCovered`, `CancellationHolds`, `ThreadsStay` | `ActiveIndexExists`, `ReadyIsCovered`, `EarlyCancelWins`, `RunningHasThread` |
| | `ReadyServes` | the action property `ReadyIsServed` |
| `LearnerProgressProofs` | `ChecksAreUnseen`, `DecisionsHaveOneTask` | `UnseenChecks`, `OneTaskPerDecision` |
| | `PathFollows`, `AnswersCountedOnce` | `CurrentFollowsPrerequisites`, `CountedOnce` |
| | `CompletionStays`, `GateIsHeld` | the action properties `CompletedStays`, `GateHeldAtCommit` |
| `EvidenceProofs` | `SignalsCount` | `SignalsCountedOnce` (of `Tutoring`) |
| | `ProfileAgrees` | the invariant `ProfileInv` of `ProfileRevision` |
| | `NothingForgotten`, `MasteryIsFormal`, `PlansSuffice` | `AnswersKept`, `KnownByFormalAnswers`, `PlanHasRoom` |
| `ReviewAgentProofs` | `VerdictsStayCurrent`, `PassByConsensus`, `RejectedStaysGone` | `VerdictsCurrent`, `PassIsConsensus`, `RejectedGone` |

None of the properties is inductive as it stands. The invariants that are:

- *LearningGraph.* What a node knows depends on where the graph is: reports lag behind
  artifacts between generation and review only, and for the types of the plan only;
  the evidence kept always holds what inherited artifacts cite.
- *GenerationTask.* A checkpoint, saved or handed to the saver, is at most as far as
  the rows; its counter equals the recoveries (`RecoveryInv`); a thread, a queued
  invocation, the recovery list and a request each account for a task exactly once
  (`InvocationInv`), unless two retries raced; an open run belongs to an
  accounted invocation (`RunInv`); nothing survives a stop (`DownInv`). The refinement
  maps each handler and thread step to a lifecycle step or a stutter.
- *PackagePublication.* A task derives from earlier tasks only (`OrderInv`); a row is
  the task's own or its source's (`RowsInv`) and untouched by updates before it
  published (`OwnRows`); the history variables mean what they say (`RootedInv`,
  `DisplacedInv`); a refresh whose task published is no longer waited for.
- *Diagnosis.* A session not overtaken has one job at most, which sees the session's
  rows as they are; nothing else writes them. What a session keeps is then a statement
  about it alone (`SessionInv`), and a step of another session is no step of it.
  Synchronisation adds mistakes and never drops an unresolved one.
- *DomainKnowledge.* An early cancellation is ahead of every check that counts
  (`CancelInv`); a thread about to claim is not refused (`ThreadInv`); what an
  activation has read is complete (`ReadInv`); nobody else names the collection of a
  rebuild (`IndexInv`), and what may become active exists (`UsableInv`). For
  `ReadyIsServed`: a document that was never deleted keeps what was built and staged of
  it (`StagedInv`); the active collection is only replaced by younger ones, built on it
  (`OrderInv`), so that "the manifest is the one the candidate was built on" means that
  nothing was activated in between; until then the published knowledge can only shrink,
  hence a candidate on top of the active index has all of it, and beyond what the active
  index serves only its own document (`GrowthInv`); and what an activation was judged by
  is still the catalog it read, as long as the manifest is (`JudgedInv`). Judged by
  an index that serves the catalog exactly, the candidate then serves exactly the
  catalog with the document. The three hold until an activation is overtaken or a
  deleted document comes back (`Quiet`), and those are the exceptions of the property.
  `NamesAssumption` and `NoCandAssumption` say that the builders and the value for
  "no candidate" are different from the documents and manifests.
- *ReviewAgent.* A stored answer has the wordings and the packet of its key
  (`GoodStore`); a claim under review is in a segment still to be asked or answered by
  all models, through halving and joining (`Holds`, `SettledIsGood`); what was answered
  is about the draft and evidence of the review (`GoodReview`); a draft under review
  cites nothing the task has lost (`CitesInv`). Folds are functions of the step
  (`Folded`), so that one lemma (`FoldedStays`) shows for all of them that a retrieval,
  a merge and a refresh return at most as many chunks as they may and keep what they
  must; the evidence of a recheck contains that of the first pair (`RefreshedKeeps`).
- *QuizGeneration.* The references are from the bank of their retrieval, and node
  `review` is reached on the blueprint only (`FromBase`). A preflight, a retrieval and a
  generation rank with different focuses; `SelectedIs` shows that a selection reaches
  three questions exactly when three touch a target, whatever it ranks by, so what the
  preflight found survives both (`Promised`). It rests on the ranking being a total
  order (`RanksAreOrdered`), by which the best question exists (`Greatest`, `BestIn`):
  ids are different (`QuestionsAssumption`).
- *LearnerProgress.* A request changes several of the eleven tables, most of them a few
  rows, and the evaluation of a quiz runs over its records one after another. The proof
  therefore says once what an evaluation may do (`Keeps`: mark records, add decisions
  that ask nothing) and what a request may do (`Holds`), and shows each operator and
  each request against these. The invariant (`IInv`) ties rows to rows: quizzes, mistakes
  and corrections ask from the quiz bank, checks from the check bank, the record of a
  check is the one answer to what the check asked and the check is then closed
  (`CheckRows`), a decision names its only task that has not failed (`TasksNamed`). An
  answer on an old view needs no exception, because no request changes the question of
  a decision (`KeepsQuestions`); a check requested, or a resource accepted, on an old
  view does, and the two properties have it. The tables to start from need only be
  consistent (`LaterAssumption`).

  The path and the profiles have an invariant of their own (`PathInv`), whose argument
  has four layers. (1) Lists: what is picked from a list keeps its order (`PickedIs`),
  lists joined hold what they held (`JoinedIs`), both by induction on a set of naturals
  (`Iterated`). (2) Graphs: in a catalog without cycles every set of knowledge points has
  one that nothing of the set precedes (`StillAcyclic`), so the stable order leaves
  nothing over and puts everything after what it requires (`StableIs`), the closure of a
  knowledge point holds what its members require (`NeededIs`), and slices of such an
  order open with a unit whose requirements are done (`NormalizeIs`). (3) Operations:
  `AdvanceIs`, `ReprioritizeIs`, `NewPathIs` and `RehomeIs` say of each what it keeps;
  `AnalyzeCounts` that an analysis counts on from a profile with the records that
  left its window (`SpacedMore`). (4) Requests: one that leaves path and profiles alone is
  `Aside`; the evaluation of evidence `Moves` them, and completes only what is `Cleared`
  by the gate it read; `Lawful` adds that the committed tables still bear that out, in
  spite of what the request wrote after judging. An assessment on an old view is not
  lawful: it writes its path back, but `Fit` survives even that, so that the order of
  the path and the window of the counts need no exception for it, while completion, the
  gate and the single history do (`Sole`). The gate is judged for the row the path had
  before the request, which is why packages are for no row yet to come (`RowsBehind`).
  `CatalogAssumption` says that the relations at the start have no cycle but those an
  administrator may add, which is what the readiness check of a domain ensures, and
  that documents and recommendations are finite; `Grounded` asks of the tables to start
  from what the invariant says of a learner.
- *Tutoring.* Feedback, once committed, stays and keeps its intent; a turn's view is
  behind the table and the turn has left no feedback yet; a row a proposal rests on is
  never eligible again. The two latest eligible rows of one direction are found by a
  maximum, whose existence is proved with well-founded induction.
- *ProfileRevision.* The state kept of a point agrees with the answers it names
  (`IsState`): it counts as many core answers as there are formal ids, it is no
  heavier than its right ids allow (13000 units each), and an id is of that point and of
  an answer given; so a known point, which weighs at least what two answers do, has two
  (`KnownNeedsTwo`). The weak points of a profile come from that state
  (`WeakProjectionIs`). An analysis is dropped only when the agent left the weak points
  as they were; a wrong answer weighs at least 6300 and a right one at most 11700, so
  that four right ones were with it (`DropNeedsFour`). `TotalIs`, `TotalGap` and
  `TotalAtMost` say what a sum over a set is and how two sums differ, by induction on
  finite sets; `RankedIs` that a ranking lists each element once; `PlanRoom` bounds the
  budget of a plan whatever is ranked.

Proof attempts changed the models: the run that stays interrupted, and the
choice-only session whose retry is refused (section 4), are what the leaves that
could not be proved stood for; TLC confirmed both and the properties name them now.
`AnswersKept` excepted right answers only and `KnownByFormalAnswers` asked for two right
formal answers, which histories longer than those of the run refute (section 4).
`CountedOnce` demanded that no answer is ever counted twice, which holds only while a
knowledge point has at most `CountWindow` counted answers: the code keeps the last
twenty (`profile_knowledge_state_service.py:146`, `:191`) and counts again what has left
that window and is still evidence (with a window of one TLC finds a record counted
twice). The property now says how far apart the two have to be.
In `NeededBy` and `PlanPrerequisites` a union and a difference stood side by side without
parentheses, which TLC's parser and the prover group differently.
`ReadyIsServed` spoke of steps that make a domain ready; change sets are activated on
domains that are ready, so that within the bounds of the run it said nothing about
activations, and its exceptions did not hold for two documents. It covers every
activation of a change set now, TLC found the deleted document of section 4, and the
candidate an activation commits is the one it read, not one that its thread has built
since.
`PassIsConsensus` demanded every claim and every target, which the bounds of the run
made true; for more claims the code lets less than a twentieth fail and a tenth of the
targets go uncovered, and the property now says so. `RejectedGone` has the filler as an
exception: the explanation of a concept that was replaced by the filler is reviewed
like any other, and once it is rejected the removal writes the same filler again
(`generation_agent.py:1389`; TLC finds it with two rounds and four dissenting voices).

**Only model-checked.**

- Liveness: `Termination`, `InterruptedSettles`, `RepliesSettle`, `ReviewStarts`. Fairness
  and ENABLED are out of the prover's reach.
- What a recursive definition computes for every input. The installed provers cannot
  instantiate theorems with operator parameters, so induction over data is available
  only in the form used here: `LeastNumber` and `SetInduction`, with sets of naturals in
  place of predicates. `SelectSeq`, `FoldLeft` and `@@` stay opaque; modules that are
  proved about use `Picked`, `Joined` and `Folded` instead, and `KnowledgeGraph` says
  what is reachable and what is acyclic by the sets that are closed or have a first
  element, not by iteration.

## 7. Plan

Done: the twelve runs, the eight proof modules above. `PackageProofs` and `EvidenceProofs`
prove about two components each, whose state machines have different names for that
reason (`Init`, `QuizInit`, `ProfileInit`). Every
invariant and every action property the runs check is a theorem. Left: the parts listed
under "Not modelled", of which `_persist_profile_update`, the third writer of a profile,
says most, and imports of published documents in `DomainKnowledge`.
