--------------------------- MODULE QuizGeneration ---------------------------
(***************************************************************************)
(* The graded quiz of one generation task, from the request that creates   *)
(* the task to the decision on it, while the question bank changes: how    *)
(* the nodes of the graph use GradedQuiz (agents/nodes.py,                 *)
(* rag/retrieval.py, agents/generation_agent.py,                           *)
(* agents/orchestrator_agent.py, api/v1/generation_tasks.py).  A node that *)
(* raises fails the task; its other resources are in ReviewAgent.          *)
(***************************************************************************)
EXTENDS GradedQuiz

CONSTANTS
    Questions,   \* every question there may be in the bank
    Banks,       \* bound: the banks to begin with
    Targets,     \* the knowledge points the quiz is assigned
    Profiles,
    MaxRounds,   \* 2: counted revision rounds
    MaxEdits     \* bound: questions disabled or enabled, and index switches

Levels == {"foundation", "improvement", "challenge"}

\* Two questions of a table have different ids.
ASSUME QuestionsAssumption ==
  /\ IsFiniteSet(Questions)
  /\ \A q \in Questions :
       q.id \in Nat /\ q.difficulty \in 1..5 /\ q.level \in Levels /\ IsFiniteSet(q.related)
  /\ \A q, p \in Questions : q.id = p.id => q = p
ASSUME BanksAssumption == Banks \subseteq SUBSET Questions
ASSUME TargetsAssumption == IsFiniteSet(Targets)

Knowledge == UNION {Scope(q) : q \in Questions}

VARIABLES
    bank,        \* the active questions
    indexed,     \* knowledge points with chunks in the active index
    need,        \* what preflight, retrieval and generation are asked for
    node,        \* "create", "retrieve", "generate", "review", "finalize",
                 \* "passed", "withheld", "failed" or "refused"
    checked,     \* the task was created after a preflight
    references,  \* reference_questions of the task's evidence
    evidence,    \* knowledge points of the task's evidence
    quiz,
    report,
    round,
    edits,
    base         \* history: the bank the references were taken from

quizVars == <<bank, indexed, need, node, checked, references, evidence, quiz, report,
          round, edits, base>>

NoReport == [passed |-> FALSE, rejected |-> {}]

\* Retrieval has the priorities of the plan for its focus, generation the focus
\* of the path's node.
QuizInit ==
  /\ bank \in Banks
  /\ indexed = Knowledge
  /\ need \in [retrieval : SUBSET Targets, focus : SUBSET Targets,
               difficulty : 1..5, profile : Profiles]
  /\ need.focus \subseteq need.retrieval
  /\ node = "create" /\ checked = FALSE
  /\ references = <<>> /\ evidence = {} /\ quiz = <<>> /\ report = NoReport
  /\ round = 0 /\ edits = 0 /\ base = {}

Need(focus) ==
  [targets |-> Targets, focus |-> focus, difficulty |-> need.difficulty,
   profile |-> need.profile]

\* create_generation_task asks for a ready domain and the preflight,
\* decide_proposal_resource for the preflight; tasks that answer feedback or
\* refresh a package ask for neither.
Create(origin) ==
  /\ node = "create"
  /\ node' = IF /\ origin = "request" => BankReady(bank, Knowledge)
                /\ origin # "feedback" => Preflight(bank, Need(need.focus))
             THEN "retrieve" ELSE "refused"
  /\ checked' = (origin # "feedback")
  /\ base' = bank
  /\ UNCHANGED <<bank, indexed, need, references, evidence, quiz, report, round, edits>>

\* retrieve_knowledge; a revision keeps the evidence it had, and the references
\* when it finds none.
Retrieve ==
  /\ node = "retrieve"
  /\ LET offered == Offered(bank, Need(need.retrieval), report.rejected)
         fresh   == Supported(offered, indexed)
     IN IF offered = Failed
        THEN node' = "failed" /\ UNCHANGED <<references, evidence, base>>
        ELSE /\ node' = "generate"
             /\ references' = IF fresh = <<>> THEN references ELSE fresh
             /\ evidence' = evidence \cup indexed
             /\ base' = IF fresh = <<>> THEN base ELSE bank
  /\ UNCHANGED <<bank, indexed, need, checked, quiz, report, round, edits>>

\* generate_one: a first quiz, new questions at the rejected positions, or a
\* quiz of other questions when none was rejected.
Draft ==
  IF quiz = <<>> THEN Built(references, Need(need.focus), {})
  ELSE IF report.rejected # {}
  THEN Revised(quiz, references, Need(need.focus), report.rejected)
  ELSE Built(references, Need(need.focus), Range(quiz))

Generate ==
  /\ node = "generate"
  /\ IF Draft # Failed /\ Sourced(Draft, evidence) /\ OnBlueprint(Draft, references)
     THEN node' = "review" /\ quiz' = Draft
     ELSE node' = "failed" /\ UNCHANGED quiz
  /\ UNCHANGED <<bank, indexed, need, checked, references, evidence, report, round, edits, base>>

Review ==
  /\ node = "review"
  /\ report' = Verdict(quiz, Targets, evidence)
  /\ node' = "finalize"
  /\ UNCHANGED <<bank, indexed, need, checked, references, evidence, quiz, round, edits, base>>

\* _revision_or_failure: another round, for the quiz or for a package that fails
\* without a culprit, or the end.
Finalize ==
  /\ node = "finalize"
  /\ \E package \in BOOLEAN :
       IF report.passed /\ package
       THEN node' = "passed" /\ UNCHANGED <<report, round>>
       ELSE IF round < MaxRounds
       THEN node' = "retrieve" /\ round' = round + 1 /\ UNCHANGED report
       ELSE node' = "withheld" /\ UNCHANGED <<report, round>>
  /\ UNCHANGED <<bank, indexed, need, checked, references, evidence, quiz, edits, base>>

\* The bank and the index are managed meanwhile.
Edit ==
  /\ edits < MaxEdits /\ edits' = edits + 1
  /\ \/ \E q \in Questions :
          /\ bank' = IF q \in bank THEN bank \ {q} ELSE bank \cup {q}
          /\ UNCHANGED indexed
     \/ \E k \in Knowledge : indexed' = indexed \ {k} /\ UNCHANGED bank
  /\ UNCHANGED <<need, node, checked, references, evidence, quiz, report, round, base>>

QuizNext ==
  \/ \E origin \in {"request", "proposal", "feedback"} : Create(origin)
  \/ Retrieve \/ Generate \/ Review \/ Finalize \/ Edit

QuizSpec == QuizInit /\ [][QuizNext]_quizVars

-----------------------------------------------------------------------------
(* Properties                                                              *)

\* A quiz under review holds no question that was disabled before the retrieval
\* it was made from, although a revision keeps the positions that were accepted.
QuizFromBank == node = "review" => Range(quiz) \subseteq base

\* What the preflight promises: the first quiz of a task that was created after
\* it does not fail for want of questions, if bank and index stay as they were,
\* although retrieval and generation select with other focuses than the preflight.
PreflightHolds == checked /\ round = 0 /\ edits = 0 => node # "failed"
=============================================================================
