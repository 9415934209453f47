---------------------------- MODULE LearningGraph ----------------------------
(***************************************************************************)
(* The V10 learning graph of one generation task                           *)
(* (src/backend/app/agents/graphs.py, nodes.py, orchestrator_agent.py).    *)
(*                                                                         *)
(* Seven nodes run one after the other.  A node reads the shared state,    *)
(* calls its agent and either returns a patch that is applied at once or   *)
(* raises, which leaves the state as the previous node left it; the worker *)
(* may then resume the graph at the same node.  finalize_task decides      *)
(* whether the package is complete or goes through another round of        *)
(* retrieve, generate and review restricted to the types of its plan.      *)
(*                                                                         *)
(* Retrieved chunks are abstracted to the sources they come from, an       *)
(* artifact to the round that wrote it and the sources it cites, and a     *)
(* review report to the two things the orchestrator asks of it.            *)
(***************************************************************************)
EXTENDS Integers, FiniteSets

CONSTANTS
    Types,         \* resource types the task has to produce
    Sources,       \* source_ref_ids the knowledge base can return
    Capacity,      \* MAX_EVIDENCE_CHUNKS, at most this many sources per round
    MaxRevisions,  \* targeted revisions allowed (2 in orchestrator_agent.py)
    NoPlan         \* finalize_task.revision_plan is None

ASSUME TypesAssumption   == Types # {}
ASSUME SourcesAssumption == IsFiniteSet(Sources) /\ Sources # {}
ASSUME CapacityAssumption == Capacity \in Nat \ {0}
ASSUME BudgetAssumption  == MaxRevisions \in Nat \ {0}

VARIABLES
    node,       \* the node that runs next; "end" once the graph is over
    running,    \* FALSE after a node raised, until the task is resumed
    trigger,    \* task_request.trigger_type
    tutor,      \* interpret_feedback: recommended action and needs_generation
    evidence,   \* sources of retrieve_knowledge.chunks
    artifacts,  \* generate_resource.resources, by type; round 0: none yet
    reports,    \* review_resource.reports, by type; of 0: none yet
    pkgPassed,  \* review_resource.package_quality.passed
    plan,       \* the plan of the last finalize_task, or NoPlan
    rounds,     \* history: how many times finalize_task asked for a revision
    decision    \* finalize_task.decision, "none" before the first one

content == <<evidence, artifacts, reports, pkgPassed>>
vars == <<node, running, trigger, tutor, content, plan, rounds, decision>>

Nodes == {"prepare", "interpret", "analyze", "retrieve", "generate", "review",
          "finalize", "end"}
Triggers == {"initial_generation", "resource_feedback"}

\* What the profile node tells apart of a RecommendedAction: explain, the three
\* actions that ask for resources, the two that ask for none.
Actions == {"none", "explain", "produce", "hold"}
Decisions == {"none", "completed", "revision_required", "failed", "no_change"}

Rounds == 0 .. MaxRevisions + 2
Artifact == [round: Rounds, cites: SUBSET Sources]

\* passed: the report's own gate.  open: no contradicted claim, no missing
\* knowledge, difficulty and coverage reached, yet some claim stays
\* undetermined or unresolved (_revision_or_failure's eligible_reports).
Report == [of: Rounds, passed: BOOLEAN, open: BOOLEAN]
Plan == [count: 1 .. MaxRevisions, types: SUBSET Types, convergence: BOOLEAN]

ASSUME NoPlanAssumption == NoPlan \notin Plan

TypeOK ==
    /\ node \in Nodes
    /\ running \in BOOLEAN
    /\ trigger \in Triggers
    /\ tutor \in [action: Actions, needs: BOOLEAN]
    /\ evidence \in SUBSET Sources
    /\ artifacts \in [Types -> Artifact]
    /\ reports \in [Types -> Report]
    /\ pkgPassed \in BOOLEAN
    /\ plan \in Plan \cup {NoPlan}
    /\ rounds \in 0 .. MaxRevisions + 1
    /\ decision \in Decisions

Init ==
    /\ node = "prepare"
    /\ running = TRUE
    /\ trigger \in Triggers
    /\ tutor = [action |-> "none", needs |-> FALSE]
    /\ evidence = {}
    /\ artifacts = [t \in Types |-> [round |-> 0, cites |-> {}]]
    /\ reports = [t \in Types |-> [of |-> 0, passed |-> FALSE, open |-> FALSE]]
    /\ pkgPassed = FALSE
    /\ plan = NoPlan
    /\ rounds = 0
    /\ decision = "none"

(***************************************************************************)
(* The three nodes before retrieval.                                       *)
(***************************************************************************)
PrepareTask ==
    /\ running /\ node = "prepare"
    /\ node' = IF trigger = "resource_feedback" THEN "interpret" ELSE "analyze"
    /\ UNCHANGED <<running, trigger, tutor, content, plan, rounds, decision>>

\* An explanation may or may not need resources; the other actions fix it.
ConsistentAction(action, needs) ==
    /\ action = "produce" => needs
    /\ action = "hold" => ~needs

InterpretFeedback ==
    /\ running /\ node = "interpret"
    /\ \E action \in Actions \ {"none"}, needs \in BOOLEAN :
          /\ ConsistentAction(action, needs)
          /\ tutor' = [action |-> action, needs |-> needs]
    /\ node' = "analyze"
    /\ UNCHANGED <<running, trigger, content, plan, rounds, decision>>

NeedsGeneration ==
    /\ tutor.action # "hold"
    /\ trigger = "initial_generation" \/ tutor.action \in {"explain", "produce"}

AnalyzeProfile ==
    /\ running /\ node = "analyze"
    /\ node' = IF NeedsGeneration THEN "retrieve" ELSE "finalize"
    /\ UNCHANGED <<running, trigger, tutor, content, plan, rounds, decision>>

(***************************************************************************)
(* A round of retrieval, generation and review.                            *)
(***************************************************************************)
ActiveTypes == IF plan = NoPlan THEN Types ELSE plan.types

CitedBy(types) == UNION {artifacts[t].cites : t \in types}

Fresh == {s \in SUBSET Sources : s # {} /\ Cardinality(s) <= Capacity}

\* Variant with the first two priorities swapped: fresh sources may push out the
\* ones inherited artifacts cite.
MergedFreshFirst(fresh) ==
    {m \in SUBSET (evidence \cup fresh) :
        fresh \subseteq m /\ Cardinality(m) <= Capacity}

\* _merge_revision_retrieval fills the capacity with the sources inherited
\* artifacts cite, then fresh ones, then those the revised artifacts cited,
\* then whatever the previous round had.
Merged(fresh) ==
    LET kept  == CitedBy(Types \ ActiveTypes)
        used  == CitedBy(ActiveTypes)
        offer == evidence \cup fresh
    IN  {m \in SUBSET offer :
            /\ kept \subseteq m
            /\ Cardinality(m) =
                  IF Cardinality(offer) < Capacity THEN Cardinality(offer)
                                                   ELSE Capacity
            /\ fresh \subseteq m \/ m \subseteq kept \cup fresh
            /\ used \cap evidence \subseteq m \/ m \subseteq kept \cup fresh \cup used}

\* The merge refuses inherited artifacts whose sources the previous round lost.
InheritedAvailable == CitedBy(Types \ ActiveTypes) \subseteq evidence

RetrieveKnowledge ==
    /\ running /\ node = "retrieve"
    /\ \E fresh \in Fresh :
          \/ plan = NoPlan /\ evidence' = fresh
          \/ plan # NoPlan /\ InheritedAvailable /\ evidence' \in Merged(fresh)
    /\ node' = "generate"
    /\ UNCHANGED <<running, trigger, tutor, artifacts, reports, pkgPassed, plan,
                   rounds, decision>>

\* Variant that writes every type again in a revision round.
GenerateEveryType ==
    /\ running /\ node = "generate"
    /\ \E cites \in [Types -> (SUBSET evidence) \ {{}}] :
          artifacts' = [t \in Types |-> [round |-> rounds + 1, cites |-> cites[t]]]
    /\ node' = "review"
    /\ UNCHANGED <<running, trigger, tutor, evidence, reports, pkgPassed, plan,
                   rounds, decision>>

\* Only the active types are written again.  The patch is refused when any
\* artifact, inherited ones included, cites a source outside the evidence.
GenerateResource ==
    /\ running /\ node = "generate"
    /\ \E cites \in [ActiveTypes -> (SUBSET evidence) \ {{}}] :
          artifacts' = [t \in Types |->
                          IF t \in ActiveTypes
                          THEN [round |-> rounds + 1, cites |-> cites[t]]
                          ELSE artifacts[t]]
    /\ InheritedAvailable
    /\ node' = "review"
    /\ UNCHANGED <<running, trigger, tutor, evidence, reports, pkgPassed, plan,
                   rounds, decision>>

\* build_review_resource_output pools the claims of all reports: it cannot pass
\* when every report alone exceeds the hallucination gate, and it is the
\* report's own gate when there is one report.
PooledGate(r, passed) ==
    /\ passed => \E t \in Types : r[t].passed \/ ~r[t].open
    /\ (\A t, u \in Types : t = u) => \A t \in Types : passed = r[t].passed

\* Only the active types are reviewed again; the input is refused when an
\* artifact cites a source that is not in the evidence.
ReviewResource ==
    /\ running /\ node = "review"
    /\ CitedBy(Types) \subseteq evidence
    /\ \E gate, open \in [ActiveTypes -> BOOLEAN] :
          reports' = [t \in Types |->
                        IF t \in ActiveTypes
                        THEN [of |-> artifacts[t].round, passed |-> gate[t],
                              open |-> open[t]]
                        ELSE reports[t]]
    /\ \E passed \in BOOLEAN :
          /\ PooledGate(reports', passed)
          /\ pkgPassed' = passed
    /\ node' = "finalize"
    /\ UNCHANGED <<running, trigger, tutor, evidence, artifacts, plan, rounds,
                   decision>>

(***************************************************************************)
(* finalize_task, one action per outcome.                                  *)
(***************************************************************************)
Reviewed == \A t \in Types : reports[t].of > 0

\* Variant that leaves the loop only for a completed package.
RouteUnlessCompleted(d) == IF d = "completed" THEN "end" ELSE "retrieve"

RouteAfterFinalize(d) == IF d = "revision_required" THEN "retrieve" ELSE "end"

Decide(d) ==
    /\ decision' = d
    /\ node' = RouteAfterFinalize(d)
    /\ UNCHANGED <<running, trigger, tutor, content>>

RevisionCount == IF plan = NoPlan THEN 0 ELSE plan.count
ConvergenceAttempted == plan # NoPlan /\ plan.convergence

\* _build_revision_plan: the types that did not pass, all of them when only the
\* pooled gate failed.
FailedTypes == {t \in Types : ~reports[t].passed}
RevisionTypes == IF FailedTypes = {} THEN Types ELSE FailedTypes
OpenTypes == {t \in Types : reports[t].open}

\* A package that passes without one passed report is an invalid output and
\* raises, hence the last guard.
FinalizeCompleted ==
    /\ running /\ node = "finalize"
    /\ Reviewed /\ pkgPassed
    /\ \E t \in Types : reports[t].passed
    /\ Decide("completed")
    /\ UNCHANGED <<plan, rounds>>

FinalizeRevision ==
    /\ running /\ node = "finalize"
    /\ Reviewed /\ ~pkgPassed
    /\ RevisionCount < MaxRevisions
    /\ plan' = [count |-> RevisionCount + 1, types |-> RevisionTypes,
                convergence |-> FALSE]
    /\ rounds' = rounds + 1
    /\ Decide("revision_required")

\* One more round, outside the count, that removes open claims.
FinalizeConvergence ==
    /\ running /\ node = "finalize"
    /\ Reviewed /\ ~pkgPassed
    /\ RevisionCount >= MaxRevisions
    /\ OpenTypes # {} /\ ~ConvergenceAttempted
    /\ plan' = [count |-> MaxRevisions, types |-> OpenTypes,
                convergence |-> TRUE]
    /\ rounds' = rounds + 1
    /\ Decide("revision_required")

\* Variant that gives up without the convergence round.
FinalizeExhaustedEarly ==
    /\ running /\ node = "finalize"
    /\ Reviewed /\ ~pkgPassed
    /\ RevisionCount >= MaxRevisions
    /\ Decide("failed")
    /\ UNCHANGED <<plan, rounds>>

FinalizeExhausted ==
    /\ running /\ node = "finalize"
    /\ Reviewed /\ ~pkgPassed
    /\ RevisionCount >= MaxRevisions
    /\ OpenTypes = {} \/ ConvergenceAttempted
    /\ Decide("failed")
    /\ UNCHANGED <<plan, rounds>>

FinalizeUnreviewed ==
    /\ running /\ node = "finalize"
    /\ ~Reviewed
    /\ Decide(IF tutor.action # "none" /\ ~tutor.needs THEN "no_change" ELSE "failed")
    /\ UNCHANGED <<plan, rounds>>

FinalizeTask ==
    \/ FinalizeCompleted
    \/ FinalizeRevision
    \/ FinalizeConvergence
    \/ FinalizeExhausted
    \/ FinalizeUnreviewed

(***************************************************************************)
(* A node raises: its patch is not applied.  The worker, a user's retry or *)
(* the recovery at startup resumes the graph at the checkpointed node.     *)
(***************************************************************************)
Raise ==
    /\ running /\ node # "end"
    /\ running' = FALSE
    /\ UNCHANGED <<node, trigger, tutor, content, plan, rounds, decision>>

Resume ==
    /\ ~running
    /\ running' = TRUE
    /\ UNCHANGED <<node, trigger, tutor, content, plan, rounds, decision>>

NodeStep ==
    \/ PrepareTask
    \/ InterpretFeedback
    \/ AnalyzeProfile
    \/ RetrieveKnowledge
    \/ GenerateResource
    \/ ReviewResource
    \/ FinalizeTask

Done == node = "end" /\ UNCHANGED vars

Next == NodeStep \/ Raise \/ Resume \/ Done

Spec == Init /\ [][Next]_vars

\* A node that runs returns or raises: every external call has a timeout.
FairSpec == Spec /\ WF_vars(NodeStep \/ Raise)

(***************************************************************************)
(* Properties.                                                             *)
(***************************************************************************)

\* The counter the orchestrator reads back from its own last plan never loses
\* track of the rounds really run, whatever was raised and resumed in between:
\* at most MaxRevisions counted revisions, then at most one convergence round.
RevisionBudget ==
    /\ rounds <= MaxRevisions + 1
    /\ plan = NoPlan <=> rounds = 0
    /\ plan # NoPlan =>
          /\ plan.count = IF rounds < MaxRevisions THEN rounds ELSE MaxRevisions
          /\ plan.convergence <=> rounds = MaxRevisions + 1

\* Sources cited by inherited artifacts survive every later retrieval although
\* its ranking changes and its capacity is limited: no revision round is
\* refused for an inherited citation, and a package that is reviewed, finalized
\* or finished has all its citations in the task's evidence.
CitationsRetained ==
    /\ node \in {"retrieve", "generate"} => CitedBy(Types \ ActiveTypes) \subseteq evidence
    /\ node \in {"review", "finalize"} => CitedBy(Types) \subseteq evidence
    /\ decision = "completed" => CitedBy(Types) \subseteq evidence
    /\ Cardinality(CitedBy(Types \ ActiveTypes)) <= Capacity

\* The decision is never taken on a report about an earlier version of an
\* artifact: partial generation and partial review agree on what is active.
DecidedOnCurrentArtifacts ==
    node \in {"finalize", "end"} =>
        \A t \in Types : reports[t].of = artifacts[t].round

\* A task gives up only when the whole budget is spent on a package that still
\* fails, and keeps the learner's content only when it generated nothing.
GivesUpOnlyWhenExhausted ==
    /\ decision = "failed" =>
          /\ ~pkgPassed
          /\ rounds >= MaxRevisions
          /\ (\E t \in Types : reports[t].open) => rounds = MaxRevisions + 1
    /\ decision = "no_change" =>
          /\ trigger = "resource_feedback"
          /\ \A t \in Types : artifacts[t].round = 0

\* Unless nodes keep raising, the graph ends: no loop of revisions.
Termination == <>[]running => <>(node = "end")

=============================================================================
