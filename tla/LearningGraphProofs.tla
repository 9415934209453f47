------------------------- MODULE LearningGraphProofs -------------------------
(***************************************************************************)
(* Proofs about LearningGraph for any set of types and sources, any        *)
(* capacity and any limit of revisions.                                    *)
(***************************************************************************)
EXTENDS LearningGraph, FiniteSetTheorems, TLAPS

(***************************************************************************)
(* The inductive invariant.                                                *)
(***************************************************************************)
Untouched == \A t \in Types : artifacts[t].round = 0

\* What the tutor said is known before the profile node and fits the trigger.
TutorInv ==
    /\ trigger = "initial_generation" => tutor.action = "none"
    /\ node = "interpret" => trigger = "resource_feedback"
    /\ tutor.action = "hold" => ~tutor.needs
    /\ node = "analyze" /\ trigger = "resource_feedback" => tutor.action # "none"
    /\ node \in {"prepare", "interpret"} => tutor.action = "none"

\* Reports lag behind artifacts only between generation and review, and only
\* for the types the round is about; artifacts exist all together or not at all.
RoundInv ==
    /\ \A t \in Types : node # "review" \/ t \notin ActiveTypes =>
          reports[t].of = artifacts[t].round
    /\ Untouched \/ \A t \in Types : artifacts[t].round > 0
    /\ node \in {"prepare", "interpret", "analyze"} => Untouched /\ plan = NoPlan
    /\ node \in {"retrieve", "generate"} /\ plan = NoPlan => Untouched
    /\ node = "review" => ~Untouched
    /\ plan # NoPlan => ~Untouched
    /\ node = "finalize" /\ Untouched =>
          trigger = "resource_feedback" /\ tutor.action = "hold"

\* Decisions other than a revision are final.
DecisionInv ==
    /\ node = "end" => decision \in {"completed", "failed", "no_change"}
    /\ node # "end" => decision \in {"none", "revision_required"}

EvidenceInv ==
    /\ Cardinality(evidence) <= Capacity
    /\ \A t \in Types : artifacts[t].round = 0 => artifacts[t].cites = {}
    /\ CitedBy(Types \ ActiveTypes) \subseteq evidence
    /\ node \in {"review", "finalize", "end"} => CitedBy(Types) \subseteq evidence

IInv ==
    /\ TypeOK
    /\ RevisionBudget
    /\ TutorInv
    /\ RoundInv
    /\ DecisionInv
    /\ EvidenceInv
    /\ GivesUpOnlyWhenExhausted

(***************************************************************************)
(* Types and the revision budget.  They need each other: the tag of a new  *)
(* artifact is in range because the rounds are, and the rounds are because *)
(* the count in the plan keeps up with them.                               *)
(***************************************************************************)
LEMMA InitTypes == Init => TypeOK /\ RevisionBudget
<1> SUFFICES ASSUME Init
             PROVE  TypeOK /\ RevisionBudget
    OBVIOUS
<1>1. 0 \in Rounds /\ 0 \in 0 .. MaxRevisions + 1 /\ 0 <= MaxRevisions + 1
  BY BudgetAssumption DEF Rounds
<1>2. artifacts \in [Types -> Artifact] /\ reports \in [Types -> Report]
  BY <1>1 DEF Init, Artifact, Report
<1>3. QED
  BY <1>1, <1>2 DEF Init, TypeOK, RevisionBudget, Nodes, Triggers, Actions, Decisions

LEMMA MergedType ==
  ASSUME TypeOK, NEW fresh \in Fresh, NEW m \in Merged(fresh)
  PROVE  m \in SUBSET Sources
  BY DEF TypeOK, Fresh, Merged

LEMMA TypesPreserved == TypeOK /\ RevisionBudget /\ [Next]_vars => TypeOK' /\ RevisionBudget'
<1> SUFFICES ASSUME TypeOK, RevisionBudget, [Next]_vars
             PROVE  TypeOK' /\ RevisionBudget'
    OBVIOUS
<1> USE DEF Nodes, Triggers, Actions, Decisions
<1>1. CASE PrepareTask
  BY <1>1 DEF PrepareTask, content, TypeOK, RevisionBudget
<1>2. CASE InterpretFeedback
  BY <1>2 DEF InterpretFeedback, content, TypeOK, RevisionBudget
<1>3. CASE AnalyzeProfile
  BY <1>3 DEF AnalyzeProfile, content, TypeOK, RevisionBudget
<1>4. CASE RetrieveKnowledge
  <2>1. evidence' \in SUBSET Sources
    BY <1>4, MergedType DEF RetrieveKnowledge, Fresh
  <2>2. QED
    BY <1>4, <2>1 DEF RetrieveKnowledge, TypeOK, RevisionBudget
<1>5. CASE GenerateResource
  <2>1. PICK cites \in [ActiveTypes -> (SUBSET evidence) \ {{}}] :
          artifacts' = [t \in Types |->
                          IF t \in ActiveTypes
                          THEN [round |-> rounds + 1, cites |-> cites[t]]
                          ELSE artifacts[t]]
    BY <1>5 DEF GenerateResource
  <2>2. rounds + 1 \in Rounds
    BY BudgetAssumption DEF TypeOK, Rounds
  <2>3. artifacts' \in [Types -> Artifact]
    BY <2>1, <2>2 DEF TypeOK, Artifact
  <2>4. QED
    BY <1>5, <2>3 DEF GenerateResource, TypeOK, RevisionBudget
<1>6. CASE ReviewResource
  <2>1. PICK gate \in [ActiveTypes -> BOOLEAN], open \in [ActiveTypes -> BOOLEAN] :
          reports' = [t \in Types |->
                        IF t \in ActiveTypes
                        THEN [of |-> artifacts[t].round, passed |-> gate[t],
                              open |-> open[t]]
                        ELSE reports[t]]
    BY <1>6 DEF ReviewResource
  <2>2. reports' \in [Types -> Report]
    BY <2>1 DEF TypeOK, Artifact, Report
  <2>3. QED
    BY <1>6, <2>2 DEF ReviewResource, TypeOK, RevisionBudget
<1>7. CASE FinalizeCompleted
  BY <1>7 DEF FinalizeCompleted, Decide, RouteAfterFinalize, content, TypeOK, RevisionBudget
<1>8. CASE FinalizeRevision
  <2>1. RevisionTypes \in SUBSET Types
    BY DEF RevisionTypes, FailedTypes
  <2>2. RevisionCount = rounds /\ rounds < MaxRevisions
    BY <1>8, BudgetAssumption
    DEF FinalizeRevision, RevisionCount, TypeOK, RevisionBudget
  <2>3. plan' \in Plan /\ plan'.count = rounds + 1 /\ plan'.convergence = FALSE
    BY <1>8, <2>1, <2>2, BudgetAssumption DEF FinalizeRevision, Plan, TypeOK
  <2>4. plan' # NoPlan
    BY <2>3, NoPlanAssumption
  <2>5. TypeOK'
    BY <1>8, <2>2, <2>3, BudgetAssumption
    DEF FinalizeRevision, Decide, RouteAfterFinalize, content, TypeOK
  <2>6. RevisionBudget'
    BY <1>8, <2>2, <2>3, <2>4, BudgetAssumption
    DEF FinalizeRevision, TypeOK, RevisionBudget
  <2>7. QED
    BY <2>5, <2>6
<1>9. CASE FinalizeConvergence
  <2>1. OpenTypes \in SUBSET Types
    BY DEF OpenTypes
  <2>2. rounds = MaxRevisions
    BY <1>9, BudgetAssumption
    DEF FinalizeConvergence, RevisionCount, ConvergenceAttempted, TypeOK,
        RevisionBudget
  <2>3. plan' \in Plan /\ plan'.count = MaxRevisions /\ plan'.convergence = TRUE
    BY <1>9, <2>1, BudgetAssumption DEF FinalizeConvergence, Plan
  <2>4. plan' # NoPlan
    BY <2>3, NoPlanAssumption
  <2>5. TypeOK'
    BY <1>9, <2>2, <2>3, BudgetAssumption
    DEF FinalizeConvergence, Decide, RouteAfterFinalize, content, TypeOK
  <2>6. RevisionBudget'
    BY <1>9, <2>2, <2>3, <2>4, BudgetAssumption
    DEF FinalizeConvergence, TypeOK, RevisionBudget
  <2>7. QED
    BY <2>5, <2>6
<1>10. CASE FinalizeExhausted
  BY <1>10 DEF FinalizeExhausted, Decide, RouteAfterFinalize, content, TypeOK, RevisionBudget
<1>11. CASE FinalizeUnreviewed
  BY <1>11 DEF FinalizeUnreviewed, Decide, RouteAfterFinalize, content, TypeOK, RevisionBudget
<1>12. CASE Raise
  BY <1>12 DEF Raise, content, TypeOK, RevisionBudget
<1>13. CASE Resume
  BY <1>13 DEF Resume, content, TypeOK, RevisionBudget
<1>14. CASE UNCHANGED vars
  BY <1>14 DEF vars, content, TypeOK, RevisionBudget
<1>15. QED
  BY <1>1, <1>2, <1>3, <1>4, <1>5, <1>6, <1>7, <1>8, <1>9, <1>10, <1>11, <1>12,
     <1>13, <1>14
  DEF Next, NodeStep, FinalizeTask, Done

\* Every variable keeps its type: in particular the plan handed to a revision
\* round always satisfies the contract's bounds on its count.
THEOREM TypeCorrect == Spec => []TypeOK
<1>1. TypeOK /\ RevisionBudget /\ [Next]_vars => (TypeOK /\ RevisionBudget)'
  BY TypesPreserved
<1>2. QED
  BY InitTypes, <1>1, PTL DEF Spec

\* The orchestrator's own count of revisions stays right through every raise and
\* resume: at most MaxRevisions targeted rounds and one convergence round.
THEOREM BudgetKept == Spec => []RevisionBudget
<1>1. TypeOK /\ RevisionBudget /\ [Next]_vars => (TypeOK /\ RevisionBudget)'
  BY TypesPreserved
<1>2. QED
  BY InitTypes, <1>1, PTL DEF Spec

(***************************************************************************)
(* What the tutor said.                                                    *)
(***************************************************************************)
LEMMA TutorPreserved == TypeOK /\ TutorInv /\ [Next]_vars => TutorInv'
<1> SUFFICES ASSUME TypeOK, TutorInv, [Next]_vars
             PROVE  TutorInv'
    OBVIOUS
<1>1. CASE PrepareTask
  BY <1>1 DEF PrepareTask, TutorInv, TypeOK, Triggers
<1>2. CASE InterpretFeedback
  BY <1>2 DEF InterpretFeedback, ConsistentAction, TutorInv, TypeOK, Triggers
<1>3. CASE AnalyzeProfile
  BY <1>3 DEF AnalyzeProfile, TutorInv
<1>4. CASE RetrieveKnowledge \/ GenerateResource \/ ReviewResource
  BY <1>4 DEF RetrieveKnowledge, GenerateResource, ReviewResource, TutorInv
<1>5. CASE FinalizeTask
  BY <1>5
  DEF FinalizeTask, FinalizeCompleted, FinalizeRevision, FinalizeConvergence,
      FinalizeExhausted, FinalizeUnreviewed, Decide, RouteAfterFinalize, TutorInv
<1>6. CASE Raise \/ Resume \/ UNCHANGED vars
  BY <1>6 DEF Raise, Resume, vars, TutorInv
<1>7. QED
  BY <1>1, <1>2, <1>3, <1>4, <1>5, <1>6 DEF Next, NodeStep, Done

(***************************************************************************)
(* Rounds: which version of an artifact a report is about.                 *)
(***************************************************************************)
LEMMA TypesNonEmpty == \E t \in Types : TRUE
  BY TypesAssumption

\* The only way to finalize_task without resources is a tutor that holds.
LEMMA HoldSkipsGeneration ==
  ASSUME TypeOK, TutorInv, node = "analyze", ~NeedsGeneration
  PROVE  trigger = "resource_feedback" /\ tutor.action = "hold"
<1>1. tutor.action \in Actions /\ trigger \in Triggers
  BY DEF TypeOK
<1>2. CASE trigger = "initial_generation"
  <2>1. tutor.action = "none"
    BY <1>2 DEF TutorInv
  <2>2. NeedsGeneration
    BY <1>2, <2>1 DEF NeedsGeneration
  <2>3. QED
    BY <2>2
<1>3. CASE trigger = "resource_feedback"
  <2>1. tutor.action \in {"explain", "produce", "hold"}
    BY <1>1, <1>3 DEF TutorInv, Actions
  <2>2. tutor.action # "explain" /\ tutor.action # "produce"
    BY DEF NeedsGeneration
  <2>3. QED
    BY <1>3, <2>1, <2>2
<1>4. QED
  BY <1>1, <1>2, <1>3 DEF Triggers

\* Without a plan every type is active, with one its types are.
LEMMA ActiveInTypes == TypeOK => ActiveTypes \subseteq Types
  BY NoPlanAssumption DEF TypeOK, ActiveTypes, Plan

LEMMA RoundPreserved ==
  TypeOK /\ RevisionBudget /\ TutorInv /\ RoundInv /\ [Next]_vars => RoundInv'
<1> SUFFICES ASSUME TypeOK, RevisionBudget, TutorInv, RoundInv, [Next]_vars
             PROVE  RoundInv'
    OBVIOUS
<1>1. CASE PrepareTask
  BY <1>1 DEF PrepareTask, content, RoundInv, Untouched, ActiveTypes
<1>2. CASE InterpretFeedback
  BY <1>2 DEF InterpretFeedback, content, RoundInv, Untouched, ActiveTypes
<1>3. CASE AnalyzeProfile
  <2>1. ~NeedsGeneration => trigger = "resource_feedback" /\ tutor.action = "hold"
    BY <1>3, HoldSkipsGeneration DEF AnalyzeProfile
  <2>2. QED
    BY <1>3, <2>1 DEF AnalyzeProfile, content, RoundInv, Untouched, ActiveTypes
<1>4. CASE RetrieveKnowledge
  BY <1>4 DEF RetrieveKnowledge, RoundInv, Untouched, ActiveTypes
<1>5. CASE GenerateResource
  <2>1. PICK cites \in [ActiveTypes -> (SUBSET evidence) \ {{}}] :
          artifacts' = [t \in Types |->
                          IF t \in ActiveTypes
                          THEN [round |-> rounds + 1, cites |-> cites[t]]
                          ELSE artifacts[t]]
    BY <1>5 DEF GenerateResource
  <2>2. rounds + 1 > 0
    BY BudgetAssumption DEF TypeOK
  <2>3. ActiveTypes' = ActiveTypes
    BY <1>5 DEF GenerateResource, ActiveTypes
  <2>4. \A t \in Types : t \notin ActiveTypes => artifacts'[t] = artifacts[t]
    BY <2>1
  <2>5. \A t \in Types : artifacts'[t].round > 0
    <3>1. TAKE t \in Types
    <3>2. CASE t \in ActiveTypes
      BY <2>1, <2>2, <3>2
    <3>3. CASE t \notin ActiveTypes
      <4>1. plan # NoPlan
        BY <3>3 DEF ActiveTypes
      <4>2. artifacts[t].round > 0
        BY <4>1 DEF RoundInv
      <4>3. QED
        BY <2>4, <3>3, <4>2
    <3>4. QED
      BY <3>2, <3>3
  <2>6. ~Untouched'
    BY <2>5, TypesNonEmpty DEF Untouched
  <2>7. QED
    BY <1>5, <2>3, <2>4, <2>5, <2>6 DEF GenerateResource, RoundInv
<1>6. CASE ReviewResource
  <2>1. PICK gate \in [ActiveTypes -> BOOLEAN], open \in [ActiveTypes -> BOOLEAN] :
          reports' = [t \in Types |->
                        IF t \in ActiveTypes
                        THEN [of |-> artifacts[t].round, passed |-> gate[t],
                              open |-> open[t]]
                        ELSE reports[t]]
    BY <1>6 DEF ReviewResource
  <2>2. \A t \in Types : reports'[t].of = artifacts[t].round
    BY <1>6, <2>1 DEF ReviewResource, RoundInv
  <2>3. QED
    BY <1>6, <2>2 DEF ReviewResource, RoundInv, Untouched, ActiveTypes
<1>7. CASE FinalizeCompleted \/ FinalizeExhausted \/ FinalizeUnreviewed
  BY <1>7
  DEF FinalizeCompleted, FinalizeExhausted, FinalizeUnreviewed, Decide,
      RouteAfterFinalize, content, RoundInv, Untouched, ActiveTypes
<1>8. CASE FinalizeRevision \/ FinalizeConvergence
  <2>1. node = "finalize" /\ Reviewed /\ node' = "retrieve" /\ UNCHANGED content
    BY <1>8
    DEF FinalizeRevision, FinalizeConvergence, Decide, RouteAfterFinalize
  <2>2. plan' # NoPlan
    BY <1>8, TypesPreserved, BudgetAssumption
    DEF FinalizeRevision, FinalizeConvergence, RevisionBudget, TypeOK, Next,
        NodeStep, FinalizeTask
  <2>3. \A t \in Types : reports[t].of = artifacts[t].round
    BY <2>1 DEF RoundInv
  <2>4. ~Untouched
    BY <2>1, <2>3, TypesNonEmpty DEF Reviewed, Untouched
  <2>5. QED
    BY <2>1, <2>2, <2>3, <2>4 DEF RoundInv, Untouched, content
<1>9. CASE Raise \/ Resume \/ UNCHANGED vars
  BY <1>9 DEF Raise, Resume, vars, content, RoundInv, Untouched, ActiveTypes
<1>10. QED
  BY <1>1, <1>2, <1>3, <1>4, <1>5, <1>6, <1>7, <1>8, <1>9 DEF Next, NodeStep, FinalizeTask, Done

(***************************************************************************)
(* Decisions.                                                              *)
(***************************************************************************)
LEMMA UnreviewedIsHold ==
  ASSUME TypeOK, TutorInv, RoundInv, node = "finalize", ~Reviewed
  PROVE  /\ Untouched
         /\ trigger = "resource_feedback"
         /\ tutor.action = "hold" /\ ~tutor.needs
<1>1. PICK t \in Types : ~(reports[t].of > 0)
  BY DEF Reviewed
<1>2. artifacts[t].round = reports[t].of
  BY <1>1 DEF RoundInv
<1>3. Untouched
  BY <1>1, <1>2 DEF RoundInv
<1>4. QED
  BY <1>3 DEF RoundInv, TutorInv

LEMMA DecisionPreserved ==
  /\ TypeOK /\ RevisionBudget /\ TutorInv /\ RoundInv
  /\ DecisionInv /\ GivesUpOnlyWhenExhausted
  /\ [Next]_vars
  => DecisionInv' /\ GivesUpOnlyWhenExhausted'
<1> SUFFICES ASSUME TypeOK, RevisionBudget, TutorInv, RoundInv, DecisionInv,
                    GivesUpOnlyWhenExhausted, [Next]_vars
             PROVE  DecisionInv' /\ GivesUpOnlyWhenExhausted'
    OBVIOUS
<1>1. CASE \/ PrepareTask \/ InterpretFeedback \/ AnalyzeProfile
           \/ RetrieveKnowledge \/ GenerateResource \/ ReviewResource
  <2>1. node # "end" /\ node' # "end" /\ decision' = decision
    BY <1>1
    DEF PrepareTask, InterpretFeedback, AnalyzeProfile, RetrieveKnowledge,
        GenerateResource, ReviewResource
  <2>2. QED
    BY <2>1 DEF DecisionInv, GivesUpOnlyWhenExhausted
<1>2. CASE FinalizeCompleted \/ FinalizeRevision \/ FinalizeConvergence
  BY <1>2
  DEF FinalizeCompleted, FinalizeRevision, FinalizeConvergence, Decide,
      RouteAfterFinalize, DecisionInv, GivesUpOnlyWhenExhausted
<1>3. CASE FinalizeExhausted
  <2>1. rounds >= MaxRevisions
    BY <1>3, BudgetAssumption
    DEF FinalizeExhausted, RevisionCount, TypeOK, RevisionBudget
  <2>2. (\E t \in Types : reports[t].open) => rounds = MaxRevisions + 1
    BY <1>3 DEF FinalizeExhausted, OpenTypes, ConvergenceAttempted, RevisionBudget
  <2>3. QED
    BY <1>3, <2>1, <2>2
    DEF FinalizeExhausted, Decide, RouteAfterFinalize, content, DecisionInv,
        GivesUpOnlyWhenExhausted
<1>4. CASE FinalizeUnreviewed
  <2>1. /\ Untouched
        /\ trigger = "resource_feedback"
        /\ tutor.action = "hold" /\ ~tutor.needs
    BY <1>4, UnreviewedIsHold DEF FinalizeUnreviewed
  <2>2. decision' = "no_change" /\ node' = "end"
    BY <1>4, <2>1 DEF FinalizeUnreviewed, Decide, RouteAfterFinalize
  <2>3. QED
    BY <1>4, <2>1, <2>2
    DEF FinalizeUnreviewed, Decide, content, Untouched, DecisionInv,
        GivesUpOnlyWhenExhausted
<1>5. CASE Raise \/ Resume \/ UNCHANGED vars
  BY <1>5 DEF Raise, Resume, vars, content, DecisionInv, GivesUpOnlyWhenExhausted
<1>6. QED
  BY <1>1, <1>2, <1>3, <1>4, <1>5 DEF Next, NodeStep, FinalizeTask, Done

(***************************************************************************)
(* Evidence.                                                               *)
(***************************************************************************)
LEMMA EvidenceFinite == TypeOK => IsFiniteSet(evidence)
  BY FS_Subset, SourcesAssumption DEF TypeOK

\* The merge keeps what inherited artifacts cite and respects the capacity.
LEMMA MergeKeepsInherited ==
  ASSUME NEW fresh, NEW m \in Merged(fresh)
  PROVE  CitedBy(Types \ ActiveTypes) \subseteq m
  BY DEF Merged

LEMMA MergeFits ==
  ASSUME TypeOK, NEW fresh \in Fresh, NEW m \in Merged(fresh)
  PROVE  Cardinality(m) <= Capacity
<1>1. IsFiniteSet(evidence \cup fresh)
  BY FS_Subset, SourcesAssumption DEF TypeOK, Fresh
<1>2. Cardinality(evidence \cup fresh) \in Nat
  BY <1>1, FS_CardinalityType
<1>3. QED
  BY <1>2, CapacityAssumption DEF Merged

LEMMA CitedByPart ==
  ASSUME NEW P, NEW Q, P \subseteq Q
  PROVE  CitedBy(P) \subseteq CitedBy(Q)
  BY DEF CitedBy

LEMMA EvidencePreserved ==
  TypeOK /\ RevisionBudget /\ RoundInv /\ EvidenceInv /\ [Next]_vars => EvidenceInv'
<1> SUFFICES ASSUME TypeOK, RevisionBudget, RoundInv, EvidenceInv, [Next]_vars
             PROVE  EvidenceInv'
    OBVIOUS
<1>1. CASE PrepareTask \/ InterpretFeedback
  BY <1>1
  DEF PrepareTask, InterpretFeedback, content, EvidenceInv, CitedBy, ActiveTypes
<1>2. CASE AnalyzeProfile
  <2>1. CitedBy(Types) = {}
    BY <1>2 DEF AnalyzeProfile, RoundInv, Untouched, EvidenceInv, CitedBy
  <2>2. QED
    BY <1>2, <2>1 DEF AnalyzeProfile, content, EvidenceInv, CitedBy, ActiveTypes
<1>3. CASE RetrieveKnowledge
  <2>1. PICK fresh \in Fresh :
          \/ plan = NoPlan /\ evidence' = fresh
          \/ plan # NoPlan /\ InheritedAvailable /\ evidence' \in Merged(fresh)
    BY <1>3 DEF RetrieveKnowledge
  <2>2. Cardinality(evidence') <= Capacity
    BY <2>1, MergeFits DEF Fresh
  <2>3. CitedBy(Types \ ActiveTypes) \subseteq evidence'
    BY <2>1, MergeKeepsInherited DEF ActiveTypes, CitedBy
  <2>4. QED
    BY <1>3, <2>2, <2>3 DEF RetrieveKnowledge, EvidenceInv, CitedBy, ActiveTypes
<1>4. CASE GenerateResource
  <2>1. PICK cites \in [ActiveTypes -> (SUBSET evidence) \ {{}}] :
          artifacts' = [t \in Types |->
                          IF t \in ActiveTypes
                          THEN [round |-> rounds + 1, cites |-> cites[t]]
                          ELSE artifacts[t]]
    BY <1>4 DEF GenerateResource
  <2>2. \A t \in ActiveTypes \cap Types : artifacts'[t].cites \subseteq evidence
    BY <2>1
  <2>3. \A t \in Types \ ActiveTypes : artifacts'[t] = artifacts[t]
    BY <2>1
  <2>4. \A t \in Types : artifacts'[t].cites \subseteq evidence
    BY <1>4, <2>2, <2>3 DEF GenerateResource, InheritedAvailable, CitedBy
  <2>5. \A t \in Types : artifacts'[t].round = 0 => artifacts'[t].cites = {}
    <3>1. rounds + 1 # 0
      BY DEF TypeOK
    <3>2. QED
      BY <2>1, <3>1 DEF EvidenceInv
  <2>6. CitedBy(Types)' \subseteq evidence'
    BY <1>4, <2>4 DEF GenerateResource, CitedBy
  <2>7. CitedBy(Types \ ActiveTypes)' \subseteq evidence'
    BY <2>6 DEF CitedBy
  <2>8. QED
    BY <1>4, <2>5, <2>6, <2>7 DEF GenerateResource, EvidenceInv
<1>5. CASE ReviewResource
  BY <1>5 DEF ReviewResource, EvidenceInv, CitedBy, ActiveTypes
<1>6. CASE FinalizeTask
  <2>1. node = "finalize" /\ UNCHANGED content
    BY <1>6
    DEF FinalizeTask, FinalizeCompleted, FinalizeRevision, FinalizeConvergence,
        FinalizeExhausted, FinalizeUnreviewed, Decide
  <2>2. CitedBy(Types)' \subseteq evidence'
    BY <2>1 DEF EvidenceInv, CitedBy, content
  <2>3. CitedBy(Types \ ActiveTypes)' \subseteq evidence'
    BY <2>2 DEF CitedBy
  <2>4. QED
    BY <2>1, <2>2, <2>3 DEF EvidenceInv, content
<1>7. CASE Raise \/ Resume \/ UNCHANGED vars
  BY <1>7 DEF Raise, Resume, vars, content, EvidenceInv, CitedBy, ActiveTypes
<1>8. QED
  BY <1>1, <1>2, <1>3, <1>4, <1>5, <1>6, <1>7 DEF Next, NodeStep, Done

(***************************************************************************)
(* The invariant is inductive, and implies the properties.                 *)
(***************************************************************************)
LEMMA InitInv == Init => IInv
<1> SUFFICES ASSUME Init
             PROVE  IInv
    OBVIOUS
<1>1. TypeOK /\ RevisionBudget
  BY InitTypes
<1>2. Untouched /\ CitedBy(Types) = {}
  BY DEF Init, Untouched, CitedBy
<1>3. TutorInv /\ DecisionInv /\ GivesUpOnlyWhenExhausted
  BY DEF Init, Triggers, TutorInv, DecisionInv, GivesUpOnlyWhenExhausted
<1>4. RoundInv
  BY <1>2 DEF Init, RoundInv, Untouched
<1>5. EvidenceInv
  BY <1>2, FS_EmptySet, CapacityAssumption DEF Init, EvidenceInv, CitedBy
<1>6. QED
  BY <1>1, <1>3, <1>4, <1>5 DEF IInv

LEMMA InvPreserved == IInv /\ [Next]_vars => IInv'
  BY TypesPreserved, TutorPreserved, RoundPreserved, DecisionPreserved, EvidencePreserved
  DEF IInv

THEOREM InvHolds == Spec => []IInv
  BY InitInv, InvPreserved, PTL DEF Spec

\* Whatever was raised and resumed, finalize_task decides on reports about the
\* artifacts as they are now.
THEOREM ReviewIsCurrent == Spec => []DecidedOnCurrentArtifacts
<1>1. IInv => DecidedOnCurrentArtifacts
  BY DEF IInv, RoundInv, DecidedOnCurrentArtifacts
<1>2. QED
  BY <1>1, InvHolds, PTL

\* A graph that ends in a failure has spent the whole budget, and one that ends
\* without a change has generated nothing.
THEOREM GivesUpLast == Spec => []GivesUpOnlyWhenExhausted
<1>1. IInv => GivesUpOnlyWhenExhausted
  BY DEF IInv
<1>2. QED
  BY <1>1, InvHolds, PTL

\* Citations of inherited artifacts are never lost, for any capacity: the
\* errors _merge_revision_retrieval raises about them cannot occur.
THEOREM CitationsKept == Spec => []CitationsRetained
<1>1. IInv => CitationsRetained
  <2> SUFFICES ASSUME IInv
               PROVE  CitationsRetained
      OBVIOUS
  <2>1. CitedBy(Types \ ActiveTypes) \subseteq evidence
    BY DEF IInv, EvidenceInv
  <2>2. IsFiniteSet(evidence)
    BY EvidenceFinite DEF IInv
  <2>3. Cardinality(CitedBy(Types \ ActiveTypes)) <= Cardinality(evidence)
    BY <2>1, <2>2, FS_Subset
  <2>4. Cardinality(CitedBy(Types \ ActiveTypes)) \in Nat /\ Cardinality(evidence) \in Nat
    BY <2>1, <2>2, FS_Subset, FS_CardinalityType
  <2>5. Cardinality(CitedBy(Types \ ActiveTypes)) <= Capacity
    BY <2>3, <2>4, CapacityAssumption DEF IInv, EvidenceInv
  <2>6. decision = "completed" => CitedBy(Types) \subseteq evidence
    BY DEF IInv, EvidenceInv, DecisionInv, TypeOK, Nodes
  <2>7. QED
    BY <2>1, <2>5, <2>6 DEF IInv, EvidenceInv, CitationsRetained
<1>2. QED
  BY <1>1, InvHolds, PTL
=============================================================================
