---------------------------- MODULE KnowledgeState ----------------------------
(***************************************************************************)
(* The cumulative knowledge state behind a profile                         *)
(* (services/profile_knowledge_state_service.py): every accepted answer    *)
(* adds to the evidence on its knowledge point, and the profile a learner  *)
(* sees is projected from it once the evidence is enough.                  *)
(*                                                                         *)
(* A state maps each knowledge point to                                    *)
(*   [s, w]            weighted score and weight of the accepted answers   *)
(*   [core, coreW, qs] number, weight and questions of the core ones       *)
(*   [ids]             the answers accepted (the code keeps the last 20)   *)
(*   [tags]            how often each confusion was named                  *)
(***************************************************************************)
EXTENDS ProfileAnalysis

CONSTANTS
  Tags,            \* confusions the scoring names
  InitialMinimum,  \* initial_diagnostic_min_answers, 10 in the code
  Prior            \* _background_prior of the learner: 42 to 72

NoState == <<>>

NoEvidence == [s |-> 0, w |-> 0, core |-> 0, coreW |-> 0, qs |-> {}, ids |-> {},
               tags |-> [t \in Tags |-> 0]]

\* _previous_items
PreviousItem(state, k) == IF state = NoState THEN NoEvidence ELSE state[k]

\* The answers build_knowledge_state accepts: new, confident, and certain.
Accepted(state, answers) ==
  {a \in answers : /\ a.id \notin PreviousItem(state, a.k).ids
                   /\ ~a.uncertain /\ a.confidence > 0}

\* Variant of IsCore: corrections count like formal answers.
EveryIsCore(a) == TRUE

IsCore(a) == a.class = "core"

\* build_knowledge_state
Accumulated(state, answers) ==
  LET accepted == Accepted(state, answers) IN
  [k \in Knowledge |->
     LET new  == About(accepted, k)
         core == {a \in new : IsCore(a)}
         old  == PreviousItem(state, k)
     IN [s     |-> old.s + SumOver(new, Earned),
         w     |-> old.w + SumOver(new, Weight),
         core  |-> old.core + Cardinality(core),
         coreW |-> old.coreW + SumOver(core, Weight),
         qs    |-> old.qs \cup {a.q : a \in core},
         ids   |-> old.ids \cup {a.id : a \in new},
         tags  |-> [t \in Tags |-> old.tags[t] + Cardinality({a \in new : t \in a.missing})]]]

MasteryScore(item) == (Unit * (Unit \div 2 + item.s)) \div (Unit + item.w)

Confidence(item) == Min({Unit, item.w \div 2})

\* _status: corrections alone never make a point known, two core answers do.
Status(item) ==
  LET m == MasteryScore(item) IN
  CASE item.w < 7000 -> "unassessed"
    [] item.w >= 7000 /\ m < Low -> "unmastered"
    [] /\ m >= High /\ item.w >= 15000
       /\ item.core >= 2 /\ item.coreW >= 14000 -> "known"
    [] /\ item.w >= 7000 /\ m >= Low
       /\ ~(m >= High /\ item.w >= 15000 /\ item.core >= 2 /\ item.coreW >= 14000)
       /\ \E t \in Tags : item.tags[t] >= 2 -> "confused"
    [] OTHER -> "partial_mastery"

StateStatus(state, k) == IF state = NoState THEN "none" ELSE Status(state[k])

Known(state) == {k \in Knowledge : StateStatus(state, k) = "known"}

InState(state) == {k \in Knowledge : StateStatus(state, k) \notin {"none", "unassessed"}}

\* _weak_projection
WeakProjection(state) ==
  [k \in {x \in InState(state) \ Known(state) : Confidence(state[x]) >= 3500} |->
     [level |-> Between(1, 5, Rounded((Unit - MasteryScore(state[k])) * 5, Unit)),
      type |-> Status(state[k]), ids |-> state[k].ids, reason |-> "cumulative"]]

BlindProjection(state) ==
  {k \in InState(state) : /\ Status(state[k]) = "unmastered"
                          /\ Confidence(state[k]) >= 5000}

-----------------------------------------------------------------------------
(* Ability scores (_ability_scores)                                        *)

\* How much of a score rests on evidence rather than on the background
Share(state) ==
  (85 * Min({4 * Unit, SumOver(InState(state), LAMBDA k : state[k].w)})) \div 400

AbilityScore(state, d) ==
  LET ks == {k \in InState(state) : AbilityWeights[k][d] > 0}
      W(k) == (AbilityWeights[k][d] * Confidence(state[k])) \div 100
      observed == SumOver(ks, LAMBDA k : MasteryScore(state[k]) * W(k)) \div SumOver(ks, W)
  IN IF ks = {} THEN [score |-> Prior, status |-> "insufficient_evidence"]
     ELSE [score |-> Between(0, 100, Rounded(observed * Share(state)
                                      + Prior * 100 * (Unit - Share(state)), Unit * 100)),
           status |-> IF Share(state) >= Unit \div 2 THEN "assessed" ELSE "provisional"]

Categories(ks) == {CategoryOf[k] : k \in ks}

Breadth(state) ==
  LET total == Cardinality(Knowledge)
      known == SumOver(InState(state), LAMBDA k :
                 (MasteryScore(state[k]) * Confidence(state[k])) \div Unit)
  IN Rounded((35 * Unit * Cardinality(InState(state))) \div total
             + (25 * Unit * Cardinality(Categories(InState(state))))
                 \div Cardinality(Categories(Knowledge))
             + (40 * known) \div total, Unit)

\* A batch on one knowledge point, or the first one, says nothing about the
\* speed of learning (_learning_speed_score).
LearningSpeed == 50

-----------------------------------------------------------------------------
(* project_analysis_with_knowledge_state                                   *)

NewCore(old, answers) == {a.k : a \in {x \in Accepted(old, answers) : IsCore(x)}}

\* Knowledge points whose evidence is enough and whose state changed
Changed(old, state, answers) ==
  {k \in NewCore(old, answers) :
     /\ Cardinality(state[k].qs) >= 2 /\ state[k].coreW >= 14000
     /\ \/ Status(state[k]) # StateStatus(old, k)
        \/ LET delta == MasteryScore(state[k]) - MasteryScore(PreviousItem(old, k))
           IN delta >= 500 \/ delta <= -500}

InitialBatch(old, answers, diagnostic) ==
  /\ old = NoState /\ diagnostic
  /\ Cardinality(Accepted(old, answers)) >= InitialMinimum

\* Dimensions that may move: two newly assessed points, five score points
ChangedAbility(old, scores, answers, ability) ==
  {d \in Dimensions :
     /\ Cardinality(NewCore(old, answers)) >= 2
     /\ scores[d].status = "assessed"
     /\ \/ scores[d].score - ability[d] >= MinimumEffectiveChange
        \/ ability[d] - scores[d].score >= MinimumEffectiveChange}

Broadened(old, state, answers) ==
  LET newly == {k \in NewCore(old, answers) : /\ k \in InState(state)
                                              /\ k \notin InState(old)}
  IN \/ Cardinality(newly) >= 2
     \/ Categories(newly) \ Categories(InState(old)) # {}

ProjectedType(scores, ability) ==
  LET dims == {"knowledge_breadth"} \cup
              {d \in Dimensions : scores[d].status # "insufficient_evidence"}
      mean == Average(ability, dims)
      practical == ability.practice >= ability.theory + 10 /\ ability.practice >= 60
  IN CASE practical -> "practice_oriented"
       [] ~practical /\ mean >= 85 -> "advanced"
       [] ~practical /\ mean >= 60 /\ mean < 85 -> "intermediate"
       [] OTHER -> "beginner"

\* The profile projected from the state: the scores that do not move are the
\* ones the agent proposed.
ProjectedProfile(analysed, state, scores, moved, broader) ==
  LET ability == [d \in DOMAIN analysed.ability |->
                    CASE d \in moved -> scores[d].score
                      [] d = "knowledge_breadth" /\ broader -> Breadth(state)
                      [] OTHER -> analysed.ability[d]]
  IN [analysed EXCEPT
        !.type = ProjectedType(scores, ability), !.ability = ability,
        !.weak = WeakProjection(state), !.blind = BlindProjection(state)]

\* The analysis of the agent with that profile projected into it, and whether
\* the evidence requires it.
Projected(analysed, old, state, answers, diagnostic) ==
  LET scores  == [theory |-> AbilityScore(state, "theory"),
                  practice |-> AbilityScore(state, "practice"),
                  problem_solving |-> AbilityScore(state, "problem_solving")]
      moved   == ChangedAbility(old, scores, answers, analysed.ability)
      broader == Broadened(old, state, answers)
  IN [required |-> /\ Accepted(old, answers) # {}
                   /\ \/ InitialBatch(old, answers, diagnostic)
                      \/ Changed(old, state, answers) # {}
                      \/ moved # {} \/ broader,
      profile |-> ProjectedProfile(analysed, state, scores, moved, broader)]
=============================================================================
