---------------------------- MODULE ProfileAnalysis ----------------------------
(***************************************************************************)
(* The deterministic profile analysis agent                                *)
(* (services/profile_analysis_service.py, profile_analysis_config.py): what *)
(* one batch of scored answers does to a learner's profile, and the plan a  *)
(* generation task retrieves by.                                           *)
(*                                                                         *)
(*   answer   [id, q, k, score, difficulty, confidence, uncertain, class,  *)
(*             missing], score and confidence in percent                   *)
(*   profile  [version, type, ability, weak, blind, ...]; weak maps a      *)
(*            knowledge point to [level, type, ids, reason]                *)
(*                                                                         *)
(* Masteries, weights and confidences are in units of 1/10000; a threshold  *)
(* is met by the truncated value exactly when it is met by the real one.   *)
(***************************************************************************)
EXTENDS Folding, Integers, FiniteSets, FiniteSetsExt, SequencesExt

CONSTANTS
  Knowledge,       \* the published knowledge points
  CategoryOf,      \* their categories
  PrerequisitesOf, \* their prerequisites, in order
  AbilityWeights   \* [knowledge -> [dimension -> percent]]

Unit == 10000

Dimensions == {"theory", "practice", "problem_solving"}

ASSUME CatalogAssumption ==
  /\ IsFiniteSet(Knowledge)
  /\ DOMAIN CategoryOf = Knowledge /\ DOMAIN PrerequisitesOf = Knowledge
  /\ \A k \in Knowledge :
       /\ PrerequisitesOf[k] \in Seq(Knowledge)
       /\ \A d \in Dimensions : AbilityWeights[k][d] \in 0..100

\* The policy of the domain (_profile_config): its defaults
Low == 4000
Middle == 6000
High == 8000
Baseline == [known |-> 90, partial_mastery |-> 70, confused |-> 50, unmastered |-> 20]
PriorMastery == 50
MinimumEffectiveChange == 5
MaxAbilityChange == 10
MaxLevelChange == 1
DefaultResults == 8
RemedialResults == 10
MaximumResults == 12

Between(low, high, x) == Max({low, Min({high, x})})

Rounded(x, y) == (2 * x + y) \div (2 * y)

\* The elements of S, those of a greater value first
Ranked(S, value) ==
  LET Best(T) == CHOOSE x \in T : \A y \in T : value[x] >= value[y]
      step == [s \in Seq(S) |-> [n \in Nat |-> Append(s, Best(S \ ToSet(s)))]]
  IN Folded(step, <<>>, [n \in 1..Cardinality(S) |-> n])

\* The sum of the values of f
Total(f) ==
  Folded([sum \in Int |-> [x \in DOMAIN f |-> sum + f[x]]], 0,
         Ranked(DOMAIN f, [x \in DOMAIN f |-> 0]))

SumOver(S, f(_)) == Total([x \in S |-> f(x)])

\* difficulty_weight and the confidence of an answer
Weight(a) == (100 + 15 * (a.difficulty - 3)) * a.confidence

Earned(a) == (a.score * Weight(a)) \div 100

About(answers, k) == {a \in answers : a.k = k}

Assessed(answers) == {a.k : a \in answers}

-----------------------------------------------------------------------------
(* The update of a profile                                                 *)

\* _calculate_mastery
Mastery(answers, k, weak) ==
  LET base   == IF k \in DOMAIN weak THEN Baseline[weak[k].type] ELSE PriorMastery
      mine   == About(answers, k)
      earned == 100 * base + SumOver(mine, Earned)
  IN (Unit * earned) \div (Unit + SumOver(mine, Weight))

\* _mastery_type
MasteryType(m) ==
  CASE m < Low -> "unmastered"
    [] m >= Low /\ m < Middle -> "confused"
    [] m >= Middle /\ m < High -> "partial_mastery"
    [] OTHER -> "known"

\* _bounded_weakness_level: a weakness moves one level at a time.
Level(m, k, weak) ==
  LET target == Between(1, 5, ((Unit - m) * 5 + Unit \div 2) \div Unit) IN
  IF k \notin DOMAIN weak THEN target
  ELSE Between(1, 5, weak[k].level
                       + Between(-MaxLevelChange, MaxLevelChange, target - weak[k].level))

\* _updated_profile: the weak knowledge points
WeakAfter(answers, weak) ==
  LET m == [k \in Assessed(answers) |-> Mastery(answers, k, weak)]
      stay == {k \in DOMAIN m : MasteryType(m[k]) # "known"}
  IN [k \in (DOMAIN weak \ DOMAIN m) \cup stay |->
        IF k \notin stay THEN weak[k]
        ELSE [level |-> Level(m[k], k, weak), type |-> MasteryType(m[k]),
              ids |-> {a.id : a \in About(answers, k)}, reason |-> "analysed"]]

\* _updated_ability_scores: at most MaxAbilityChange points at a time, and
\* nothing below MinimumEffectiveChange.
AbilityAfter(answers, weak, ability) ==
  LET Moved(d) ==
        LET ks == {k \in Assessed(answers) : AbilityWeights[k][d] > 0}
            target == Rounded(SumOver(ks, LAMBDA k : Mastery(answers, k, weak) * AbilityWeights[k][d]),
                              100 * SumOver(ks, LAMBDA k : AbilityWeights[k][d]))
            delta == IF ks = {} THEN 0
                     ELSE Between(-MaxAbilityChange, MaxAbilityChange, target - ability[d])
        IN IF delta \in -MinimumEffectiveChange + 1 .. MinimumEffectiveChange - 1
             THEN ability[d] ELSE Between(0, 100, ability[d] + delta)
  IN [d \in DOMAIN ability |-> IF d \in Dimensions THEN Moved(d) ELSE ability[d]]

Average(ability, dims) ==
  SumOver(dims, LAMBDA d : ability[d]) \div Max({1, Cardinality(dims)})

\* _profile_type
TypeAfter(answers, ability) ==
  LET mean == Average(ability, DOMAIN ability) IN
  CASE /\ Cardinality({CategoryOf[k] : k \in Assessed(answers)}) >= 3
       /\ ability.practice - ability.theory >= 10 /\ ability.practice >= 60
         -> "practice_oriented"
    [] mean < 60 -> "beginner"
    [] mean >= 85 -> "advanced"
    [] OTHER -> "intermediate"

\* analyze_profile, for the actions that may update a profile: the version
\* grows exactly when a dimension changed.
Updated(profile, answers, ability) ==
  [profile EXCEPT
     !.weak = WeakAfter(answers, @),
     !.blind = (@ \ Assessed(answers))
                 \cup {k \in Assessed(answers) : Mastery(answers, k, profile.weak) < Low},
     !.ability = ability, !.type = TypeAfter(answers, ability)]

Versioned(profile, next) ==
  IF next = profile THEN profile ELSE [next EXCEPT !.version = @ + 1]

Analyzed(profile, answers) ==
  IF answers = {} THEN profile
  ELSE Versioned(profile, Updated(profile, answers,
                                  AbilityAfter(answers, profile.weak, profile.ability)))

-----------------------------------------------------------------------------
(* The retrieval plan of a generation task                                 *)

\* _needs_generation
NeedsGeneration(action, trigger) ==
  /\ action \notin {"ask_follow_up", "no_change"}
  /\ \/ action \in {"explain", "challenge", "review", "regenerate"}
     \/ trigger = "initial_generation"

\* _prioritized_weak_knowledge: the weakest and surest first; the goal names
\* no knowledge point.
Prioritized(weak, answers) ==
  LET Surest(k) == Max({0} \cup {a.confidence : a \in {x \in answers : x.id \in weak[k].ids}})
  IN Ranked(DOMAIN weak, [k \in DOMAIN weak |-> weak[k].level * Surest(k)])

\* The strategy of _build_retrieval_plan
Strategy(profile, answers, action, mastered) ==
  LET first == Prioritized(profile.weak, answers) IN
  CASE action = "challenge" /\ mastered -> "challenge"
    [] /\ ~(action = "challenge" /\ mastered)
       /\ first # <<>>
       /\ \/ profile.weak[first[1]].level >= 4
          \/ profile.weak[first[1]].type \in {"unmastered", "confused"} -> "remedial"
    [] OTHER -> "consolidation"

Head20(s) == SubSeq(s, 1, Min({20, Len(s)}))

\* The knowledge points of the unit, or else the weak ones
Priority(profile, answers, unit) ==
  Head20(IF unit # <<>> THEN unit ELSE Prioritized(profile.weak, answers))

\* Prerequisites of the weak points among them
PlanPrerequisites(profile, priority) ==
  (UNION {ToSet(PrerequisitesOf[k]) : k \in DOMAIN profile.weak \cap ToSet(priority)})
    \ ToSet(priority)

\* _relevant_ability_score and the difficulty without a unit
Difficulty(profile, priority, strategy) ==
  LET w     == AbilityWeights[priority[1]]
      score == IF priority = <<>> THEN Average(profile.ability, DOMAIN profile.ability)
               ELSE profile.ability[CHOOSE d \in Dimensions :
                                      \A e \in Dimensions : w[d] >= w[e]]
      shift == [remedial |-> -1, consolidation |-> 0, challenge |-> 1][strategy]
  IN Between(1, 5, Between(1, 5, (score + 10) \div 20) + shift)

\* Variant of Results: the budget of the plan is not raised to what it needs.
ResultsAsConfigured(action, strategy, priority, prerequisites) ==
  IF action \in {"review", "regenerate"} THEN MaximumResults
  ELSE IF strategy = "remedial" /\ Len(priority) > 1 THEN RemedialResults
  ELSE DefaultResults

\* n_results of a package with a graded quiz
Results(action, strategy, priority, prerequisites) ==
  LET needed == Len(priority) + 6 + Min({3, Cardinality(prerequisites)})
                + (IF Len(priority) > 1 THEN 3 ELSE 1)
      base   == IF action \in {"review", "regenerate"} THEN MaximumResults
                ELSE IF strategy = "remedial" /\ Len(priority) > 1 THEN RemedialResults
                ELSE DefaultResults
  IN Min({MaximumResults, Max({base, needed})})

\* _build_retrieval_plan for unit, <<>> when the learner has none
Plan(profile, answers, unit, action, mastered) ==
  LET strategy == Strategy(profile, answers, action, mastered)
      priority == Priority(profile, answers, unit)
      before   == PlanPrerequisites(profile, priority)
  IN [strategy |-> strategy, priority |-> priority, prerequisites |-> before,
      difficulty |-> Difficulty(profile, priority, strategy),
      n_results |-> Results(action, strategy, priority, before)]
=============================================================================
