------------------------------ MODULE GradedQuiz ------------------------------
(***************************************************************************)
(* How a graded quiz is put together from the formal question bank, judged *)
(* and revised (services/question_bank_service.py, rag/retrieval.py,       *)
(* agents/generation_agent.py, agents/review_agent.py).  A question is     *)
(*   id          its number                                                *)
(*   about       its knowledge point                                       *)
(*   related     further knowledge points                                  *)
(*   use         "graded_quiz", "diagnosis" or "mastery_validation"        *)
(*   difficulty  1..5                                                      *)
(*   level       "foundation", "improvement" or "challenge"                *)
(*   type        "single_choice" or "short_answer"                         *)
(*   whole       its options, answer, rubric and explanation are complete  *)
(* A need is what a quiz is asked to be: [targets, focus, difficulty,      *)
(* profile].                                                               *)
(***************************************************************************)
EXTENDS Folding, FiniteSets, SequencesExt

\* MIN_QUIZ_QUESTIONS_PER_KNOWLEDGE, MIN_MASTERY_QUESTIONS_PER_KNOWLEDGE
Least == [diagnosis |-> 1, graded_quiz |-> 3, mastery_validation |-> 2]

\* question_bank_coverage: the bank is sufficient for a knowledge point.
Prepared(bank, k) ==
  \A use \in DOMAIN Least :
    Cardinality({q \in bank : q.about = k /\ q.whole /\ q.use = use}) >= Least[use]

\* A ready domain: sufficient for all its knowledge, and nothing incomplete.
BankReady(bank, knowledge) ==
  /\ \A k \in knowledge : Prepared(bank, k)
  /\ \A q \in bank : q.whole

\* is_question_bank_eligible, question_supports_use
Eligible(q) == q.whole /\ q.use = "graded_quiz"

Scope(q) == {q.about} \cup q.related

Touches(q, targets) == Scope(q) \cap targets # {}

Shortest == 3
Longest  == 8

\* expected_quiz_question_count
Desired(targets) ==
  LET n == Cardinality(targets) + 2 IN
  IF n < Shortest THEN Shortest ELSE IF n > Longest THEN Longest ELSE n

Apart(a, b) == IF a < b THEN b - a ELSE a - b

\* graded_quiz_difficulty_matches
Matches(q, need) == Apart(q.difficulty, need.difficulty) <= 2

\* _profile_level_score
LevelScore(profile, level) ==
  CASE profile = "beginner" -> [foundation |-> 3, improvement |-> 1, challenge |-> 0][level]
    [] profile = "advanced" -> [foundation |-> 0, improvement |-> 2, challenge |-> 3][level]
    [] profile = "practice_oriented" ->
         [foundation |-> 2, improvement |-> 3, challenge |-> 1][level]
    [] OTHER -> [foundation |-> 1, improvement |-> 3, challenge |-> 1][level]

-----------------------------------------------------------------------------
(* Selection                                                               *)

CoveredBy(questions) == UNION {Scope(q) : q \in Range(questions)}

\* How a candidate is ranked behind the questions chosen so far, the most
\* important criterion first.
Rank(q, chosen, need) ==
  << IF q.about \in need.targets THEN 30 ELSE 10,
     IF q.about \in need.focus THEN 8 ELSE IF q.related \cap need.focus # {} THEN 3 ELSE 0,
     4 - Apart(q.difficulty, need.difficulty),
     IF (Scope(q) \cap need.targets) \subseteq CoveredBy(chosen) THEN 0 ELSE 1,
     IF q.type \in {p.type : p \in Range(chosen)} THEN 0 ELSE 1,
     LevelScore(need.profile, q.level),
     Longest - Cardinality(q.related),
     q.id >>

Above(a, b) == \E i \in DOMAIN a : a[i] > b[i] /\ \A j \in 1..(i - 1) : a[j] = b[j]

Best(pool, chosen, need) ==
  CHOOSE q \in pool : \A p \in pool \ {q} : Above(Rank(q, chosen, need), Rank(p, chosen, need))

\* select_from: the best candidates one after another, up to a length
Extended(chosen, pool, length, need) ==
  LET questions == Range(chosen) \cup pool IN
  Folded([some \in Seq(questions) |-> [i \in 1..length |->
            IF Len(some) >= length \/ pool \subseteq Range(some) THEN some
            ELSE Append(some, Best(pool \ Range(some), some, need))]],
         chosen, [i \in 1..length |-> i])

\* select_graded_quiz_candidates: questions of another difficulty only to reach
\* the shortest quiz.
Selected(candidates, need, excluded) ==
  LET pool     == {q \in candidates \ excluded : Touches(q, need.targets)}
      standard == {q \in pool : Matches(q, need)}
      chosen   == Extended(<<>>, standard, Desired(need.targets), need)
  IN IF Len(chosen) >= Shortest THEN chosen
     ELSE Extended(chosen, pool \ standard, Shortest, need)

\* Variant of Preflight: it is enough that the bank once was sufficient.
PreflightByCoverage(bank, need) ==
  \A k \in need.targets : \E q \in bank : q.about = k

\* graded_quiz_preflight: the quiz can be made, and each target has a question.
Preflight(bank, need) ==
  LET eligible == {q \in bank : Eligible(q)} IN
  /\ Len(Selected(eligible, need, {})) >= Shortest
  /\ need.targets \subseteq {q.about : q \in eligible}

Failed == <<>>

OrFailed(questions) == IF Len(questions) < Shortest THEN Failed ELSE questions

\* _assemble_output: the reference questions of a retrieval; rejected positions
\* are looked up in a selection made now, and what they hold is left out.
Offered(bank, need, rejected) ==
  LET pool     == {q \in bank : Eligible(q)}
      fresh    == OrFailed(Selected(pool, need, {}))
      excluded == {fresh[i] : i \in rejected \cap DOMAIN fresh}
  IN IF fresh = Failed \/ rejected = {} THEN fresh
     ELSE OrFailed(Selected(pool, need, excluded))

\* _question_evidence_records: a question without current evidence is dropped.
\* The evidence is the set of knowledge points with chunks.
Supported(questions, evidence) ==
  Folded([some \in Seq(Range(questions)) |-> [q \in Range(questions) |->
            IF Scope(q) \cap evidence = {} THEN some ELSE Append(some, q)]],
         <<>>, questions)

-----------------------------------------------------------------------------
(* Generation                                                              *)

\* build_graded_quiz_from_question_bank
Built(references, need, excluded) ==
  OrFailed(Selected(Range(references), need, excluded))

\* revise_graded_quiz_from_question_bank: the rejected positions, in order, get
\* the best references that are not in the quiz.
Revised(previous, references, need, rejected) ==
  LET spare == Selected(Range(references), need, Range(previous))
      Nth(i) == Cardinality({j \in rejected : j <= i})
  IN IF Len(spare) < Cardinality(rejected) THEN Failed
     ELSE [i \in DOMAIN previous |-> IF i \in rejected THEN spare[Nth(i)] ELSE previous[i]]

\* _build_quiz_questions: each question cites evidence about it.
Sourced(quiz, evidence) == \A q \in Range(quiz) : Scope(q) \cap evidence # {}

\* Variant of OnBlueprint: kept questions are not compared.
OnAnyBlueprint(quiz, references) == TRUE

\* _quiz_blueprint_for_content, _quiz_blueprint_violations
OnBlueprint(quiz, references) == Range(quiz) \subseteq Range(references)

-----------------------------------------------------------------------------
(* Review                                                                  *)

MissingFrom(quiz, targets) == targets \ CoveredBy(quiz)

\* _review_certified_quiz: positions with a fault are rejected; when only a
\* target is missing, the first one stands for the whole quiz.
Verdict(quiz, targets, evidence) ==
  LET proper  == Len(quiz) \in Shortest..Longest /\ Cardinality(Range(quiz)) = Len(quiz)
      faulty  == {i \in DOMAIN quiz :
                    ~(proper /\ Sourced(<<quiz[i]>>, evidence) /\ Touches(quiz[i], targets))}
      missing == MissingFrom(quiz, targets)
  IN [passed   |-> faulty = {} /\ missing = {},
      rejected |-> IF faulty = {} /\ missing # {} THEN {1} ELSE faulty]
=============================================================================
