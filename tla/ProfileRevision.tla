---------------------------- MODULE ProfileRevision ----------------------------
(***************************************************************************)
(* The revisions of one learner's profile: the initial diagnosis           *)
(* (diagnostic_service), mastery checks (learning_adjustment_service) and  *)
(* corrected mistakes (mistake_evidence_service) each hand a batch of      *)
(* answers to the analysis, whose outcome becomes the next profile         *)
(* (profile_revision_service) or is kept in the state behind the current   *)
(* one.  Requests are one at a time here; LearnerProgress overlaps them.   *)
(***************************************************************************)
EXTENDS KnowledgeState

CONSTANTS
  Questions,       \* the formal question bank
  KnowledgeOf,     \* the knowledge point of each question
  DifficultyOf,
  DiagnosticBank,  \* questions of the diagnosis
  ShortAnswers,    \* those of them a model scores
  QuizBank,        \* graded quiz questions
  CheckBank,       \* mastery validation questions
  AtTarget,        \* questions at the unit's target difficulty
  Units,           \* units a generation task may be created for
  MaxAnswers       \* bound: answers after the diagnosis

VARIABLES
  profile,   \* the latest LearnerProfile; formed: diagnosis_completed
  answers,   \* AnswerRecords after the diagnosis: [q, kind, ok, gov, by]
  mistakes,  \* questions with a mistake item
  diagnosis, \* history: the results the profile was formed by
  dropped    \* history: the answers of each analysis of which nothing was stored

profileVars == <<profile, answers, mistakes, diagnosis, dropped>>

\* A question has one purpose (question_bank_uses).
ASSUME QuestionAssumption ==
  /\ DOMAIN KnowledgeOf = Questions /\ DOMAIN DifficultyOf = Questions
  /\ \A q \in Questions : KnowledgeOf[q] \in Knowledge /\ DifficultyOf[q] \in 1..5
  /\ IsFiniteSet(DiagnosticBank)
  /\ DiagnosticBank \cup QuizBank \cup CheckBank \subseteq Questions
  /\ ShortAnswers \subseteq DiagnosticBank

ASSUME UnitsAssumption == Units \subseteq Seq(Knowledge)

\* The state keeps the last 20 answers to a knowledge point, here all of them.
ASSUME MemoryAssumption == Cardinality(DiagnosticBank) + MaxAnswers <= 20

\* default_profile_for_learner
DefaultProfile ==
  [version |-> 1, type |-> "beginner", formed |-> FALSE,
   ability |-> [d \in Dimensions \cup {"knowledge_breadth", "learning_speed"} |->
                  IF d = "learning_speed" THEN 50 ELSE 55],
   weak |-> [k \in {} |-> 0], blind |-> {}, state |-> NoState]

ProfileInit ==
  /\ profile = DefaultProfile
  /\ answers = <<>> /\ mistakes = {} /\ diagnosis = <<>> /\ dropped = {}

-----------------------------------------------------------------------------
\* The evidence submit_diagnostic_session builds: an unsure score is certain
\* to nobody, a wrong short answer names what it confuses.
Diagnosed(q, result) ==
  [id |-> <<q, 0>>, q |-> <<q, 0>>, k |-> KnowledgeOf[q],
   score |-> IF result = "right" THEN 100 ELSE IF result = "unsure" THEN 50 ELSE 0,
   difficulty |-> DifficultyOf[q],
   confidence |-> IF q \in ShortAnswers THEN 80 ELSE 100,
   uncertain |-> result = "unsure", class |-> "core",
   missing |-> IF q \in ShortAnswers /\ result # "right" THEN Tags ELSE {}]

\* The diagnosis: a profile is formed when the projection requires it, and
\* nothing is kept of the analysis otherwise.
Form(results, state, next) ==
  /\ profile' = IF next.required THEN [next.profile EXCEPT !.state = state, !.formed = TRUE]
                ELSE profile
  /\ diagnosis' = IF next.required THEN results ELSE diagnosis

Diagnose(results) ==
  LET batch == {Diagnosed(q, results[q]) : q \in DiagnosticBank}
      state == Accumulated(profile.state, batch)
  IN /\ ~profile.formed
     /\ Form(results, state,
             Projected(Analyzed(profile, batch), profile.state, state, batch, TRUE))
     /\ mistakes' = mistakes \cup {q \in DiagnosticBank : results[q] # "right"}
     /\ UNCHANGED <<answers, dropped>>

\* The evidence _analyze_profile builds of answer i
Evidence(ans, i) ==
  [id |-> <<ans[i].q, i>>, q |-> <<ans[i].q, 0>>, k |-> KnowledgeOf[ans[i].q],
   score |-> IF ans[i].ok THEN 100 ELSE 0, difficulty |-> DifficultyOf[ans[i].q],
   confidence |-> 90, uncertain |-> FALSE,
   class |-> IF ans[i].kind = "mistake_correction" THEN "auxiliary" ELSE "core",
   missing |-> {}]

\* Variant of Persisted: without a revision nothing is written.
PersistedIfRevised(p, next, state) ==
  IF next.required /\ next.profile.version > p.version
    THEN [next.profile EXCEPT !.state = state] ELSE p

\* The end of _analyze_profile and persist_profile_revision: a revision that
\* does not raise the version is refused, and the state that came with it is
\* stored in neither profile.
Persisted(p, next, state) ==
  CASE ~next.required -> [p EXCEPT !.state = state]
    [] next.required /\ next.profile.version <= p.version -> p
    [] OTHER -> [next.profile EXCEPT !.state = state]

\* What the answers ids note: gov is the note of the mistake evidence when
\* the profile did and did not change.
Noted(ans, ids, gov, p, fresh) ==
  [i \in DOMAIN ans |->
     IF i \notin ids THEN ans[i]
     ELSE [ans[i] EXCEPT
             !.gov = IF gov = <<>> THEN @ ELSE gov[IF p.version # profile.version THEN 1 ELSE 2],
             !.by = IF p.version # profile.version /\ i \in fresh THEN p.version ELSE @]]

Store(ans, ids, gov, p, required, fresh) ==
  /\ profile' = p
  /\ answers' = Noted(ans, ids, gov, p, fresh)
  /\ dropped' = IF required /\ p = profile THEN dropped \cup {ids} ELSE dropped
  /\ UNCHANGED diagnosis

Revise(ans, ids, gov, state, next, fresh) ==
  Store(ans, ids, gov, Persisted(profile, next, state), next.required, fresh)

\* _analyze_profile on the answers ids of ans
Analyse(ans, ids, gov) ==
  LET batch == {Evidence(ans, i) : i \in ids}
      state == Accumulated(profile.state, batch)
  IN Revise(ans, ids, gov, state,
            Projected(Analyzed(profile, batch), profile.state, state, batch, FALSE),
            {a.id[2] : a \in Accepted(profile.state, batch)})

Keep(ans) == answers' = ans /\ UNCHANGED <<profile, diagnosis, dropped>>

Answered(q, kind, ok) ==
  Append(answers, [q |-> q, kind |-> kind, ok |-> ok, gov |-> "none", by |-> 0])

Formal(a) == a.kind \in {"graded_quiz", "path_validation"}

\* The first right formal answer to each question on k
Positive(ans, k) ==
  {i \in DOMAIN ans :
     /\ Formal(ans[i]) /\ ans[i].ok /\ KnowledgeOf[ans[i].q] = k
     /\ \A j \in 1..(i - 1) : ~(ans[j].q = ans[i].q /\ Formal(ans[j]) /\ ans[j].ok)}

\* mastery_evidence_ready of answer_adjustment_assessment
Ready(ans, k) ==
  LET right == Positive(ans, k) IN
  /\ Cardinality(right) >= 2
  /\ \E i \in right : ans[i].kind = "path_validation"
  /\ \E i \in right : ans[i].q \in AtTarget

\* A mastery check on a question the learner has not met.  A wrong answer is
\* analysed when support was presumed, a right one when mastery was and the
\* evidence on its knowledge point is complete.
Check(q, hypothesis, ok) ==
  LET ans == Answered(q, "path_validation", ok)
      k   == KnowledgeOf[q] IN
  /\ profile.formed /\ Len(answers) < MaxAnswers
  /\ \A i \in DOMAIN answers : answers[i].q # q
  /\ IF ok = (hypothesis = "mastery_up") /\ (ok => Ready(ans, k))
       THEN Analyse(ans, IF ok THEN Positive(ans, k) ELSE {Len(ans)}, <<>>)
       ELSE Keep(ans)
  /\ UNCHANGED mistakes

\* _eligible_records: the latest answer to each question on k that no
\* profile used up and no evaluation closed
Eligible(ans, k) ==
  LET open == {i \in DOMAIN ans : /\ KnowledgeOf[ans[i].q] = k
                                 /\ ans[i].by = 0 /\ ans[i].gov # "no_change"}
  IN {i \in open : \A j \in open : ans[j].q = ans[i].q => j <= i}

\* evaluate_mistake_evidence of the last answer: two answers, one of them a
\* correction, are analysed; until then it waits.
Evaluate(ans) ==
  LET ids == Eligible(ans, KnowledgeOf[ans[Len(ans)].q]) IN
  IF Cardinality(ids) >= 2 /\ \E i \in ids : ans[i].kind = "mistake_correction"
    THEN Analyse(ans, ids, <<"consumed", "no_change">>)
    ELSE Keep([ans EXCEPT ![Len(ans)].gov = "pending"])

\* An answer of a completed quiz, of which several may hold the question; it is
\* evaluated when its knowledge point has a mistake.
Quiz(q, ok) ==
  LET ans == Answered(q, "graded_quiz", ok)
      items == mistakes \cup (IF ok THEN {} ELSE {q}) IN
  /\ profile.formed /\ Len(answers) < MaxAnswers
  /\ mistakes' = items
  /\ IF KnowledgeOf[q] \in {KnowledgeOf[x] : x \in items} THEN Evaluate(ans) ELSE Keep(ans)

\* The answer of a correction attempt
Correct(q, ok) ==
  /\ profile.formed /\ Len(answers) < MaxAnswers
  /\ q \in mistakes
  /\ Evaluate(Answered(q, "mistake_correction", ok))
  /\ UNCHANGED mistakes

ProfileNext ==
  \/ \E results \in [DiagnosticBank -> {"right", "wrong", "unsure"}] :
       /\ \A q \in DiagnosticBank \ ShortAnswers : results[q] # "unsure"
       /\ Diagnose(results)
  \/ \E q \in CheckBank, h \in {"mastery_up", "support_down"}, ok \in BOOLEAN : Check(q, h, ok)
  \/ \E q \in QuizBank, ok \in BOOLEAN : Quiz(q, ok)
  \/ \E q \in mistakes, ok \in BOOLEAN : Correct(q, ok)

ProfileSpec == ProfileInit /\ [][ProfileNext]_profileVars

-----------------------------------------------------------------------------
(* Properties                                                              *)

\* What was answered is not forgotten: an answer a profile used up or an
\* evaluation closed is in the knowledge state, in which the next evidence
\* builds on it.  The code drops an analysis whose revision the agent did not
\* count as one, and a wrong answer with it only when at least four right ones
\* on the point outweigh it.
AnswersKept ==
  \A i \in DOMAIN answers :
    answers[i].by # 0 \/ answers[i].gov \in {"consumed", "no_change"} =>
      \/ <<answers[i].q, i>> \in profile.state[KnowledgeOf[answers[i].q]].ids
      \/ \E batch \in dropped :
           /\ i \in batch
           /\ answers[i].ok \/ Cardinality({j \in batch : answers[j].ok}) >= 4

\* What the answer x was, as the knowledge state names it
FormalId(x) == x[2] = 0 \/ Formal(answers[x[2]])
RightId(x)  == IF x[2] = 0 THEN diagnosis[x[1]] = "right" ELSE answers[x[2]].ok

\* Mastery rests on independent formal answers: however often mistakes were
\* corrected, a known point has two different answers of the diagnosis, a quiz
\* or a check, none of them counted twice, and two right ones.
KnownByFormalAnswers ==
  \A k \in Known(profile.state) :
    LET ids == profile.state[k].ids IN
    /\ Cardinality({x \in ids : FormalId(x)}) >= 2
    /\ Cardinality({x \in ids : RightId(x)}) >= 2

\* The plan of a package has room for every knowledge point of its unit and
\* the six questions of its quiz, up to the six points a unit may hold.
PlanHasRoom ==
  \A unit \in Units, action \in {"explain", "review"} :
    LET plan == Plan(profile, {}, unit, action, FALSE) IN
    Len(plan.priority) <= 6 => plan.n_results >= Len(plan.priority) + 6
=============================================================================
