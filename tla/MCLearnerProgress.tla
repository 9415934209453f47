-------------------------- MODULE MCLearnerProgress --------------------------
(* A domain of four knowledge points whose recommendation leaves out k0, in *)
(* the units <<k1, k2>> and <<k3>>, each with a quiz question and a mastery *)
(* question on its core.                                                    *)
EXTENDS LearnerProgress

mcKnowledgeOf  == [q1 |-> "k1", m1 |-> "k1", q3 |-> "k3", m3 |-> "k3"]
mcRecommended  == <<"k1", "k2", "k3">>
mcRelations    == {<<"k1", "k2">>, <<"k2", "k3">>}
mcTagsOf       == [k \in {"k0", "k1", "k2", "k3"} |->
                     IF k = "k2" THEN {"t2"} ELSE {"t1"}]

\* One document names k0 in its text on k3 as something k3 depends on, in
\* another category; one states that k1 requires k0, though k1 is easier;
\* one states that k1 requires k3, which closes a cycle.
Document(order, topic, stated, cues) ==
  [order |-> order, topic |-> topic,
   tags |-> [k \in ToSet(order) |-> mcTagsOf[k]],
   stated |-> stated, cues |-> cues, models |-> TRUE]

mcDocuments ==
  {Document(<<"k0", "k3">>, [k \in {"k0", "k3"} |-> k], {}, {<<"k3", "k0">>}),
   Document(<<"k1", "k0">>, [k \in {"k0", "k1"} |-> "k1"], {<<"k0", "k1">>}, {}),
   Document(<<"k1", "k3">>, [k \in {"k1", "k3"} |-> "k1"], {<<"k3", "k1">>}, {})}

\* The second closes a cycle.
mcRewrites == {[item |-> "k3", needs |-> {"k0"}], [item |-> "k2", needs |-> {"k3"}]}

Answer(q, kind, src, gov) == [Record(q, kind, src, TRUE) EXCEPT !.gov = gov]

Quiz(task, q) == [task |-> task, status |-> "completed",
                  answers |-> [x \in {q} |-> "right"]]

\* The quiz of the first unit is done, after one wrong answer.
Quizzed ==
  [Begun EXCEPT
     !.quizzes  = <<Quiz(1, "q1")>>,
     !.mistakes = <<NewMistake(1, "q1")>>,
     !.records  = <<Answer("q1", "graded_quiz", 1, "pending")>>]

\* The first unit is completed and the quiz of the second is done, after
\* one wrong answer; the mastery check on k1 was requested by the learner.
SecondUnit ==
  LET path == Advance(Begun.path, <<"k1", "k2">>, Relations) IN
  [Begun EXCEPT
     !.path     = path,
     !.quizzes  = <<Quiz(1, "q1"), Quiz(2, "q3")>>,
     !.mistakes = <<NewMistake(2, "q3")>>,
     !.records  = <<Answer("q1", "graded_quiz", 1, "none"),
                    Answer("m1", "path_validation", 1, "none"),
                    Answer("q3", "graded_quiz", 2, "pending")>>,
     !.profiles = <<[prev |-> 0, counted |-> <<1, 2>>]>>,
     !.props    = <<[Proposal(Begun, "mastery_up", "m1", "evidence_recorded")
                       EXCEPT !.target = <<>>]>>,
     !.tasks    = Append(@, [node |-> <<"k3">>, row |-> 1, prop |-> 0,
                             status |-> "completed", quiz |-> {"q3"}])]

mcLater == {Quizzed, SecondUnit}
=============================================================================
