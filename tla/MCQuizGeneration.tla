--------------------------- MODULE MCQuizGeneration ---------------------------
(* Two targets with quiz questions of difficulty around 3 or far from it, *)
(* one incomplete and one that relates to the other target.               *)
EXTENDS QuizGeneration

Quiz(id, about, difficulty, type) ==
  [id |-> id, about |-> about, related |-> {}, use |-> "graded_quiz",
   difficulty |-> difficulty, level |-> "foundation", type |-> type, whole |-> TRUE]

Reserve(id, about, use) == [Quiz(id, about, 3, "single_choice") EXCEPT !.use = use]

mcReserved ==
  { Reserve(20, "k1", "diagnosis"), Reserve(21, "k1", "mastery_validation"),
    Reserve(22, "k1", "mastery_validation"), Reserve(23, "k2", "diagnosis"),
    Reserve(24, "k2", "mastery_validation"), Reserve(25, "k2", "mastery_validation") }

mcQuestions ==
  mcReserved \cup
  { Quiz(1, "k1", 3, "single_choice"), Quiz(2, "k1", 3, "short_answer"),
    Quiz(3, "k1", 2, "single_choice"), [Quiz(4, "k1", 3, "single_choice") EXCEPT !.related = {"k2"}],
    Quiz(5, "k2", 3, "single_choice"), Quiz(6, "k2", 4, "single_choice"),
    [Quiz(7, "k2", 5, "short_answer") EXCEPT !.level = "challenge"],
    [Quiz(8, "k2", 3, "single_choice") EXCEPT !.whole = FALSE],
    Quiz(9, "k1", 3, "single_choice") }

\* At most one question is away, or only the few named are there.
mcBanks ==
  {mcQuestions \ {q} : q \in mcQuestions} \cup
  {mcReserved \cup {q \in mcQuestions : q.id \in few} :
     few \in {{1, 5}, {1, 2, 3}, {4, 8, 9}, {1, 7, 9}, {1, 2, 3, 5, 6, 7}, {1, 2, 3, 9, 5, 6, 7}}}
=============================================================================
