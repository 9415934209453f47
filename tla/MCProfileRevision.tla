--------------------------- MODULE MCProfileRevision ---------------------------
(* Six knowledge points in three categories, with questions on two of them;  *)
(* k1 is a prerequisite of k2.                                               *)
EXTENDS ProfileRevision

mcKnowledge == {"k1", "k2", "k3", "k4", "k5", "k6"}
mcCategoryOf == [k \in mcKnowledge |->
  IF k \in {"k1", "k3"} THEN "models" ELSE IF k = "k2" THEN "retrieval" ELSE "agents"]
mcPrerequisitesOf == [k \in mcKnowledge |-> IF k = "k2" THEN <<"k1">> ELSE <<>>]
mcAbilityWeights == [k \in mcKnowledge |->
  IF k = "k1" THEN [theory |-> 60, practice |-> 0, problem_solving |-> 20]
              ELSE [theory |-> 20, practice |-> 40, problem_solving |-> 20]]
mcKnowledgeOf == [d1 |-> "k1", d2 |-> "k1", d3 |-> "k2", d4 |-> "k2",
                  q1 |-> "k1", q2 |-> "k2", m1 |-> "k1", m2 |-> "k2"]
mcDifficultyOf == [d1 |-> 2, d2 |-> 3, d3 |-> 3, d4 |-> 4,
                   q1 |-> 3, q2 |-> 3, m1 |-> 3, m2 |-> 3]
mcUnits == {<<>>, <<"k1", "k2", "k3">>, <<"k1", "k2", "k3", "k4", "k5", "k6">>}
=============================================================================
