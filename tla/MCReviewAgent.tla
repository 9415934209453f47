----------------------------- MODULE MCReviewAgent -----------------------------
(* Small lectures and practice guides for ReviewAgent *)
EXTENDS ReviewAgent

mcKnowledgeOf == [c \in {"c1", "c2", "c3"} |-> IF c = "c3" THEN "k2" ELSE "k1"]
mcCapabilitiesOf == "c1" :> {"operation"} @@ "c2" :> {"expected_result"} @@ "c3" :> {}
mcPlace == "s1" :> 1 @@ "s2" :> 2
mcKinds == {"s1" :> "concept" @@ "s2" :> "misconception",
            "s1" :> "instruction" @@ "s2" :> "code"}
mcQuotedIn == [t \in {"a", "b", "filler", "none"} |-> IF t = "b" THEN {"c1"} ELSE {}]
mcCollections == {{"c1", "c2", "c3"}, {"c1", "c3"}}
mcExplicit == <<"k1">>
mcSymmetry == Permutations(Roles)
=============================================================================
