------------------------------- MODULE Folding -------------------------------
(***************************************************************************)
(* A loop over a list, as the selections of chunks and of questions have   *)
(* them: `step` is a function of what was built so far and of the next     *)
(* element, so that what every such loop keeps can be stated as one fact.  *)
(***************************************************************************)
EXTENDS Naturals, Sequences

Folded(step, base, seq) ==
  LET upTo[n \in 0..Len(seq)] == IF n = 0 THEN base ELSE step[upTo[n - 1]][seq[n]]
  IN upTo[Len(seq)]
=============================================================================
