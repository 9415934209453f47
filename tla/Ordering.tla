------------------------------- MODULE Ordering -------------------------------
(***************************************************************************)
(* Lists that keep an order: a part of a list, and the lists of a list one *)
(* after another.                                                          *)
(***************************************************************************)
EXTENDS Naturals, Sequences, FiniteSets

\* What is at the positions S of a list, in its order.
Picked(s, S) ==
  LET upTo[n \in 0..Len(s)] == IF n = 0 THEN <<>>
                               ELSE IF n \in S THEN Append(upTo[n - 1], s[n])
                               ELSE upTo[n - 1]
  IN upTo[Len(s)]

\* Lists one after another.
Joined(lists) ==
  LET upTo[n \in 0..Len(lists)] == IF n = 0 THEN <<>> ELSE upTo[n - 1] \o lists[n]
  IN upTo[Len(lists)]
=============================================================================
