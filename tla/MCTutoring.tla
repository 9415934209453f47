----------------------------- MODULE MCTutoring -----------------------------
(* Tutoring with messages that reach every rule of the policy that matters   *)
(* to later turns.                                                           *)
EXTENDS Tutoring

Message(says, again, intent, answered) ==
  [says |-> says, again |-> again, controlled |-> FALSE, intent |-> intent,
   confident |-> TRUE, reply |-> TRUE, basis |-> "resource_context", answered |-> answered]

mcMessages ==
  { Message("none", FALSE, "incorrect", TRUE),
    Message("too_hard", TRUE, "too_hard", TRUE),
    Message("too_easy", FALSE, "too_easy", TRUE),
    Message("too_easy", FALSE, "too_easy", FALSE) }
=============================================================================
