--------------------------- MODULE TutoringPolicy ---------------------------
(***************************************************************************)
(* What one message of a learner is taken to mean and what is done about   *)
(* it: the tutoring agent (agents/tutoring_agent.py) over the policy       *)
(* (services/tutoring_policy.py), as the tutoring service calls them: no   *)
(* quick tag is ever passed on.  A message is a record                     *)
(*   says        the phrase it contains: "too_hard", "too_easy" or "none"  *)
(*   again       it says that a difficulty remains                         *)
(*   controlled  it comes with confirmed scored evidence                   *)
(*   intent      what the model makes of it, "none" when it names none     *)
(*   confident   the model's confidence reaches the threshold              *)
(*   reply       the model answers it                                      *)
(*   basis       what the model says its answer rests on                   *)
(*   answered    FALSE when the model fails or breaks off                  *)
(***************************************************************************)
EXTENDS Naturals, Sequences

Intents == {"incorrect", "too_hard", "confusing", "too_easy", "helpful", "other", "none"}
Actions == {"review", "explain", "challenge", "ask_follow_up", "no_change"}

DifficultyIntents == {"too_hard", "confusing"}

\* Bases on which nothing is concluded about the learner.
Unfounded == {"general_knowledge_fallback", "knowledge_conflict"}

\* _safe_fallback_semantics: only an explicit phrase is understood.
FallbackSemantics(m) ==
  [intent     |-> m.says,
   unresolved |-> m.says = "too_hard" /\ m.again,
   confident  |-> m.says # "none",
   reply      |-> FALSE,
   basis      |-> "resource_context",
   fallback   |-> TRUE]

\* _interpret_safely and the same in stream_execute
Semantics(m) ==
  IF m.answered
  THEN [intent |-> m.intent, unresolved |-> m.again, confident |-> m.confident,
        reply |-> m.reply, basis |-> m.basis, fallback |-> FALSE]
  ELSE FallbackSemantics(m)

\* _same_difficulty_remains_unresolved
RemainsUnresolved(s, n, previous) ==
  n >= 2 /\ s.intent \in previous /\ s.unresolved

\* decide_tutoring_action: the first rule that applies, in the n-th turn of a
\* session in which the feedback of earlier turns had the intents of previous.
Rules(m, n, previous) ==
  LET s == Semantics(m)
      rule(when, intent, action) == [when |-> when, intent |-> intent, action |-> action]
  IN  << rule(s.intent = "incorrect", "incorrect", "review"),
         rule(m.says = "too_hard" /\ n = 1, "too_hard", "no_change"),
         rule(s.intent = "none" /\ s.confident /\ s.reply, "other", "no_change"),
         rule(s.intent = "none" \/ ~s.confident, "other", "ask_follow_up"),
         rule(s.intent \in DifficultyIntents /\ RemainsUnresolved(s, n, previous),
              s.intent, "explain"),
         rule(s.intent \in DifficultyIntents, s.intent, "no_change"),
         rule(s.intent = "too_easy" /\ m.controlled, "too_easy", "challenge"),
         rule(s.intent = "too_easy", "too_easy", "ask_follow_up"),
         rule(s.intent = "helpful", "helpful", "no_change"),
         rule(s.intent = "other" /\ s.reply, "other", "no_change"),
         rule(TRUE, "other", "ask_follow_up") >>

Decision(m, n, previous) ==
  Head(SelectSeq(Rules(m, n, previous), LAMBDA rule : rule.when))

\* add_learner_message: the turn may be looked at for evidence at all.
Founded(m) == LET s == Semantics(m) IN ~s.fallback /\ s.basis \notin Unfounded

EvidenceStatus(m, intent) ==
  IF intent \in {"too_easy", "too_hard"} /\ Founded(m) THEN "eligible" ELSE "supporting_only"
=============================================================================
