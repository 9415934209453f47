--------------------------- MODULE LearnerProgress ---------------------------
(***************************************************************************)
(* How one learner moves along a learning path: graded quizzes, mastery    *)
(* checks, mistake correction, the gate of the current unit, profile       *)
(* revisions and the decisions on adapted resources.                       *)
(*                                                                         *)
(* Every request of the API is one transaction.  Its plain reads see the   *)
(* snapshot of its first read (MySQL REPEATABLE READ; get_current_user     *)
(* reads the user before the handler starts), its SELECT ... FOR UPDATE    *)
(* reads see the committed rows.  A handler is therefore an operator of    *)
(*   s   the committed tables, on which it writes                          *)
(*   v   the view it reads from: s itself, or the tables before the last   *)
(*       commit, when the request had started before it                    *)
(* and the tables are the fields of the variable db:                       *)
(*   rel       prerequisite relations of the domain                        *)
(*   bank      active questions                                            *)
(*   path      the learner's path (LearningPath), row: number of the row   *)
(*   profiles  [prev, counted]; counted: records in the knowledge state    *)
(*   records   AnswerRecord: [q, kind, src, ok, gov, by]                   *)
(*   quizzes   ResourceQuizAttempt: [task, status, answers]                *)
(*   mistakes  MistakeReviewItem: [kind, src, q, status]                   *)
(*   tries     MistakeReviewAttempt: [item, status]                        *)
(*   props     LearningAdjustmentProposal with its PathNodeAssessment      *)
(*   signals   eligible tutoring feedback of the current package           *)
(*   tasks     GenerationTask: [node, row, status, quiz, prop]             *)
(***************************************************************************)
EXTENDS LearningPath, KnowledgeGraph, Functions

CONSTANTS
  Questions,      \* the formal question bank
  KnowledgeOf,    \* the knowledge point of each question
  QuizBank,       \* questions declared for graded quizzes
  CheckBank,      \* questions declared for mastery validation
  AtTarget,       \* questions at the unit's target difficulty
  Recommended,    \* the order of the first recommendation
  Relations,      \* prerequisite pairs at the start
  Documents,      \* documents whose import a publication may bring
  TagsOf,         \* the tags of each knowledge point of the domain
  Rewrites,       \* [item, needs]: prerequisites an administrator may set
  Focus,          \* knowledge points diagnosed as weak
  Later,          \* tables of learners who are further on, to start from
  Outcomes,       \* of a profile analysis: "revised", "kept", "failed"
  LegacyMinimum,  \* question_count_min, 3 in the code
  CountWindow,    \* evidence ids kept per knowledge point, 20 in the code
  MaxTasks, MaxChecks, MaxTries, MaxEdits, MaxSignals,
  MaxRequests,    \* bounds of the exploration
  Overlap         \* whether a commit may overtake a request

VARIABLES
  db,      \* the committed tables
  before,  \* the tables as they were before the last commit
  edits,   \* disabled questions, publications and rewrites so far
  requests, \* requests committed so far, at most MaxRequests
  late     \* history: the requests that committed on an old view

vars == <<db, before, edits, requests, late>>

NoQuestion == "no question"

\* What an administrator may have added.
Rewritten == UNION {{<<k, w.item>> : k \in w.needs} : w \in Rewrites}

ASSUME BankAssumption ==
  /\ DOMAIN KnowledgeOf = Questions
  /\ QuizBank \subseteq Questions /\ CheckBank \subseteq Questions
  /\ QuizBank \cap CheckBank = {} /\ NoQuestion \notin Questions /\ IsFiniteSet(Questions)
  /\ CountWindow \in Nat

\* A list of whatever is in it
IsList(x) == x \in Seq(ToSet(x))

\* The relations of a domain are acyclic but for what administrators add.
Ordered(rel) == IsFiniteSet(rel) /\ Acyclic(rel \ Rewritten)

ASSUME CatalogAssumption ==
  /\ Ordered(Relations) /\ IsList(Recommended)
  /\ \A d \in Documents : IsFiniteSet(d.stated) /\ IsList(d.order)
  /\ \A w \in Rewrites : IsFiniteSet(w.needs)

-----------------------------------------------------------------------------
(* The gate of the current unit (node_mastery_service.py)                  *)

\* node_core_knowledge_ids
Core(ids) == LET members == ToSet(ids) IN
             IF members \cap Focus # {} THEN members \cap Focus ELSE members

Unresolved == {"pending", "reviewing", "verification_pending",
               "needs_more_practice"}

Formal(r) == r.kind \in {"graded_quiz", "path_validation"}

\* _formal_positive_records: the first right formal answer to each active
\* question of knowledge point k.
Evidence(t, k) ==
  LET Right(q) == {i \in DOMAIN t.records : /\ t.records[i].q = q
                                            /\ t.records[i].ok
                                            /\ Formal(t.records[i])}
  IN {Min(Right(q)) : q \in {x \in t.bank : KnowledgeOf[x] = k /\ Right(x) # {}}}

Mastered(records, ev) ==
  /\ Cardinality(ev) >= 2
  /\ \E i \in ev : records[i].kind = "path_validation"
  /\ \E i \in ev : records[i].q \in AtTarget

\* _quiz_completed: a completed quiz of this unit, all its questions active.
QuizDone(t, ids) ==
  \E a \in DOMAIN t.quizzes :
    LET task == t.tasks[t.quizzes[a].task]
        mine == {i \in DOMAIN t.records : /\ t.records[i].kind = "graded_quiz"
                                          /\ t.records[i].src = a} IN
    /\ t.quizzes[a].status = "completed"
    /\ task.node = ids /\ task.row = t.path.row
    /\ Cardinality(mine) >= Cardinality(task.quiz)
    /\ \A i \in mine : t.records[i].q \in t.bank

Blockers(mistakes, ids) ==
  {i \in DOMAIN mistakes : /\ mistakes[i].status \in Unresolved
                           /\ KnowledgeOf[mistakes[i].q] \in Core(ids)}

Unmastered(t, ids) ==
  {k \in Core(ids) :
     ~Mastered(t.records, Evidence(t, k))}

\* Variant of GateOpen: mistakes do not block.
GateIgnoringMistakes(t, ids) ==
  /\ ids # <<>>
  /\ Unmastered(t, ids) = {}
  /\ QuizDone(t, ids)

\* build_node_gate on the tables t: "can_advance"
GateOpen(t, ids) ==
  /\ ids # <<>>
  /\ Unmastered(t, ids) = {}
  /\ Blockers(t.mistakes, ids) = {}
  /\ QuizDone(t, ids)

-----------------------------------------------------------------------------
(* Profiles (profile_revision_service.py, profile_knowledge_state_service) *)

Latest(t) == Len(t.profiles)

\* The evidence on active questions.
Usable(t, ids) == {i \in ids : t.records[i].q \in t.bank}

\* Variant of Fresh: what was counted before is counted again.
FreshAlways(t, counted, ids) == Usable(t, ids)

\* The last CountWindow records counted for knowledge point k.
Recent(t, counted, k) ==
  LET on == {n \in DOMAIN counted : KnowledgeOf[t.records[counted[n]].q] = k}
  IN {counted[n] : n \in {m \in on : Cardinality({x \in on : x > m}) < CountWindow}}

\* build_knowledge_state: records not among those last counted for their
\* knowledge point.
Fresh(t, counted, ids) ==
  {i \in Usable(t, ids) : i \notin Recent(t, counted, KnowledgeOf[t.records[i].q])}

\* project_analysis_with_knowledge_state can ask for a new profile only when
\* a formal record was newly counted.
MayRevise(t, accepted) == \E i \in accepted : Formal(t.records[i])

\* Variant of Rehome: every revision rebuilds the path.
RehomeRebuilds(s, v, p, new) ==
  [NewPath(Recommended, v.rel, new) EXCEPT !.row = s.path.row + 1]

\* The path row that points to profile p, as persist_profile_revision finds
\* it: by the view's profile_id.  None: a path is built from scratch.
Rehome(s, v, p, new) ==
  IF v.path.owner # p
    THEN [NewPath(Recommended, v.rel, new) EXCEPT !.row = s.path.row + 1]
  ELSE IF s.path.row # v.path.row THEN s.path
  ELSE IF s.path.status = "active" THEN [s.path EXCEPT !.owner = new]
  ELSE [Normalize([s.path EXCEPT !.order = Recommended], v.rel) EXCEPT
          !.owner = new, !.status = "active", !.row = s.path.row + 1]

\* _analyze_profile: count the evidence on profile p, whose knowledge state
\* is read as in t, and persist the revision or the private state.
Analyze(s, v, t, p, evidence, revised) ==
  LET accepted == Fresh(t, t.profiles[p].counted, evidence)
      counted  == t.profiles[p].counted \o Picked([i \in DOMAIN t.records |-> i], accepted)
      new      == Len(s.profiles) + 1
  IN IF revised
     THEN [s EXCEPT
             !.profiles = Append(@, [prev |-> p, counted |-> counted]),
             !.records  = [i \in DOMAIN @ |->
                             IF i \in accepted THEN [@[i] EXCEPT !.by = new]
                                               ELSE @[i]],
             !.path     = Rehome(s, v, p, new)]
     ELSE [s EXCEPT !.profiles[p].counted = counted]

\* decide_resource_matching
Matching(path, affected, hypothesis, advanced) ==
  LET here == affected \cap Core(CurrentIds(path)) IN
  CASE advanced                                      -> "next_stage"
    [] ~advanced /\ here # {} /\ hypothesis = "support_down" -> "remedial"
    [] ~advanced /\ here # {} /\ hypothesis = "mastery_up"   -> "challenge"
    [] ~advanced /\ here = {} /\ affected # {}       -> "future_path_reprioritize"
    [] OTHER                                         -> "no_generation"

Confirmable == {"next_stage", "remedial", "challenge"}

\* A matched revision waits for the learner or is closed.
Recommend(s, p, path, affected, advanced) ==
  LET match == Matching(path, affected, s.props[p].hypothesis, advanced) IN
  [s EXCEPT !.props[p] =
     [@ EXCEPT !.match  = match,
               !.target = CurrentIds(path),
               !.status = IF match \in Confirmable THEN "resource_pending"
                                                   ELSE "evidence_recorded"]]

\* A change that concerns only later units reorders them.
Reordered(path, affected, match) ==
  IF match = "future_path_reprioritize" THEN Reprioritize(path, affected)
                                        ELSE path

Proposal(t, hypothesis, q, status) ==
  [node |-> CurrentIds(t.path), row |-> t.path.row, hypothesis |-> hypothesis,
   q |-> q, status |-> status, match |-> "none", target |-> <<>>,
   task |-> 0]

\* _assessment_for_proposal: the proposal waits for the answer to question q.
Assessment(t, hypothesis, q) == Proposal(t, hypothesis, q, "pending_validation")

\* Rows as they are inserted.
Record(q, kind, src, ok) ==
  [q |-> q, kind |-> kind, src |-> src, ok |-> ok, gov |-> "none", by |-> 0]

NewQuiz(t, k) ==
  [task |-> k, status |-> "in_progress",
   answers |-> [q \in t.tasks[k].quiz |-> "none"]]

NewMistake(a, q) == [src |-> a, q |-> q, status |-> "pending", try |-> 0]

NewTry(i) == [item |-> i, status |-> "created"]

-----------------------------------------------------------------------------
(* evaluate_mistake_evidence: what a correction, or a quiz answer on a     *)
(* knowledge point with a mistake, does to the profile and the path.  The  *)
(* profile, the path and the records are read with SELECT ... FOR UPDATE.  *)

\* _eligible_records: per question the latest answer not yet used up.
Candidates(s, r) ==
  LET open == {i \in DOMAIN s.records :
                 /\ KnowledgeOf[s.records[i].q] = KnowledgeOf[s.records[r].q]
                 /\ s.records[i].by = 0 /\ s.records[i].gov # "no_change"}
  IN {i \in open : \A j \in open : s.records[j].q = s.records[i].q => j <= i}

Govern(s, ids, gov, by) ==
  [s EXCEPT !.records = [i \in DOMAIN @ |->
     IF i \in ids THEN [@[i] EXCEPT !.gov = gov, !.by = by] ELSE @[i]]]

\* Two answers are enough when a correction is among them.
Enough(s, cands) ==
  /\ Cardinality(cands) >= 2
  /\ \E i \in cands : s.records[i].kind = "mistake_correction"

\* _advance_ready_node_without_profile_revision.  stored: the mistake items
\* as the database holds them; the session does not flush before a query.
TryAdvance(s, stored, r) ==
  LET ids == CurrentIds(s.path)
      p   == Len(s.props) + 1
      t   == [s EXCEPT !.props = Append(@, Proposal(s, "mastery_up", NoQuestion,
                                                    "resource_pending")),
                       !.path  = Advance(@, ids, s.rel)]
  IN IF s.records[r].ok /\ GateOpen([s EXCEPT !.mistakes = stored], ids)
       THEN Govern(Recommend(t, p, t.path, {}, TRUE), {r}, "consumed", 0)
       ELSE Govern(s, {r}, "pending", 0)

\* A match that concerns only later units reorders them.
Rearranged(s, n, path, affected) ==
  [s EXCEPT !.path = Reordered(path, affected, s.props[n].match)]

\* What follows the analysis of records cands: a unit that is done is left, and a
\* revision or a new unit is matched with a resource.
Judged(s, n, r, cands, revised) ==
  LET ids  == CurrentIds(s.path)
      go   == s.records[r].ok /\ GateOpen(s, ids)
      path == IF go THEN Advance(s.path, ids, s.rel) ELSE s.path
      affected == {KnowledgeOf[s.records[r].q]} \cup Unmastered(s, ids)
  IN Govern(IF revised \/ go
              THEN Rearranged(Recommend(s, n, path, affected, go), n, path, affected)
              ELSE [s EXCEPT !.props[n].status = "no_change"],
            cands, IF revised THEN "consumed" ELSE "no_change",
            IF revised THEN Latest(s) ELSE 0)

Evaluate(s, stored, r, outcome) ==
  LET cands == Candidates(s, r)
      p     == Latest(s)
      own   == s.path.owner = p
      up    == IF s.records[r].ok THEN "mastery_up" ELSE "support_down"
      enough  == Enough(s, cands)
      revised == /\ outcome = "revised"
                 /\ MayRevise(s, Fresh(s, s.profiles[p].counted, cands))
      raised  == [s EXCEPT !.props = Append(@, Proposal(s, up, NoQuestion, "confirmed"))]
  IN CASE s.records[r].gov # "none" -> s
       [] s.records[r].gov = "none" /\ ~enough ->
            IF own THEN TryAdvance(s, stored, r) ELSE Govern(s, {r}, "pending", 0)
       [] s.records[r].gov = "none" /\ enough /\ (~own \/ outcome = "failed") ->
            Govern(s, {r}, "pending", 0)
       [] OTHER ->
            Judged(Analyze(raised, s, s, p, cands, revised),
                   Len(raised.props), r, cands, revised)

-----------------------------------------------------------------------------
(* The tables at the start: one diagnosed learner with the package of the  *)
(* first unit, or any later tables of Later.                               *)

Diagnosed(path) ==
  [rel |-> Relations, bank |-> Questions, path |-> path,
   profiles |-> <<[prev |-> 0, counted |-> <<>>]>>,
   records |-> <<>>, quizzes |-> <<>>, mistakes |-> <<>>,
   tries |-> <<>>, props |-> <<>>, signals |-> <<>>,
   tasks |-> <<[node |-> CurrentIds(path), row |-> 1, prop |-> 0,
                status |-> "completed",
                quiz |-> {q \in QuizBank :
                            KnowledgeOf[q] \in ToSet(CurrentIds(path))}]>>]

Begun == Diagnosed(NewPath(Recommended, Relations, 1))

-----------------------------------------------------------------------------
(* What tables to start from have to be like                               *)

\* The columns of the tables that are lists
RowFields ==
  [records  |-> {"q", "kind", "src", "ok", "gov", "by"},
   quizzes  |-> {"task", "status", "answers"},
   mistakes |-> {"src", "q", "status", "try"},
   tries    |-> {"item", "status"},
   props    |-> {"node", "row", "hypothesis", "q", "status", "match", "target", "task"},
   tasks    |-> {"node", "row", "prop", "status", "quiz"}]

\* A list of rows with these columns
Rows(x, fields) ==
  /\ Len(x) \in Nat /\ x = [i \in 1..Len(x) |-> x[i]]
  /\ \A i \in DOMAIN x : DOMAIN x[i] = fields

Shaped(t) ==
  /\ DOMAIN t = DOMAIN RowFields \cup {"rel", "bank", "path", "profiles", "signals"}
  /\ \A f \in DOMAIN RowFields : Rows(t[f], RowFields[f])

\* Quizzes are made of questions declared for them, corrections of their mistakes.
QuizRows(t) ==
  /\ \A k \in DOMAIN t.tasks : t.tasks[k].quiz \subseteq QuizBank
  /\ \A a \in DOMAIN t.quizzes : DOMAIN t.quizzes[a].answers \subseteq QuizBank
  /\ \A i \in DOMAIN t.mistakes : t.mistakes[i].q \in QuizBank
  /\ \A j \in DOMAIN t.tries : t.tries[j].item \in DOMAIN t.mistakes

\* Checks ask questions declared for them, and the record of a check is the one answer
\* to the question it asked.
CheckRows(t) ==
  /\ \A p \in DOMAIN t.props : t.props[p].q \in CheckBank \cup {NoQuestion}
  /\ \A i \in DOMAIN t.records :
       LET r == t.records[i] IN
       IF r.kind = "path_validation"
       THEN /\ r.src \in DOMAIN t.props /\ r.q = t.props[r.src].q /\ r.q \in CheckBank
            /\ t.props[r.src].status # "pending_validation"
       ELSE r.q \in QuizBank
  /\ \A i, j \in DOMAIN t.records :
       i < j /\ t.records[i].kind = "path_validation"
             /\ t.records[j].kind = "path_validation" => t.records[i].src # t.records[j].src

\* No question is asked by two checks.
ChecksDiffer(t) ==
  \A i, j \in DOMAIN t.props :
    i # j /\ t.props[i].q # NoQuestion => t.props[i].q # t.props[j].q

\* All tasks of a decision but the one it names have failed.
TasksNamed(t) ==
  \A k \in DOMAIN t.tasks :
    LET p == t.tasks[k].prop IN
    p # 0 => /\ p \in DOMAIN t.props
             /\ k = t.props[p].task \/ t.tasks[k].status = "failed"

Consistent(t) == Shaped(t) /\ QuizRows(t) /\ CheckRows(t) /\ ChecksDiffer(t) /\ TasksNamed(t)

IsPath(path) ==
  /\ DOMAIN path = {"order", "units", "rel", "status", "owner", "row"}
  /\ IsList(path.order) /\ path.row \in Nat
  /\ Rows(path.units, {"ids", "status"})
  /\ \A i \in DOMAIN path.units : IsList(path.units[i].ids)
  /\ \A i, j \in At(path, "current") : path.units[i].ids = path.units[j].ids

\* The current unit comes after what it requires, by the relations the path was last
\* grouped by, unless an administrator has closed a cycle.
Follows(path) ==
  (\A e \in Rewritten \cap path.rel : e[1] \notin Reached(e[2], path.rel))
  => \A k \in ToSet(CurrentIds(path)) :
       Requires(path.rel, k) \subseteq CompletedIds(path) \cup ToSet(CurrentIds(path))

\* A record is counted again only after CountWindow others of its knowledge point.
Spaced(t, counted) ==
  \A a, b \in DOMAIN counted :
    LET Of(n) == KnowledgeOf[t.records[counted[n]].q] IN
    a < b /\ counted[a] = counted[b] =>
      CountWindow <= Cardinality({n \in DOMAIN counted : a < n /\ n < b /\ Of(n) = Of(a)})

CountRows(t) ==
  /\ t.profiles # <<>> /\ Rows(t.profiles, {"prev", "counted"})
  /\ \A i \in DOMAIN t.profiles :
       /\ t.profiles[i].counted \in Seq(DOMAIN t.records)
       /\ Spaced(t, t.profiles[i].counted)

\* Every profile is made from the one before it and counts all that one did.
Chained(t) ==
  \A i \in DOMAIN t.profiles :
    /\ t.profiles[i].prev = i - 1
    /\ i > 1 => ToSet(t.profiles[i - 1].counted) \subseteq ToSet(t.profiles[i].counted)

\* A quiz belongs to a package, and no package is for a row of the path that is yet to
\* come.
RowsBehind(t) == /\ \A k \in DOMAIN t.tasks : t.tasks[k].row \in 0..t.path.row
                 /\ \A a \in DOMAIN t.quizzes : t.quizzes[a].task \in DOMAIN t.tasks

Grounded(t) ==
  /\ IsPath(t.path) /\ Follows(t.path) /\ Ordered(t.rel) /\ RowsBehind(t)
  /\ CountRows(t) /\ Chained(t) /\ t.path.owner = Latest(t)

ASSUME LaterAssumption == \A t \in Later : Consistent(t) /\ Grounded(t)

Init ==
  /\ db \in {Begun} \cup Later
  /\ before = db /\ edits = 0 /\ requests = 0 /\ late = {}

\* The views a request may read from.
Views == {db} \cup (IF Overlap THEN {before} ELSE {})

\* A request commits the tables t, having read from v.
CommitOn(t, v, request) ==
  /\ requests' = requests + 1
  /\ db' = t /\ before' = db
  /\ late' = IF v = db THEN late ELSE late \cup {request}
  /\ UNCHANGED edits

Commit(t) == CommitOn(t, db, "")

\* The bank or the catalog changes.
Edit(t) == /\ edits < MaxEdits /\ edits' = edits + 1
           /\ db' = t /\ before' = db
           /\ UNCHANGED <<requests, late>>

-----------------------------------------------------------------------------
(* Graded quizzes (resource_quiz_attempt_service.py)                       *)

\* _formal_evidence_issue
Unusable(t, quiz) == ~(quiz \subseteq t.bank)

\* _invalidate_attempt and _retire_attempt_mistakes
Invalidated(t, a) ==
  [t EXCEPT
     !.quizzes[a].status = "invalidated",
     !.mistakes = [i \in DOMAIN @ |->
        IF @[i].src = a /\ @[i].status # "consolidated"
          THEN [@[i] EXCEPT !.status = "retired"] ELSE @[i]]]

\* current_or_create: one attempt for each quiz resource.
OpenQuiz(k) ==
  LET t == [db EXCEPT !.quizzes = Append(@, NewQuiz(db, k))]
  IN /\ db.tasks[k].status = "completed"
     /\ \A a \in DOMAIN db.quizzes : db.quizzes[a].task # k
     /\ Commit(IF Unusable(db, db.tasks[k].quiz)
                 THEN Invalidated(t, Len(t.quizzes)) ELSE t)

\* _upsert_item: one item for each (source, question); a resolved item keeps
\* its status.
Upsert(mistakes, a, q) ==
  IF \E i \in DOMAIN mistakes : mistakes[i].src = a /\ mistakes[i].q = q
    THEN mistakes
    ELSE Append(mistakes, NewMistake(a, q))

Savable(attempt) == attempt.status = "in_progress"

SaveAnswer(a, q, ok) ==
  /\ Savable(db.quizzes[a])
  /\ q \in DOMAIN db.quizzes[a].answers
  /\ Commit([db EXCEPT
       !.quizzes[a].answers[q] = IF ok THEN "right" ELSE "wrong",
       !.mistakes = IF ok THEN @ ELSE Upsert(@, a, q)])

\* _materialize_objective_evidence: one record for each answer, kept when it
\* exists already.
Materialized(t, a) ==
  LET answers == t.quizzes[a].answers
      known   == {t.records[i].q : i \in {j \in DOMAIN t.records :
                    t.records[j].kind = "graded_quiz" /\ t.records[j].src = a}}
      new     == SetToSeq(DOMAIN answers \ known)
  IN [t EXCEPT !.records = @ \o
        [i \in DOMAIN new |-> Record(new[i], "graded_quiz", a,
                                     answers[new[i]] = "right")]]

\* _evaluate_materialized_evidence: the records of an attempt one after another, if
\* there is a mistake on their knowledge point.
Evaluated(t, mine, outcome) ==
  LET HasMistake(i) == \E m \in DOMAIN t.mistakes :
                         KnowledgeOf[t.mistakes[m].q] = KnowledgeOf[t.records[i].q]
      upTo[n \in 0..Len(t.records)] ==
        IF n = 0 THEN t
        ELSE LET s == upTo[n - 1] IN
             IF n \in mine /\ HasMistake(n) THEN Evaluate(s, s.mistakes, n, outcome) ELSE s
  IN upTo[Len(t.records)]

\* complete: no status is refused, so that a completed attempt is evaluated
\* again or invalidated, and an invalidated one stays so.
CompleteQuiz(a, outcome) ==
  LET answers == db.quizzes[a].answers
      t    == Materialized([db EXCEPT !.quizzes[a].status = "completed"], a)
      mine == {i \in DOMAIN t.records : /\ t.records[i].kind = "graded_quiz"
                                        /\ t.records[i].src = a}
  IN IF Unusable(db, DOMAIN answers) THEN Commit(Invalidated(db, a))
     ELSE /\ \A q \in DOMAIN answers : answers[q] # "none"
          /\ Commit(Evaluated(t, mine, outcome))

-----------------------------------------------------------------------------
(* The question bank and the catalog change under the learner.             *)

\* knowledge.py disable_question
DisableQuestion(q) == q \in db.bank /\ Edit([db EXCEPT !.bank = @ \ {q}])

\* mark_affected_questions_stale: questions on changed knowledge points.
Kept(bank, items) == {q \in bank : KnowledgeOf[q] \notin items}

ProposalsOf == [d \in Documents |-> Proposals(d, DOMAIN TagsOf, TagsOf)]

\* activate_import_candidate: a publication brings the relations of its
\* import (DomainKnowledge) and retires the questions on its knowledge points.
\* The import was projected beside the relations of now or, as these do not
\* show in the fingerprint of the catalog, before an administrator added some.
PublishDocument(d) ==
  \E g \in {x \in ProposalsOf[d] :
             \E rel \in {db.rel, db.rel \ Rewritten} : Projectable(x, rel)} :
       Edit([db EXCEPT !.rel = @ \cup g.pairs, !.bank = Kept(@, Items(d))])

\* KnowledgeApiService.update with replace_item_relations: an administrator
\* rewrites a knowledge point and its prerequisites.  Only a reference to
\* itself is refused.
RewriteItem(item, needs) ==
  /\ item \notin needs
  /\ Edit([db EXCEPT !.rel = {r \in @ : r[2] # item} \cup {<<k, item>> : k \in needs},
                     !.bank = Kept(@, {item})])

-----------------------------------------------------------------------------
(* Mastery checks (learning_adjustment_service.py, question_bank_service)  *)

\* Variant of SeenQuestions: pending checks and corrections do not count.
AnsweredQuestions(t, k) ==
  {t.records[i].q : i \in {j \in DOMAIN t.records : Formal(t.records[j])}}

\* learner_seen_question_ids
SeenQuestions(t, k) ==
  {t.records[i].q : i \in DOMAIN t.records}
    \cup {t.props[i].q : i \in DOMAIN t.props}
    \cup {t.mistakes[t.tries[i].item].q : i \in DOMAIN t.tries}
    \cup t.tasks[k].quiz

\* select_mastery_question: an unseen active question on a knowledge point
\* of the unit that is not mastered yet, on any of them when all are.  Which
\* of several is left open.
Checkable(t, k, ids) ==
  LET met    == Core(ids) \ Unmastered(t, ids)
      wanted == IF ToSet(ids) = met THEN met ELSE ToSet(ids) \ met
  IN {q \in (CheckBank \cap t.bank) \ SeenQuestions(t, k) :
        KnowledgeOf[q] \in wanted}

\* _active_context: task k made the package of the current unit, and the
\* path belongs to the learner's latest profile.
InContext(t, k) ==
  /\ t.tasks[k].status = "completed"
  /\ t.path.status = "active" /\ CurrentIds(t.path) # <<>>
  /\ t.tasks[k].node = CurrentIds(t.path) /\ t.tasks[k].row = t.path.row
  /\ t.path.owner = Latest(t)

\* _pending_proposal
Pending(t) == {i \in DOMAIN t.props :
                 /\ t.props[i].row = t.path.row
                 /\ t.props[i].node = CurrentIds(t.path)
                 /\ t.props[i].status \in {"collecting", "pending_validation"}}

RequestMastery(v, k, q) ==
  /\ Len(db.props) < MaxChecks
  /\ k \in DOMAIN v.tasks /\ InContext(v, k)
  /\ Pending(v) = {}
  /\ q \in Checkable(v, k, CurrentIds(v.path))
  /\ CommitOn([db EXCEPT !.props = Append(@,
                 Assessment(v, "mastery_up", q))],
              v, "RequestMastery")

\* add_learner_message with a feedback intent, and
\* maybe_create_automatic_assessment.  Without a question left the proposal
\* is committed as it is, collecting.
Tutor(k, intent) ==
  LET sig  == Append(db.signals, intent)
      last == Len(sig)
      hypothesis == IF intent = "too_easy" THEN "mastery_up" ELSE "support_down"
      Raise(q) == [db EXCEPT
         !.signals = SubSeq(sig, 1, last - 2),
         !.props   = Append(@, IF q = NoQuestion
                                 THEN Proposal(db, hypothesis, q, "collecting")
                                 ELSE Assessment(db, hypothesis, q))]
      found == Checkable(db, k, CurrentIds(db.path))
  IN /\ last <= MaxSignals
     /\ InContext(db, k)
     /\ IF Pending(db) # {} \/ last < 2
          THEN Commit([db EXCEPT !.signals = sig])
        ELSE IF sig[last - 1] # intent
          THEN Commit([db EXCEPT !.signals = SubSeq(sig, 1, last - 2)])
        ELSE /\ Len(db.props) < MaxChecks
             /\ \E q \in IF found = {} THEN {NoQuestion} ELSE found :
                  Commit(Raise(q))

\* The profile that is analysed: latest_profile_for_learner.
Basis(v, p) == Latest(v)

\* The tables as a request on view v reads them after its own insert: the
\* records committed by others since then are not seen.
Reading(v, s) ==
  [v EXCEPT !.records = [i \in DOMAIN s.records |->
     IF i <= Len(v.records) \/ i = Len(s.records)
       THEN s.records[i] ELSE [s.records[i] EXCEPT !.kind = "unseen"]]]

\* The check is open, and so is the unit it was raised for.
Answerable(v, p) ==
  /\ p \in DOMAIN v.props
  /\ v.props[p].q # NoQuestion /\ v.props[p].status = "pending_validation"
  /\ db.props[p].status = "pending_validation"
  /\ v.path.status = "active" /\ v.path.row = v.props[p].row
  /\ CurrentIds(v.path) = v.props[p].node

\* The answer bears out the hypothesis: a right one when it completes the
\* evidence on a core knowledge point, a wrong one at once.
Confirms(t, ids, hypothesis, k, ok) ==
  IF hypothesis = "mastery_up"
    THEN ok /\ k \in Core(ids) /\ Mastered(t.records, Evidence(t, k))
    ELSE ~ok

\* The tables after the analysis as the request sees them: its path is the view's
\* unless the revision replaced the row.
Seen(v, s) ==
  [Reading(v, s) EXCEPT
     !.path = IF s.path.row # db.path.row THEN s.path
                                          ELSE [v.path EXCEPT !.owner = s.path.owner]]

\* The path is written back only when the decision moved it.
Written(s, p, path, next, affected) ==
  LET placed == Reordered(next, affected, s.props[p].match)
  IN IF placed # path /\ placed.row = s.path.row
       THEN [s EXCEPT !.path = placed] ELSE s

Leaves(t, p) == t.props[p].hypothesis = "mastery_up" /\ GateOpen(t, CurrentIds(t.path))

\* A confirmed assessment, analysed in s and seen as t.
Settled(s, t, p, k, revise) ==
  LET ids  == CurrentIds(t.path)
      go   == Leaves(t, p)
      next == IF go THEN Advance(t.path, ids, t.rel) ELSE t.path
      affected == {k} \cup Unmastered(t, ids)
  IN Written(IF revise THEN Recommend(s, p, next, affected, go)
                       ELSE [s EXCEPT !.props[p].status = "evidence_recorded"],
             p, t.path, next, affected)

\* answer_adjustment_assessment.  The assessment is locked, the path and the
\* profile are not: the path is written back as it was read.
AnswerAssessment(v, p, ok, revise) ==
  LET q    == v.props[p].q
      k    == KnowledgeOf[q]
      s0   == [db EXCEPT !.records = Append(@, Record(q, "path_validation", p, ok)),
                         !.signals = <<>>]
      t0   == Reading(v, s0)
      confirmed == Confirms(t0, CurrentIds(v.path), v.props[p].hypothesis, k, ok)
      used == IF v.props[p].hypothesis = "mastery_up" THEN Evidence(t0, k)
                                                      ELSE {Len(s0.records)}
      base == Basis(v, p)
      s1   == Analyze(s0, v, t0, base, used, revise)
      t1   == Seen(v, s1)
  IN /\ Answerable(v, p)
     /\ confirmed /\ Leaves(t1, p) => CurrentIds(t1.path) = v.props[p].node
     /\ revise => confirmed
                  /\ MayRevise(t0, Fresh(t0, v.profiles[base].counted, used))
     /\ CommitOn(IF confirmed THEN Settled(s1, t1, p, k, revise)
                 ELSE [s0 EXCEPT !.props[p].status =
                         IF ok THEN "evidence_recorded" ELSE "rejected"],
                 v, "AnswerAssessment")

-----------------------------------------------------------------------------
(* Mistake correction (mistake_review_service.py)                          *)

\* retire_unavailable_items, run first by every request on mistakes.
Swept(t) ==
  LET gone == {i \in DOMAIN t.mistakes :
                 /\ t.mistakes[i].status \in Unresolved
                 /\ t.mistakes[i].q \notin t.bank}
  IN [t EXCEPT
        !.mistakes = [i \in DOMAIN @ |-> IF i \in gone
                        THEN [@[i] EXCEPT !.status = "retired"] ELSE @[i]],
        !.tries = [j \in DOMAIN @ |->
                     IF /\ @[j].status = "created" /\ @[j].item \in gone
                        /\ t.mistakes[@[j].item].try = j
                       THEN [@[j] EXCEPT !.status = "retired"] ELSE @[j]]]

ListMistakes == Swept(db) # db /\ Commit(Swept(db))

\* start_attempt: a consolidated item is not refused.
StartCorrection(i) ==
  LET t == Swept(db)
      open == t.mistakes[i].try # 0 /\ t.tries[t.mistakes[i].try].status = "created"
  IN /\ Len(db.tries) < MaxTries
     /\ t.mistakes[i].status # "retired"
     /\ t.mistakes[i].q \in t.bank /\ ~open
     /\ Commit([t EXCEPT
          !.tries = Append(@, NewTry(i)),
          !.mistakes[i].try = Len(t.tries) + 1,
          !.mistakes[i].status = "reviewing"])

\* answer_attempt.  The item's new status is not flushed when the evidence
\* is evaluated.
AnswerCorrection(j, ok, outcome) ==
  LET t == Swept(db)
      i == t.tries[j].item
      s == [t EXCEPT
              !.records = Append(@, Record(t.mistakes[i].q, "mistake_correction", j, ok)),
              !.tries[j].status = IF ok THEN "passed" ELSE "failed",
              !.mistakes[i].status = IF ok THEN "consolidated" ELSE "needs_more_practice"]
  IN /\ t.mistakes[i].status # "retired"
     /\ IF t.mistakes[i].q \notin t.bank
          THEN Commit([t EXCEPT !.mistakes[i].status = "retired"])
          ELSE /\ t.tries[j].status = "created"
               /\ Commit(Evaluate(s, t.mistakes, Len(s.records), outcome))

-----------------------------------------------------------------------------
(* The learner's own completion of a unit, and new packages.               *)

\* _eligible_evidence: the formal answers on the unit.
EligibleEvidence(t, ids) ==
  {i \in DOMAIN t.records : /\ Formal(t.records[i])
                            /\ KnowledgeOf[t.records[i].q] \in ToSet(ids)}

\* _verify_node_evidence without a current package of the unit: enough right
\* formal answers, chosen by the client, that cover the unit's focus.
LegacyVerified(t, ids) ==
  LET right == {i \in EligibleEvidence(t, ids) : t.records[i].ok}
  IN /\ Cardinality(right) >= LegacyMinimum
     /\ ToSet(ids) \cap Focus \subseteq {KnowledgeOf[t.records[i].q] : i \in right}

Packaged(t, ids) == \E k \in DOMAIN t.tasks :
                      t.tasks[k].status = "completed" /\ t.tasks[k].node = ids

\* complete_path_node; verify_path_node only normalises.
CompleteNode ==
  LET path == Normalize(db.path, db.rel)
      ids  == CurrentIds(path)
      t    == [db EXCEPT !.path = path]
  IN /\ ids # <<>>
     /\ IF Packaged(db, ids) THEN GateOpen(t, ids) ELSE LegacyVerified(db, ids)
     /\ Commit([db EXCEPT !.path = Advance(path, ids, db.rel)])

VerifyNode == /\ Normalize(db.path, db.rel) # db.path
              /\ Commit([db EXCEPT !.path = Normalize(@, db.rel)])

\* decide_proposal_resource: the proposal is locked, its task is read from
\* the view.
Skip(p) ==
  /\ db.props[p].status \in {"resource_pending", "resource_started", "stale"}
  /\ Commit([db EXCEPT !.props[p].status = "resource_skipped"])

NewTask(path, p) == [node |-> CurrentIds(path), row |-> path.row, prop |-> p,
                     status |-> "pending", quiz |-> {}]

\* Variant of Answered: a proposal whose task exists gets another one.
NeverAnswered(v, prop) == FALSE

\* The existing task is returned, unless it is a next-unit package that
\* failed (_node_advancement_task_needs_recovery).
Answered(v, prop) ==
  /\ prop.task \in DOMAIN v.tasks
  /\ ~(prop.match = "next_stage" /\ v.tasks[prop.task].status = "failed")

Generate(v, p) ==
  LET prop == db.props[p] IN
  /\ Len(db.tasks) < MaxTasks
  /\ p \in DOMAIN v.props
  /\ prop.status \in {"resource_pending", "resource_started"}
  /\ prop.match \in Confirmable
  /\ IF v.path.status # "active" \/ CurrentIds(v.path) # prop.target
       THEN CommitOn([db EXCEPT !.props[p].status = "stale"], v, "Generate")
       ELSE /\ ~Answered(v, prop)
            /\ CommitOn([db EXCEPT
                 !.tasks = Append(@, NewTask(v.path, p)),
                 !.props[p].task   = Len(db.tasks) + 1,
                 !.props[p].status = "resource_started"], v, "Generate")

\* create_generation_task
CreateTask ==
  LET path == Normalize(db.path, db.rel) IN
  /\ Len(db.tasks) < MaxTasks
  /\ path.status = "active" /\ path.owner = Latest(db) /\ CurrentIds(path) # <<>>
  /\ Commit([db EXCEPT !.path = path, !.tasks = Append(@, NewTask(path, 0))])

\* The worker ends the task (GenerationTask): the quiz gets the questions of
\* the unit that are active then.
FinishTask(k, ok) ==
  LET quiz == {q \in QuizBank \cap db.bank :
                 KnowledgeOf[q] \in ToSet(db.tasks[k].node)}
  IN /\ db.tasks[k].status = "pending"
     /\ ok => quiz # {}
     /\ Commit([db EXCEPT !.tasks[k].status = IF ok THEN "completed" ELSE "failed",
                          !.tasks[k].quiz = IF ok THEN quiz ELSE {}])

-----------------------------------------------------------------------------
Request ==
  \/ \E k \in DOMAIN db.tasks : OpenQuiz(k)
  \/ \E a \in DOMAIN db.quizzes, q \in QuizBank, ok \in BOOLEAN : SaveAnswer(a, q, ok)
  \/ \E a \in DOMAIN db.quizzes, o \in Outcomes : CompleteQuiz(a, o)
  \/ \E v \in Views, k \in DOMAIN db.tasks, q \in CheckBank : RequestMastery(v, k, q)
  \/ \E k \in DOMAIN db.tasks, i \in {"too_easy", "too_hard"} : Tutor(k, i)
  \/ \E v \in Views, p \in DOMAIN db.props, ok, r \in BOOLEAN : AnswerAssessment(v, p, ok, r)
  \/ ListMistakes
  \/ \E i \in DOMAIN db.mistakes : StartCorrection(i)
  \/ \E j \in DOMAIN db.tries, ok \in BOOLEAN, o \in Outcomes : AnswerCorrection(j, ok, o)
  \/ VerifyNode
  \/ CompleteNode
  \/ \E p \in DOMAIN db.props : Skip(p)
  \/ \E v \in Views, p \in DOMAIN db.props : Generate(v, p)
  \/ CreateTask
  \/ \E k \in DOMAIN db.tasks, ok \in BOOLEAN : FinishTask(k, ok)

Next ==
  \/ requests < MaxRequests /\ Request
  \/ \E q \in Questions : DisableQuestion(q)
  \/ edits < MaxEdits /\ \E d \in Documents : PublishDocument(d)
  \/ \E w \in Rewrites : RewriteItem(w.item, w.needs)

Spec == Init /\ [][Next]_vars

-----------------------------------------------------------------------------
\* A completed unit stays completed through every normalisation, revision,
\* new prerequisite and regrouping, as long as no assessment was answered on
\* an old view.
CompletedStays ==
  [][ "AnswerAssessment" \notin late' =>
        CompletedIds(db.path) \subseteq CompletedIds(db'.path) ]_vars

\* The learner is never put on a unit before what it requires, by the
\* relations the path was last grouped by, whatever a publication or an
\* administrator makes of them while units are done.  Only a relation of an
\* administrator that closes a cycle escapes: what it blocks keeps the
\* recommended order.
CurrentFollowsPrerequisites == Follows(db.path)

\* A unit with a package is completed only when the committed tables bear
\* it out: its core is mastered on active questions, no mistake blocks it
\* and its quiz is done.  Only an answer on an old view escapes.
GateHeldAtCommit ==
  [][ \A i \in DOMAIN db'.path.units :
        LET ids == db'.path.units[i].ids IN
        ( /\ db'.path.units[i].status = "completed"
          /\ ~(ToSet(ids) \subseteq CompletedIds(db.path))
          /\ Packaged(db, ids) /\ late' = {} )
        => /\ Unmastered(db', ids) = {}
           /\ Blockers(db'.mistakes, ids) = {}
           /\ QuizDone([db' EXCEPT !.path.row = db.path.row], ids) ]_vars

\* The profiles of a learner are one history, whatever order quizzes,
\* corrections and checks revise them in: each is made from the one before it
\* and counts all that one did, and no answer is counted twice before CountWindow
\* others of its knowledge point.  Only an assessment answered on an old view can
\* fork them.
CountedOnce ==
  /\ \A i \in DOMAIN db.profiles : Spaced(db, db.profiles[i].counted)
  /\ "AnswerAssessment" \notin late => Chained(db)

\* A mastery check asks a question the learner has met nowhere: not in
\* another check, nor in an answer to a quiz, a check or a correction that
\* came before its own, unless it was requested on an old view.
UnseenChecks ==
  "RequestMastery" \notin late =>
    /\ \A i, j \in DOMAIN db.props :
         i # j /\ db.props[i].q # NoQuestion => db.props[i].q # db.props[j].q
    /\ \A i, j \in DOMAIN db.records :
         i < j /\ db.records[j].kind = "path_validation" =>
           db.records[i].q # db.records[j].q

\* A decision gives one package: a second task is created only after the
\* first has failed, unless the decision was repeated on an old view.
OneTaskPerDecision ==
  "Generate" \notin late =>
    \A i, j \in DOMAIN db.tasks :
      i # j /\ db.tasks[i].prop = db.tasks[j].prop /\ db.tasks[i].prop # 0 =>
        "failed" \in {db.tasks[i].status, db.tasks[j].status}
=============================================================================
